------------------------------ MODULE InAppFs -------------------------------
(***************************************************************************)
(* The In-App file store: one IndexedDB object store of files and          *)
(* directories keyed by path, with a revision that every committed change  *)
(* raises.  Each operation is one transaction, so it is one operator on    *)
(* the store.  A path is the sequence of its names below the root; the     *)
(* content of a file is a number, 0 when it is empty.  An entry remembers  *)
(* the revision that wrote it (its mtime) and whether this window did.     *)
(***************************************************************************)
EXTENDS Integers, Sequences, FiniteSets

CONSTANTS Names,       \* the names of files and directories
          Paths,       \* paths the instance uses, <<>> (the root) excluded
          MaxEdit,     \* largest content
          None

ASSUME PathAssumption ==
    /\ Paths \subseteq Seq(Names) \ {<<>>} /\ MaxEdit \in Nat
    /\ \A p \in Paths : \A n \in 1..Len(p) : SubSeq(p, 1, n) \in Paths

Contents == 0..MaxEdit

Parent(p) == SubSeq(p, 1, Len(p) - 1)
isPathUnder(p, q) == Len(p) >= Len(q) /\ SubSeq(p, 1, Len(q)) = q
\* remapPathUnder: the path below "from" moved below "to".
Remap(p, from, to) == to \o SubSeq(p, Len(from) + 1, Len(p))

Exists(fs, p) == p \in DOMAIN fs.files
IsFile(fs, p) == Exists(fs, p) /\ ~fs.files[p].dir
Dirs(fs) == {p \in DOMAIN fs.files : fs.files[p].dir} \cup {<<>>}

Entry(fs, dir, c, own) == [dir |-> dir, c |-> c, m |-> fs.rev + 1, own |-> own]

Put(fs, p, e) ==
    [files |-> [q \in DOMAIN fs.files \cup {p} |-> IF q = p THEN e ELSE fs.files[q]],
     rev   |-> fs.rev + 1]

\* write creates the missing directories above the file.
write(fs, p, c, own) ==
    LET missing == {q \in Paths : isPathUnder(p, q) /\ q # p /\ ~Exists(fs, q)}
        all == DOMAIN fs.files \cup missing
        made == [fs EXCEPT !.files =
                    [q \in all |-> IF q \in missing THEN Entry(fs, TRUE, 0, own) ELSE fs.files[q]]]
    IN Put(made, p, Entry(fs, FALSE, c, own))

\* createUnique and mkdirUnique take the first name that add() does not refuse.
createUnique(fs, p, c) == Put(fs, p, Entry(fs, FALSE, c, TRUE))
mkdirUnique(fs, p) == Put(fs, p, Entry(fs, TRUE, 0, TRUE))

delete(fs, p) ==
    [files |-> [q \in {r \in DOMAIN fs.files : ~isPathUnder(r, p)} |-> fs.files[q]],
     rev   |-> fs.rev + 1]

\* rename refuses a missing source and a target that exists or has children.
CanRename(fs, from, to) ==
    /\ \E q \in DOMAIN fs.files : isPathUnder(q, from)
    /\ \A q \in DOMAIN fs.files : ~isPathUnder(q, to)

rename(fs, from, to) ==
    LET moved == {q \in DOMAIN fs.files : isPathUnder(q, from)}
        new == {Remap(q, from, to) : q \in moved}
    IN [files |-> [q \in (DOMAIN fs.files \ moved) \cup new |->
                      IF q \in new THEN fs.files[Remap(q, to, from)] ELSE fs.files[q]],
        rev   |-> fs.rev + 1]

\* What a manifest says of the store: which paths, and what they hold.
Tree(fs) == [p \in DOMAIN fs.files |-> [dir |-> fs.files[p].dir, c |-> fs.files[p].c]]

\* replaceTree drops everything below the root and puts the manifest.
replaceTree(fs, tree) ==
    [files |-> [p \in DOMAIN tree |-> Entry(fs, tree[p].dir, tree[p].c, TRUE)],
     rev   |-> fs.rev + 1]
=============================================================================
