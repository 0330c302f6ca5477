----------------------------- MODULE ShellProofs -----------------------------
(***************************************************************************)
(* Proofs about the shell around the panes: the application's windows,    *)
(* deep links and updates (AppShell), its browser views (BrowserViews),   *)
(* and what a click starts: the names of sessions (SessionNames), quick   *)
(* commands (CommandSlots) and files (FileOpen).  The facts about lists   *)
(* that they cite are in TabProofs, with the proofs about the tabs.       *)
(***************************************************************************)
EXTENDS MCShell, TabProofs

-----------------------------------------------------------------------------
(* AppShell.  A link that waits has not been sent, a payload that waits   *)
(* has not been taken, and a window that is still to be made has had none. *)

AppTypeOK ==
    /\ appReady \in BOOLEAN /\ preReady \in Seq(Links) /\ pendingLinks \in Seq(Links)
    /\ rend \in [W -> {"none", "loading", "up", "closed"}] /\ readyIds \subseteq W
    /\ focusedWin \in W \cup {0} /\ gift \in [W -> BOOLEAN]
    /\ sent \in [Links -> Nat] /\ got \in [W -> Nat]
    /\ upd \in [at : {"none", "download", "extract", "apply"}, mixed : BOOLEAN]
    /\ install \in [Parts -> {"old", "new", "gone"}]

\* Before the application is ready it has no window, and room for one.
Resting(s) == s.ready = {} /\ OpenWins(s.rend) = {} /\ HasRoom(s)

WaitingUnsent(waiting, s) == \A l \in Links : s[l] <= 1 /\ (l \in waiting => s[l] = 0)

WaitingUntaken(r, g, h) == \A w \in W : h[w] <= 1 /\ (g[w] \/ r[w] = "none" => h[w] = 0)

Whole(inst) == \E v \in {"old", "new"} : \A d \in Parts : inst[d] = v

AppInv ==
    /\ AppTypeOK
    /\ IF appReady THEN preReady = <<>> ELSE Resting(Shell)
    /\ WaitingUnsent(ToSet(preReady) \cup ToSet(pendingLinks), sent)
    /\ WaitingUntaken(rend, gift, got)
    /\ upd.mixed \/ Whole(install)

\* The records of WindowManager's operations.
Shells ==
    [rend : [W -> {"none", "loading", "up", "closed"}], ready : SUBSET W, focus : W \cup {0},
     gift : [W -> BOOLEAN], pend : Seq(Links), sent : [Links -> Nat], got : [W -> Nat]]

LEMMA ShellTyped ==
    ASSUME AppTypeOK
    PROVE  Shell \in Shells
  BY DEF AppTypeOK, Shells, Shell

\* The least window of a set of windows is one of them.
LEMMA MinWindow ==
    ASSUME NEW T, T \subseteq W, T # {}
    PROVE  Min(T) \in T
  <1>1. T \in SUBSET Nat
    BY AppAssumption DEF W
  <1>2. \E m \in T : \A n \in T : m <= n
    BY <1>1, Least
  <1> QED BY <1>2 DEF Min

\* A new window takes a number that has not been used.
LEMMA Created ==
    ASSUME NEW s \in Shells, HasRoom(s), NEW payload \in BOOLEAN
    PROVE  LET w == NewWin(s)
               n == createWindow(s, payload)
           IN  /\ w \in W /\ s.rend[w] = "none" /\ n \in Shells
               /\ n.rend = [s.rend EXCEPT ![w] = "loading"] /\ n.gift = [s.gift EXCEPT ![w] = payload]
               /\ n.focus = w /\ n.ready = s.ready /\ n.pend = s.pend /\ n.sent = s.sent /\ n.got = s.got
               /\ w \in OpenWins(n.rend)
  <1> DEFINE w == NewWin(s)
             n == createWindow(s, payload)
  <1>1. w \in W /\ s.rend[w] = "none"
    <2> DEFINE T == {v \in W : s.rend[v] = "none"}
    <2>1. T \subseteq W /\ T # {}
      BY DEF HasRoom
    <2>2. w \in T
      <3>1. w = Min(T)
        BY DEF NewWin
      <3> HIDE DEF T, w
      <3> QED BY <2>1, <3>1, MinWindow
    <2> QED BY <2>2
  <1> HIDE DEF w
  <1>2. n = [s EXCEPT !.rend[w] = "loading", !.gift[w] = payload, !.focus = w]
    BY DEF createWindow, w
  <1>3. s.rend \in [W -> {"none", "loading", "up", "closed"}] /\ s.gift \in [W -> BOOLEAN]
    BY DEF Shells
  <1> HIDE DEF n
  <1>4. /\ n.rend = [s.rend EXCEPT ![w] = "loading"] /\ n.gift = [s.gift EXCEPT ![w] = payload]
        /\ n.focus = w /\ n.ready = s.ready /\ n.pend = s.pend /\ n.sent = s.sent /\ n.got = s.got
    BY <1>2 DEF Shells
  <1>5. n \in Shells
    BY <1>1, <1>2, <1>3 DEF Shells
  <1>6. w \in OpenWins(n.rend)
    BY <1>1, <1>3, <1>4 DEF OpenWins
  <1> QED BY <1>1, <1>4, <1>5, <1>6 DEF n, w

\* What the operations leave: the windows that wait and the links.
Kept(s, n) ==
    /\ n \in Shells /\ n.ready = s.ready /\ n.got = s.got
    /\ WaitingUntaken(s.rend, s.gift, s.got) => WaitingUntaken(n.rend, n.gift, n.got)

LEMMA CreatedKeeps ==
    ASSUME NEW s \in Shells, HasRoom(s), NEW payload \in BOOLEAN
    PROVE  Kept(s, createWindow(s, payload))
  <1> DEFINE w == NewWin(s)
             n == createWindow(s, payload)
  <1>1. /\ w \in W /\ s.rend[w] = "none" /\ n \in Shells
        /\ n.rend = [s.rend EXCEPT ![w] = "loading"] /\ n.gift = [s.gift EXCEPT ![w] = payload]
        /\ n.ready = s.ready /\ n.got = s.got
    BY Created
  <1>2. s.rend \in [W -> {"none", "loading", "up", "closed"}] /\ s.gift \in [W -> BOOLEAN]
    BY DEF Shells
  <1> HIDE DEF w, n
  <1>3. ASSUME WaitingUntaken(s.rend, s.gift, s.got) PROVE WaitingUntaken(n.rend, n.gift, n.got)
    BY <1>1, <1>2, <1>3 DEF WaitingUntaken
  <1>4. Kept(s, n)
    BY <1>1, <1>3 DEF Kept
  <1> QED BY <1>4 DEF n

\* A deep link reaches one window, or joins those that wait.
LEMMA Delivered ==
    ASSUME NEW s \in Shells, OpenWins(s.rend) # {} \/ HasRoom(s), NEW l \in Links
    PROVE  LET n == handleDeeplink(s, l)
           IN  /\ Kept(s, n) /\ OpenWins(n.rend) # {}
               /\ \/ n.sent = s.sent /\ n.pend = Append(s.pend, l)
                  \/ n.sent = [s.sent EXCEPT ![l] = @ + 1] /\ n.pend = s.pend
               /\ s.ready = {} => n.sent = s.sent
               /\ OpenWins(s.rend) # {} => n.rend = s.rend /\ n.gift = s.gift
  <1> DEFINE m == showOrCreate(s)
             n == deliverDeeplink(m, l)
  <1>1. /\ Kept(s, m) /\ OpenWins(m.rend) # {} /\ m.sent = s.sent /\ m.pend = s.pend
        /\ OpenWins(s.rend) # {} => m.rend = s.rend /\ m.gift = s.gift
    <2>1. CASE OpenWins(s.rend) # {}
      <3>1. Min(OpenWins(s.rend)) \in W
        BY <2>1, MinWindow DEF OpenWins
      <3>2. m = [s EXCEPT !.focus = Min(OpenWins(s.rend))]
        BY <2>1 DEF showOrCreate
      <3> DEFINE v == Min(OpenWins(s.rend))
      <3> HIDE DEF v
      <3>3. /\ m \in Shells /\ m.rend = s.rend /\ m.gift = s.gift /\ m.ready = s.ready /\ m.got = s.got
            /\ m.sent = s.sent /\ m.pend = s.pend
        BY <3>1, <3>2 DEF Shells, v
      <3> QED BY <2>1, <3>3 DEF Kept
    <2>2. CASE OpenWins(s.rend) = {}
      <3>1. HasRoom(s)
        BY <2>2
      <3>2. m = createWindow(s, FALSE)
        BY <2>2 DEF showOrCreate
      <3> QED BY <2>2, <3>1, <3>2, Created, CreatedKeeps
    <2> QED BY <2>1, <2>2
  <1>2. m \in Shells /\ m.ready = s.ready
    BY <1>1 DEF Kept
  <1> HIDE DEF m
  <1>3. n = IF pickDeeplinkTarget(m) = 0 THEN [m EXCEPT !.pend = Append(@, l)] ELSE [m EXCEPT !.sent[l] = @ + 1]
    BY DEF deliverDeeplink
  <1> HIDE DEF n
  <1>4. m.sent \in [Links -> Nat] /\ m.pend \in Seq(Links)
    BY <1>2 DEF Shells
  <1>5. /\ n \in Shells /\ n.rend = m.rend /\ n.gift = m.gift /\ n.ready = m.ready /\ n.got = m.got
        /\ \/ n.sent = m.sent /\ n.pend = Append(m.pend, l)
           \/ n.sent = [m.sent EXCEPT ![l] = @ + 1] /\ n.pend = m.pend
    <2>1. CASE pickDeeplinkTarget(m) = 0
      <3>1. n = [m EXCEPT !.pend = Append(@, l)]
        BY <1>3, <2>1
      <3>2. Append(m.pend, l) \in Seq(Links)
        BY <1>4
      <3> QED BY <1>2, <3>1, <3>2 DEF Shells
    <2>2. CASE pickDeeplinkTarget(m) # 0
      <3> DEFINE q == [m.sent EXCEPT ![l] = @ + 1]
      <3>1. n = [m EXCEPT !.sent = q]
        BY <1>3, <2>2
      <3>2. q \in [Links -> Nat]
        BY <1>4
      <3>3. /\ n \in Shells /\ n.rend = m.rend /\ n.gift = m.gift /\ n.ready = m.ready /\ n.got = m.got
            /\ n.sent = q /\ n.pend = m.pend
        <4> HIDE DEF q
        <4> QED BY <1>2, <3>1, <3>2 DEF Shells
      <3> QED BY <3>3
    <2> QED BY <2>1, <2>2
  <1>6. s.ready = {} => n.sent = m.sent
    <2>1. ASSUME s.ready = {} PROVE pickDeeplinkTarget(m) = 0
      BY <1>2, <2>1 DEF pickDeeplinkTarget
    <2> QED BY <1>2, <1>3, <2>1 DEF Shells
  <1>7. Kept(s, n)
    BY <1>1, <1>5 DEF Kept
  <1> QED BY <1>1, <1>5, <1>6, <1>7 DEF handleDeeplink, m, n

-----------------------------------------------------------------------------
(* The links that came before the application was ready are handled one   *)
(* after the other, over the first window, which is not ready either.     *)

Handled(f, s, q, n) == f = [i \in 0..n |-> IF i = 0 THEN s ELSE handleDeeplink(f[i - 1], q[i])]

LEMMA HandledExists ==
    ASSUME NEW s, NEW q \in Seq(Links)
    PROVE  \E f : Handled(f, s, q, Len(q))
  <1> DEFINE T == {n \in 0..Len(q) : \E f : Handled(f, s, q, n)}
  <1>1. Len(q) \in Nat
    OBVIOUS
  <1>2. 0 \in T
    <2> DEFINE f == [i \in 0..0 |-> s]
    <2>1. Handled(f, s, q, 0)
      BY DEF Handled
    <2> QED BY <1>1, <2>1
  <1>3. ASSUME NEW n \in 1..Len(q), (n - 1) \in T PROVE n \in T
    <2>1. PICK f : Handled(f, s, q, n - 1)
      BY <1>3
    <2> DEFINE v == handleDeeplink(f[n - 1], q[n])
               g == [i \in 0..n |-> IF i = n THEN v ELSE f[i]]
    <2>2. ASSUME NEW i \in 0..n
          PROVE  g[i] = IF i = 0 THEN s ELSE handleDeeplink(g[i - 1], q[i])
      <3>1. CASE i = n
        <4>1. i # 0 /\ g[i] = v /\ g[i - 1] = f[i - 1]
          BY <3>1, <1>1
        <4> HIDE DEF g
        <4> QED BY <3>1, <4>1
      <3>2. CASE i # n
        <4>1. i \in 0..(n - 1) /\ g[i] = f[i] /\ (i # 0 => g[i - 1] = f[i - 1])
          BY <3>2, <1>1
        <4>2. f[i] = IF i = 0 THEN s ELSE handleDeeplink(f[i - 1], q[i])
          BY <2>1, <4>1 DEF Handled
        <4> HIDE DEF g
        <4> QED BY <4>1, <4>2
      <3> QED BY <3>1, <3>2
    <2>3. Handled(g, s, q, n)
      <3> HIDE DEF v
      <3>1. g = [i \in 0..n |-> g[i]]
        OBVIOUS
      <3> HIDE DEF g
      <3> QED BY <2>2, <3>1 DEF Handled
    <2> HIDE DEF g
    <2> QED BY <2>3
  <1>4. \A i \in 0..Len(q) : i \in T
    <2> HIDE DEF T
    <2> QED BY <1>1, <1>2, <1>3, UpTo
  <1> QED BY <1>1, <1>4

\* What holds after the first i of them.
Queued(s, q, i, n) ==
    /\ Kept(s, n) /\ n.sent = s.sent /\ OpenWins(n.rend) # {}
    /\ ToSet(n.pend) \subseteq ToSet(s.pend) \cup ToSet(q)

LEMMA QueuedStep ==
    ASSUME NEW s \in Shells, s.ready = {}, NEW q \in Seq(Links), NEW n, NEW i \in 1..Len(q), Queued(s, q, i - 1, n)
    PROVE  Queued(s, q, i, handleDeeplink(n, q[i]))
  <1> DEFINE l == q[i]
             m == handleDeeplink(n, l)
  <1>1. l \in Links /\ l \in ToSet(q)
    BY DEF ToSet
  <1>2. n \in Shells /\ n.ready = {} /\ OpenWins(n.rend) # {}
    BY DEF Queued, Kept
  <1>3. n.pend \in Seq(Links)
    BY <1>2 DEF Shells
  <1> HIDE DEF l
  <1>4. /\ Kept(n, m) /\ OpenWins(m.rend) # {} /\ m.sent = n.sent
        /\ m.pend = Append(n.pend, l) \/ m.pend = n.pend
    BY <1>1, <1>2, Delivered
  <1> HIDE DEF m
  <1>5. ToSet(m.pend) \subseteq ToSet(n.pend) \cup {l}
    <2>1. ToSet(Append(n.pend, l)) = ToSet(n.pend) \cup {l}
      BY <1>1, <1>3, ToSetAppend
    <2> QED BY <1>4, <2>1
  <1>6. Kept(s, m)
    BY <1>4 DEF Queued, Kept
  <1>7. Queued(s, q, i, m)
    BY <1>1, <1>4, <1>5, <1>6 DEF Queued
  <1> QED BY <1>7 DEF m, l

LEMMA QueuedAll ==
    ASSUME NEW s \in Shells, s.ready = {}, OpenWins(s.rend) # {}, NEW q \in Seq(Links)
    PROVE  LET F[i \in 0..Len(q)] == IF i = 0 THEN s ELSE handleDeeplink(F[i - 1], q[i])
           IN  Queued(s, q, Len(q), F[Len(q)])
  <1> DEFINE F == CHOOSE f : Handled(f, s, q, Len(q))
  <1>1. Len(q) \in Nat
    OBVIOUS
  <1>2. Handled(F, s, q, Len(q))
    BY HandledExists
  <1> HIDE DEF F
  <1>3. ASSUME NEW i \in 0..Len(q)
        PROVE  F[i] = IF i = 0 THEN s ELSE handleDeeplink(F[i - 1], q[i])
    <2> DEFINE g == [j \in 0..Len(q) |-> IF j = 0 THEN s ELSE handleDeeplink(F[j - 1], q[j])]
    <2>1. F = g
      BY <1>2 DEF Handled
    <2>2. g[i] = IF i = 0 THEN s ELSE handleDeeplink(F[i - 1], q[i])
      OBVIOUS
    <2>3. F[i] = g[i]
      <3> HIDE DEF g
      <3> QED BY <2>1
    <2> HIDE DEF g
    <2> QED BY <2>2, <2>3
  <1> DEFINE T == {i \in 0..Len(q) : Queued(s, q, i, F[i])}
  <1>4. 0 \in T
    <2>1. F[0] = s
      BY <1>1, <1>3
    <2>2. Queued(s, q, 0, s)
      BY DEF Queued, Kept
    <2> QED BY <1>1, <2>1, <2>2
  <1>5. ASSUME NEW i \in 1..Len(q), (i - 1) \in T PROVE i \in T
    <2>1. F[i] = handleDeeplink(F[i - 1], q[i])
      BY <1>1, <1>3
    <2>2. Queued(s, q, i - 1, F[i - 1])
      BY <1>5
    <2>3. Queued(s, q, i, F[i])
      BY <2>1, <2>2, QueuedStep
    <2> QED BY <1>1, <2>3
  <1>6. \A i \in 0..Len(q) : i \in T
    <2> HIDE DEF T
    <2> QED BY <1>1, <1>4, <1>5, UpTo
  <1>7. Queued(s, q, Len(q), F[Len(q)])
    BY <1>1, <1>6
  <1> QED BY <1>7 DEF F, Handled

-----------------------------------------------------------------------------
(* The steps.                                                             *)

LEMMA AppStarts ==
    ASSUME AppInit
    PROVE  AppInv
  <1>1. AppTypeOK
    <2>1. /\ appReady \in BOOLEAN /\ preReady \in Seq(Links) /\ pendingLinks \in Seq(Links)
          /\ readyIds \subseteq W /\ focusedWin \in W \cup {0}
      <3>1. <<>> \in Seq(Links)
        OBVIOUS
      <3> QED BY <3>1 DEF AppInit
    <2>2. /\ rend \in [W -> {"none", "loading", "up", "closed"}] /\ gift \in [W -> BOOLEAN]
          /\ sent \in [Links -> Nat] /\ got \in [W -> Nat]
      BY DEF AppInit
    <2>3. upd \in [at : {"none", "download", "extract", "apply"}, mixed : BOOLEAN]
      BY DEF AppInit
    <2>4. install \in [Parts -> {"old", "new", "gone"}]
      BY DEF AppInit
    <2> QED BY <2>1, <2>2, <2>3, <2>4 DEF AppTypeOK
  <1>2. Resting(Shell)
    <2>1. 1 \in W /\ rend[1] = "none"
      BY AppAssumption DEF AppInit, W
    <2> QED BY <2>1 DEF AppInit, Resting, Shell, OpenWins, HasRoom
  <1>3. WaitingUnsent(ToSet(preReady) \cup ToSet(pendingLinks), sent) /\ WaitingUntaken(rend, gift, got)
    BY DEF AppInit, WaitingUnsent, WaitingUntaken
  <1>4. Whole(install)
    BY DEF AppInit, Whole
  <1>5. ~appReady
    BY DEF AppInit
  <1> QED BY <1>1, <1>2, <1>3, <1>4, <1>5 DEF AppInv

\* What a step has to establish, with n the record of what it leaves.
LEMMA AppStep ==
    ASSUME NEW n \in Shells, SetShell(n),
           appReady' \in BOOLEAN, preReady' \in Seq(Links),
           IF appReady' THEN preReady' = <<>> ELSE Resting(n),
           WaitingUnsent(ToSet(preReady') \cup ToSet(n.pend), n.sent),
           WaitingUntaken(n.rend, n.gift, n.got),
           upd' \in [at : {"none", "download", "extract", "apply"}, mixed : BOOLEAN],
           install' \in [Parts -> {"old", "new", "gone"}], upd'.mixed \/ Whole(install')
    PROVE  AppInv'
  <1>1. /\ n.rend = rend' /\ n.ready = readyIds' /\ n.focus = focusedWin' /\ n.gift = gift'
        /\ n.pend = pendingLinks' /\ n.sent = sent' /\ n.got = got'
    BY DEF SetShell
  <1>2. /\ n.rend \in [W -> {"none", "loading", "up", "closed"}] /\ n.ready \subseteq W
        /\ n.focus \in W \cup {0} /\ n.gift \in [W -> BOOLEAN] /\ n.pend \in Seq(Links)
        /\ n.sent \in [Links -> Nat] /\ n.got \in [W -> Nat]
    BY DEF Shells
  <1>3. AppTypeOK'
    BY <1>1, <1>2 DEF AppTypeOK, W
  <1>4. (IF appReady THEN preReady = <<>> ELSE Resting(Shell))'
    <2>1. ~appReady' => n.ready = {} /\ OpenWins(n.rend) = {} /\ \E w \in W : n.rend[w] = "none"
      BY DEF Resting, HasRoom
    <2> QED BY <1>1, <2>1 DEF Resting, Shell, OpenWins, HasRoom, W
  <1>5. WaitingUntaken(rend, gift, got)'
    BY <1>1 DEF WaitingUntaken, W
  <1>6. WaitingUnsent(ToSet(preReady) \cup ToSet(pendingLinks), sent)'
    BY <1>1 DEF WaitingUnsent, ToSet
  <1>7. (upd.mixed \/ Whole(install))'
    BY DEF Whole
  <1> QED BY <1>3, <1>4, <1>5, <1>6, <1>7 DEF AppInv

\* The same for a step that leaves the updater alone.
LEMMA OperationKeeps ==
    ASSUME AppInv, NEW n \in Shells, SetShell(n), appReady', preReady' = <<>>, UNCHANGED <<upd, install>>,
           appReady' \in BOOLEAN,
           WaitingUnsent(ToSet(preReady') \cup ToSet(n.pend), n.sent),
           WaitingUntaken(n.rend, n.gift, n.got)
    PROVE  AppInv'
  <1>1. /\ upd' \in [at : {"none", "download", "extract", "apply"}, mixed : BOOLEAN]
        /\ install' \in [Parts -> {"old", "new", "gone"}] /\ (upd'.mixed \/ Whole(install'))
    BY DEF AppInv, AppTypeOK
  <1>2. preReady' \in Seq(Links)
    <2>1. <<>> \in Seq(Links)
      OBVIOUS
    <2> QED BY <2>1
  <1> QED BY <1>1, <1>2, AppStep

\* With a window, the application is ready.
LEMMA OpenIsReady ==
    ASSUME AppInv, OpenWins(rend) # {}
    PROVE  appReady = TRUE
  BY DEF AppInv, AppTypeOK, Resting, Shell

\* Inputs.
LEMMA TearOffKeeps ==
    ASSUME AppInv, handleTearOff
    PROVE  AppInv'
  <1> DEFINE n == createWindow(Shell, TRUE)
  <1>1. Shell \in Shells /\ HasRoom(Shell) /\ SetShell(n) /\ UNCHANGED <<appReady, preReady, upd, install>> /\ appReady
    BY ShellTyped DEF AppInv, handleTearOff
  <1>2. Kept(Shell, n)
    BY <1>1, CreatedKeeps
  <1>3. n.pend = pendingLinks /\ n.sent = sent
    <2>1. n.pend = Shell.pend /\ n.sent = Shell.sent
      BY <1>1, Created
    <2> QED BY <2>1 DEF Shell
  <1> HIDE DEF n
  <1>4. n \in Shells /\ WaitingUntaken(n.rend, n.gift, n.got)
    BY <1>2 DEF AppInv, Kept, Shell
  <1>5. WaitingUnsent(ToSet(preReady') \cup ToSet(n.pend), n.sent)
    BY <1>1, <1>3 DEF AppInv
  <1>6. preReady' = <<>> /\ appReady' \in BOOLEAN /\ appReady'
    BY <1>1 DEF AppInv, AppTypeOK
  <1> QED BY <1>1, <1>4, <1>5, <1>6, OperationKeeps

LEMMA CloseWindowKeeps ==
    ASSUME AppInv, NEW w \in W, CloseWindow(w)
    PROVE  AppInv'
  <1> DEFINE r == [rend EXCEPT ![w] = "closed"]
             g == [gift EXCEPT ![w] = FALSE]
             f == IF focusedWin = w THEN 0 ELSE focusedWin
             n == [Shell EXCEPT !.rend = r, !.gift = g, !.ready = readyIds \ {w}, !.focus = f]
  <1>1. /\ SetShell(n) /\ UNCHANGED <<appReady, preReady, upd, install>> /\ appReady
    BY OpenIsReady DEF CloseWindow, Shell
  <1>2. /\ r \in [W -> {"none", "loading", "up", "closed"}] /\ g \in [W -> BOOLEAN] /\ f \in W \cup {0}
        /\ WaitingUntaken(r, g, got)
    BY DEF AppInv, AppTypeOK, WaitingUntaken
  <1> HIDE DEF r, g, f
  <1>3. /\ n \in Shells /\ n.rend = r /\ n.gift = g /\ n.got = got /\ n.pend = pendingLinks /\ n.sent = sent
    BY <1>2 DEF AppInv, AppTypeOK, Shells, Shell
  <1> HIDE DEF n
  <1>4. WaitingUnsent(ToSet(preReady') \cup ToSet(n.pend), n.sent)
    BY <1>1, <1>3 DEF AppInv
  <1>5. preReady' = <<>> /\ appReady' \in BOOLEAN /\ appReady'
    BY <1>1 DEF AppInv, AppTypeOK
  <1>6. WaitingUntaken(n.rend, n.gift, n.got)
    BY <1>2, <1>3
  <1> QED BY <1>1, <1>3, <1>4, <1>5, <1>6, OperationKeeps

LEMMA ReloadWindowKeeps ==
    ASSUME AppInv, NEW w \in W, ReloadWindow(w)
    PROVE  AppInv'
  <1>1. rend[w] = "up" /\ rend' = [rend EXCEPT ![w] = "loading"]
        /\ UNCHANGED <<appReady, preReady, pendingLinks, readyIds, focusedWin, gift, sent, got, upd, install>>
    BY DEF ReloadWindow
  <1>2. OpenWins(rend) # {}
    BY <1>1 DEF OpenWins
  <1>3. appReady
    BY <1>2, OpenIsReady
  <1>4. AppTypeOK'
    BY <1>1 DEF AppInv, AppTypeOK, W
  <1>5. WaitingUntaken(rend, gift, got)'
    BY <1>1 DEF AppInv, AppTypeOK, WaitingUntaken, W
  <1>6. WaitingUnsent(ToSet(preReady) \cup ToSet(pendingLinks), sent)' /\ (upd.mixed \/ Whole(install))'
    BY <1>1 DEF AppInv, WaitingUnsent, ToSet, Whole
  <1> QED BY <1>1, <1>3, <1>4, <1>5, <1>6 DEF AppInv

LEMMA FocusWindowKeeps ==
    ASSUME AppInv, NEW w \in W \cup {0}, FocusWindow(w)
    PROVE  AppInv'
  <1>1. focusedWin' = w
        /\ UNCHANGED <<appReady, preReady, pendingLinks, rend, readyIds, gift, sent, got, upd, install>>
    BY DEF FocusWindow
  <1>2. AppTypeOK'
    BY <1>1 DEF AppInv, AppTypeOK, W
  <1>3. (IF appReady THEN preReady = <<>> ELSE Resting(Shell))'
    BY <1>1 DEF AppInv, Resting, Shell, OpenWins, HasRoom, W
  <1>4. WaitingUntaken(rend, gift, got)'
    BY <1>1 DEF AppInv, WaitingUntaken, W
  <1>5. WaitingUnsent(ToSet(preReady) \cup ToSet(pendingLinks), sent)' /\ (upd.mixed \/ Whole(install))'
    BY <1>1 DEF AppInv, WaitingUnsent, ToSet, Whole
  <1> QED BY <1>2, <1>3, <1>4, <1>5 DEF AppInv

LEMMA OpenLinkKeeps ==
    ASSUME AppInv, NEW l \in Links, OpenLink(l)
    PROVE  AppInv'
  <1>1. l \notin ToSet(preReady) \cup ToSet(pendingLinks) /\ sent[l] = 0
    <2>1. l \notin Known
      BY DEF OpenLink
    <2>2. sent[l] \in Nat
      BY DEF AppInv, AppTypeOK
    <2> QED BY <2>1, <2>2 DEF Known
  <1>2. Shell \in Shells
    BY ShellTyped DEF AppInv
  <1>3. CASE appReady
    <2> DEFINE n == handleDeeplink(Shell, l)
    <2>1. /\ OpenWins(rend) # {} \/ HasRoom(Shell)
          /\ SetShell(n) /\ UNCHANGED <<appReady, preReady, upd, install>>
      BY <1>3 DEF OpenLink
    <2>2. OpenWins(Shell.rend) # {} \/ HasRoom(Shell)
      BY <2>1 DEF Shell
    <2>3. /\ Kept(Shell, n)
          /\ \/ n.sent = Shell.sent /\ n.pend = Append(Shell.pend, l)
             \/ n.sent = [Shell.sent EXCEPT ![l] = @ + 1] /\ n.pend = Shell.pend
      BY <1>2, <2>2, Delivered
    <2> HIDE DEF n
    <2>4. n \in Shells /\ WaitingUntaken(n.rend, n.gift, n.got)
      BY <2>3 DEF AppInv, Kept, Shell
    <2>5. WaitingUnsent(ToSet(preReady) \cup ToSet(n.pend), n.sent)
      <3>1. CASE n.sent = sent /\ n.pend = Append(pendingLinks, l)
        <4>1. pendingLinks \in Seq(Links)
          BY DEF AppInv, AppTypeOK
        <4>2. ToSet(n.pend) = ToSet(pendingLinks) \cup {l}
          BY <3>1, <4>1, ToSetAppend
        <4> QED BY <1>1, <3>1, <4>2 DEF AppInv, WaitingUnsent
      <3>2. CASE n.sent = [sent EXCEPT ![l] = @ + 1] /\ n.pend = pendingLinks
        <4>1. sent \in [Links -> Nat]
          BY DEF AppInv, AppTypeOK
        <4>2. WaitingUnsent(ToSet(preReady) \cup ToSet(pendingLinks), sent)
          BY DEF AppInv
        <4> QED BY <1>1, <3>2, <4>1, <4>2 DEF WaitingUnsent
      <3> QED BY <2>3, <3>1, <3>2 DEF Shell
    <2>6. preReady' = <<>> /\ appReady' \in BOOLEAN /\ appReady'
      BY <1>3, <2>1 DEF AppInv, AppTypeOK
    <2>7. WaitingUnsent(ToSet(preReady') \cup ToSet(n.pend), n.sent)
      BY <2>1, <2>5
    <2> QED BY <2>1, <2>4, <2>6, <2>7, OperationKeeps
  <1>4. CASE ~appReady
    <2> DEFINE n == Shell
    <2>1. preReady' = Append(preReady, l) /\ SetShell(Shell) /\ UNCHANGED <<appReady, upd, install>>
      BY <1>4 DEF OpenLink
    <2>2. preReady \in Seq(Links)
      BY DEF AppInv, AppTypeOK
    <2>3. preReady' \in Seq(Links) /\ ToSet(preReady') = ToSet(preReady) \cup {l}
      BY <2>1, <2>2, ToSetAppend
    <2>4. WaitingUnsent(ToSet(preReady') \cup ToSet(pendingLinks), sent)
      BY <1>1, <2>3 DEF AppInv, WaitingUnsent
    <2>5. /\ Shell.pend = pendingLinks /\ Shell.sent = sent
          /\ WaitingUntaken(Shell.rend, Shell.gift, Shell.got)
          /\ IF appReady' THEN preReady' = <<>> ELSE Resting(Shell)
      <3>1. ~appReady' /\ Resting(Shell)
        BY <1>4, <2>1 DEF AppInv
      <3> QED BY <3>1 DEF AppInv, Shell
    <2>6. /\ upd' \in [at : {"none", "download", "extract", "apply"}, mixed : BOOLEAN] /\ appReady' \in BOOLEAN
          /\ install' \in [Parts -> {"old", "new", "gone"}] /\ (upd'.mixed \/ Whole(install'))
      BY <2>1 DEF AppInv, AppTypeOK
    <2> HIDE DEF n
    <2> QED BY <1>2, <2>1, <2>3, <2>4, <2>5, <2>6, AppStep
  <1> QED BY <1>3, <1>4

\* Progress.
LEMMA WhenReadyKeeps ==
    ASSUME AppInv, WhenReady
    PROVE  AppInv'
  <1> DEFINE s == createWindow(Shell, FALSE)
             F[i \in 0..Len(preReady)] == IF i = 0 THEN s ELSE handleDeeplink(F[i - 1], preReady[i])
             n == F[Len(preReady)]
  <1>1. ~appReady /\ appReady' = TRUE /\ preReady' = <<>> /\ SetShell(n) /\ UNCHANGED <<upd, install>>
    BY DEF WhenReady
  <1>2. Shell \in Shells /\ Resting(Shell) /\ preReady \in Seq(Links)
    BY <1>1, ShellTyped DEF AppInv, AppTypeOK
  <1>3. Kept(Shell, s)
    BY <1>2, CreatedKeeps DEF Resting
  <1>4. OpenWins(s.rend) # {} /\ s.ready = {} /\ s.pend = pendingLinks /\ s.sent = sent
    <2>1. /\ NewWin(Shell) \in OpenWins(s.rend) /\ s.ready = Shell.ready
          /\ s.pend = Shell.pend /\ s.sent = Shell.sent
      BY <1>2, Created DEF Resting
    <2> QED BY <1>2, <2>1 DEF Resting, Shell
  <1>5. Queued(s, preReady, Len(preReady), n)
    <2>1. s \in Shells
      BY <1>3 DEF Kept
    <2> HIDE DEF s
    <2> QED BY <1>2, <1>4, <2>1, QueuedAll
  <1> HIDE DEF n, F, s
  <1>6. n \in Shells /\ WaitingUntaken(n.rend, n.gift, n.got)
    BY <1>3, <1>5 DEF AppInv, Queued, Kept, Shell
  <1>7. WaitingUnsent(ToSet(preReady') \cup ToSet(n.pend), n.sent)
    <2>1. n.sent = sent /\ ToSet(n.pend) \subseteq ToSet(preReady) \cup ToSet(pendingLinks)
      BY <1>4, <1>5 DEF Queued
    <2>2. ToSet(preReady') = {}
      BY <1>1, ToSetEmpty
    <2> QED BY <2>1, <2>2 DEF AppInv, WaitingUnsent
  <1> QED BY <1>1, <1>6, <1>7, OperationKeeps

LEMMA RendererReadyKeeps ==
    ASSUME AppInv, NEW w \in W, RendererReady(w)
    PROVE  AppInv'
  <1> DEFINE r == [rend EXCEPT ![w] = "up"]
             g == [gift EXCEPT ![w] = FALSE]
             h == [got EXCEPT ![w] = IF gift[w] THEN @ + 1 ELSE @]
             m == [l \in Links |-> IF l \in ToSet(pendingLinks) THEN sent[l] + 1 ELSE sent[l]]
             n == [Shell EXCEPT !.rend = r, !.ready = readyIds \cup {w}, !.got = h, !.gift = g,
                                !.sent = m, !.pend = <<>>]
  <1>1. rend[w] = "loading" /\ SetShell(n) /\ UNCHANGED <<appReady, preReady, upd, install>>
    BY DEF RendererReady, spaReady, Shell
  <1>2. appReady
    <2>1. OpenWins(rend) # {}
      BY <1>1 DEF OpenWins
    <2> QED BY <2>1, OpenIsReady
  <1>3. r \in [W -> {"none", "loading", "up", "closed"}] /\ g \in [W -> BOOLEAN] /\ h \in [W -> Nat]
        /\ WaitingUntaken(r, g, h)
    BY <1>1 DEF AppInv, AppTypeOK, WaitingUntaken
  <1>4. m \in [Links -> Nat] /\ WaitingUnsent({}, m)
    <2>1. sent \in [Links -> Nat]
      BY DEF AppInv, AppTypeOK
    <2>2. WaitingUnsent(ToSet(preReady) \cup ToSet(pendingLinks), sent)
      BY DEF AppInv
    <2> QED BY <2>1, <2>2 DEF WaitingUnsent
  <1>5. <<>> \in Seq(Links)
    OBVIOUS
  <1> HIDE DEF r, g, h, m
  <1>6. n \in Shells /\ n.rend = r /\ n.gift = g /\ n.got = h /\ n.pend = <<>> /\ n.sent = m
    BY <1>3, <1>4, <1>5 DEF AppInv, AppTypeOK, Shells, Shell
  <1> HIDE DEF n
  <1>9. preReady' = <<>> /\ appReady' \in BOOLEAN /\ appReady'
    BY <1>1, <1>2 DEF AppInv, AppTypeOK
  <1>7. WaitingUnsent(ToSet(preReady') \cup ToSet(n.pend), n.sent)
    BY <1>4, <1>6, <1>9, ToSetEmpty DEF WaitingUnsent
  <1>8. WaitingUntaken(n.rend, n.gift, n.got)
    BY <1>3, <1>6
  <1> QED BY <1>1, <1>6, <1>7, <1>8, <1>9, OperationKeeps

LEMMA SwappedKeeps ==
    ASSUME AppInv, Swapped
    PROVE  AppInv'
  <1> DEFINE r == [w \in W |-> IF rend[w] = "none" THEN "none" ELSE "closed"]
             g == [w \in W |-> FALSE]
             n == [Shell EXCEPT !.rend = r, !.ready = {}, !.focus = 0, !.pend = <<>>, !.gift = g]
  <1>1. /\ install' = [d \in Parts |-> "new"] /\ upd' = [upd EXCEPT !.at = "none", !.mixed = FALSE]
        /\ appReady' = FALSE /\ preReady' = <<>> /\ SetShell(n) /\ HasRoom(Shell)
    BY DEF Swapped, Shell
  <1>2. <<>> \in Seq(Links)
    OBVIOUS
  <1>3. r \in [W -> {"none", "loading", "up", "closed"}] /\ g \in [W -> BOOLEAN] /\ WaitingUntaken(r, g, got)
        /\ OpenWins(r) = {} /\ \E w \in W : r[w] = "none"
    BY <1>1 DEF AppInv, AppTypeOK, WaitingUntaken, OpenWins, HasRoom, Shell
  <1> HIDE DEF r, g
  <1>4. n \in Shells /\ n.rend = r /\ n.ready = {} /\ n.gift = g /\ n.got = got /\ n.pend = <<>> /\ n.sent = sent
    BY <1>2, <1>3 DEF AppInv, AppTypeOK, Shells, Shell
  <1> HIDE DEF n
  <1>5. Resting(n) /\ WaitingUntaken(n.rend, n.gift, n.got)
    BY <1>3, <1>4 DEF Resting, HasRoom
  <1>6. WaitingUnsent(ToSet(preReady') \cup ToSet(n.pend), n.sent)
    BY <1>1, <1>4, ToSetEmpty DEF AppInv, WaitingUnsent
  <1>7. upd' \in [at : {"none", "download", "extract", "apply"}, mixed : BOOLEAN]
    BY <1>1 DEF AppInv, AppTypeOK
  <1>8. install' \in [Parts -> {"old", "new", "gone"}] /\ Whole(install')
    BY <1>1 DEF Whole
  <1> QED BY <1>1, <1>2, <1>4, <1>5, <1>6, <1>7, <1>8, AppStep

\* The updater alone moves.
LEMMA UpdaterKeeps ==
    ASSUME AppInv,
           UNCHANGED <<appReady, preReady, pendingLinks, rend, readyIds, focusedWin, gift, sent, got>>,
           upd' \in [at : {"none", "download", "extract", "apply"}, mixed : BOOLEAN],
           install' \in [Parts -> {"old", "new", "gone"}], upd'.mixed \/ Whole(install')
    PROVE  AppInv'
  <1>1. Shell \in Shells /\ SetShell(Shell)
    BY ShellTyped DEF AppInv, SetShell, Shell
  <1>2. /\ appReady' \in BOOLEAN /\ preReady' \in Seq(Links)
        /\ IF appReady' THEN preReady' = <<>> ELSE Resting(Shell)
        /\ WaitingUnsent(ToSet(preReady') \cup ToSet(Shell.pend), Shell.sent)
        /\ WaitingUntaken(Shell.rend, Shell.gift, Shell.got)
    BY DEF AppInv, AppTypeOK, Shell
  <1> QED BY <1>1, <1>2, AppStep

\* Whatever directories could not be put back, the application is whole when
\* all were.
LEMMA UpdateSteps ==
    ASSUME AppInv,
           \/ ApplyUpdate \/ \E ok \in BOOLEAN : Downloaded(ok)
           \/ \E done, stuck \in SUBSET Parts, failed \in Parts : SwapFails(done, failed, stuck)
    PROVE  AppInv'
  <1>1. /\ upd \in [at : {"none", "download", "extract", "apply"}, mixed : BOOLEAN]
        /\ install \in [Parts -> {"old", "new", "gone"}] /\ (upd.mixed \/ Whole(install))
    BY DEF AppInv, AppTypeOK
  <1>2. CASE ApplyUpdate
    <2>1. upd' = [upd EXCEPT !.at = "download"] /\ install' = install
          /\ UNCHANGED <<appReady, preReady, pendingLinks, rend, readyIds, focusedWin, gift, sent, got>>
      BY <1>2 DEF ApplyUpdate
    <2>2. upd' \in [at : {"none", "download", "extract", "apply"}, mixed : BOOLEAN] /\ upd'.mixed = upd.mixed
      BY <1>1, <2>1
    <2> QED BY <1>1, <2>1, <2>2, UpdaterKeeps
  <1>3. ASSUME NEW ok \in BOOLEAN, Downloaded(ok) PROVE AppInv'
    <2> DEFINE a == IF ~ok THEN "none" ELSE IF upd.at = "download" THEN "extract" ELSE "apply"
    <2>1. upd' = [upd EXCEPT !.at = a] /\ install' = install
          /\ UNCHANGED <<appReady, preReady, pendingLinks, rend, readyIds, focusedWin, gift, sent, got>>
      BY <1>3 DEF Downloaded
    <2>2. a \in {"none", "download", "extract", "apply"}
      OBVIOUS
    <2> HIDE DEF a
    <2>3. upd' \in [at : {"none", "download", "extract", "apply"}, mixed : BOOLEAN] /\ upd'.mixed = upd.mixed
      BY <1>1, <2>1, <2>2
    <2> QED BY <1>1, <2>1, <2>3, UpdaterKeeps
  <1>4. ASSUME NEW done \in SUBSET Parts, NEW stuck \in SUBSET Parts, NEW failed \in Parts,
               SwapFails(done, failed, stuck)
        PROVE AppInv'
    <2> DEFINE b == upd.mixed \/ stuck # {}
    <2>1. /\ upd' = [upd EXCEPT !.at = "none", !.mixed = b] /\ install' = rollback(done, failed, stuck)
          /\ UNCHANGED <<appReady, preReady, pendingLinks, rend, readyIds, focusedWin, gift, sent, got>>
      BY <1>4 DEF SwapFails
    <2>2. install' \in [Parts -> {"old", "new", "gone"}] /\ (stuck = {} => install' = install)
      BY <1>1, <2>1 DEF rollback
    <2>3. b \in BOOLEAN /\ (~b => ~upd.mixed /\ stuck = {})
      BY <1>1
    <2> HIDE DEF b
    <2>4. upd' \in [at : {"none", "download", "extract", "apply"}, mixed : BOOLEAN] /\ upd'.mixed = b
      BY <1>1, <2>1, <2>3
    <2> QED BY <1>1, <2>1, <2>2, <2>3, <2>4, UpdaterKeeps
  <1> QED BY <1>2, <1>3, <1>4

LEMMA AppKeepsInv ==
    ASSUME AppInv, [AppInput \/ AppProgress]_appVars
    PROVE  AppInv'
  <1>1. CASE AppInput
    BY <1>1, TearOffKeeps, CloseWindowKeeps, ReloadWindowKeeps, FocusWindowKeeps, OpenLinkKeeps, UpdateSteps DEF AppInput
  <1>2. CASE AppProgress
    BY <1>2, WhenReadyKeeps, SwappedKeeps, RendererReadyKeeps, UpdateSteps DEF AppProgress
  <1>3. CASE UNCHANGED appVars
    <2>1. UNCHANGED <<appReady, preReady, pendingLinks, rend, readyIds, focusedWin, gift, sent, got, upd, install>>
      BY <1>3 DEF appVars
    <2> QED BY <2>1, UpdaterKeeps DEF AppInv, AppTypeOK
  <1> QED BY <1>1, <1>2, <1>3

\* Deep links and what is torn off arrive once, however windows load, reload,
\* close and are focused, and however the application restarts
\* (electron/main.ts, window-manager.ts).
THEOREM DeliveredOnceAlways == AppSpec => []DeliveredOnce
  <1>1. AppInv => DeliveredOnce
    BY DEF AppInv, WaitingUnsent, WaitingUntaken, DeliveredOnce
  <1> QED BY <1>1, AppStarts, AppKeepsInv, PTL DEF AppSpec

\* An update that fails at any directory leaves one version installed, unless
\* a directory could not be put back (electron/updater.ts).
THEOREM InstallAlwaysWhole == AppSpec => []InstallWhole
  <1>1. AppInv => InstallWhole
    BY DEF AppInv, Whole, InstallWhole
  <1> QED BY <1>1, AppStarts, AppKeepsInv, PTL DEF AppSpec

-----------------------------------------------------------------------------
(* BrowserViews.  The manager's record is sound: a view is at the page its *)
(* pane was left at, a pane without a view has that page in its snapshot, *)
(* every view has its place in the order, and only background views have  *)
(* an idle timer.                                                         *)

ViewStates == [at : {"none", "active", "background"}, url : Pages \cup {NoPage}]

Mgrs ==
    [views : [AllPanes -> ViewStates], viewOrder : Seq(AllPanes), timers : SUBSET AllPanes,
     saved : [AllPanes -> Pages \cup {NoPage}], page : [AllPanes -> Pages \cup {NoPage}]]

ViewKept(m, p) ==
    IF m.views[p].at = "none" THEN m.page[p] = m.saved[p]
    ELSE m.views[p].url = m.page[p] /\ m.saved[p] = NoPage /\ p \in ToSet(m.viewOrder)

MgrSound(m) ==
    /\ m \in Mgrs /\ m.timers \subseteq Background(m.views)
    /\ \A p \in AllPanes : ViewKept(m, p)

Bounded(m) == Cardinality(Background(m.views)) <= MaxBackground

\* A shown view stays shown, but for the pane p.
Spares(m, n, p) == \A q \in AllPanes \ {p} : m.views[q].at = "active" => n.views[q].at = "active"

\* Taking a pane out of the order, and putting it last.
LEMMA DropSet ==
    ASSUME NEW m \in Mgrs, NEW p \in AllPanes
    PROVE  /\ Drop(m.viewOrder, p) \in Seq(AllPanes) /\ ToSet(Drop(m.viewOrder, p)) = ToSet(m.viewOrder) \ {p}
           /\ Append(Drop(m.viewOrder, p), p) \in Seq(AllPanes)
           /\ ToSet(Append(Drop(m.viewOrder, p), p)) = ToSet(m.viewOrder) \cup {p}
  <1>1. m.viewOrder \in Seq(AllPanes)
    BY DEF Mgrs
  <1>2. Drop(m.viewOrder, p) \in Seq(AllPanes) /\ ToSet(Drop(m.viewOrder, p)) = ToSet(m.viewOrder) \ {p}
    BY <1>1, WithoutSet DEF Drop
  <1>3. /\ Append(Drop(m.viewOrder, p), p) \in Seq(AllPanes)
        /\ ToSet(Append(Drop(m.viewOrder, p), p)) = ToSet(Drop(m.viewOrder, p)) \cup {p}
    BY <1>2, ToSetAppend
  <1> QED BY <1>2, <1>3

\* The parts of a record of the manager, for the steps that change one pane.
LEMMA MgrParts ==
    ASSUME NEW m, MgrSound(m)
    PROVE  /\ m = [views |-> m.views, viewOrder |-> m.viewOrder, timers |-> m.timers, saved |-> m.saved, page |-> m.page]
           /\ m.views \in [AllPanes -> ViewStates] /\ m.viewOrder \in Seq(AllPanes) /\ m.timers \subseteq Background(m.views)
           /\ m.saved \in [AllPanes -> Pages \cup {NoPage}] /\ m.page \in [AllPanes -> Pages \cup {NoPage}]
           /\ \A q \in AllPanes : m.views[q].at \in {"none", "active", "background"}
  BY DEF MgrSound, Mgrs, ViewStates

\* n is m with the pane p's view v, snapshot s and page u, the order o and
\* the timers T.
Changed(m, n, p, v, o, T, s, u) ==
    /\ v \in ViewStates /\ o \in Seq(AllPanes) /\ s \in Pages \cup {NoPage} /\ u \in Pages \cup {NoPage}
    /\ T \subseteq m.timers \cup {p} /\ (p \in T => v.at = "background")
    /\ ToSet(m.viewOrder) \ {p} \subseteq ToSet(o) /\ (v.at # "none" => p \in ToSet(o))
    /\ (v.at = "none" => u = s) /\ (v.at # "none" => v.url = u /\ s = NoPage)
    /\ n = [views |-> [m.views EXCEPT ![p] = v], viewOrder |-> o, timers |-> T,
            saved |-> [m.saved EXCEPT ![p] = s], page |-> [m.page EXCEPT ![p] = u]]

LEMMA MgrBuild ==
    ASSUME NEW m, MgrSound(m), NEW p \in AllPanes, NEW n, NEW v, NEW o, NEW T, NEW s, NEW u,
           Changed(m, n, p, v, o, T, s, u)
    PROVE  MgrSound(n) /\ Spares(m, n, p) /\ n.views = [m.views EXCEPT ![p] = v]
  <1>1. /\ m.views \in [AllPanes -> ViewStates] /\ m.viewOrder \in Seq(AllPanes) /\ m.timers \subseteq Background(m.views)
        /\ m.saved \in [AllPanes -> Pages \cup {NoPage}] /\ m.page \in [AllPanes -> Pages \cup {NoPage}]
    BY MgrParts
  <1>0. /\ v \in ViewStates /\ o \in Seq(AllPanes) /\ s \in Pages \cup {NoPage} /\ u \in Pages \cup {NoPage}
        /\ T \subseteq m.timers \cup {p} /\ (p \in T => v.at = "background")
        /\ ToSet(m.viewOrder) \ {p} \subseteq ToSet(o) /\ (v.at # "none" => p \in ToSet(o))
        /\ (v.at = "none" => u = s) /\ (v.at # "none" => v.url = u /\ s = NoPage)
    BY DEF Changed
  <1>2. /\ n.views = [m.views EXCEPT ![p] = v] /\ n.viewOrder = o /\ n.timers = T
        /\ n.saved = [m.saved EXCEPT ![p] = s] /\ n.page = [m.page EXCEPT ![p] = u]
    BY DEF Changed
  <1>3. T \subseteq AllPanes
    BY <1>0, <1>1 DEF Background
  <1>4. n \in Mgrs
    <2> DEFINE vs == [m.views EXCEPT ![p] = v]
               ss == [m.saved EXCEPT ![p] = s]
               us == [m.page EXCEPT ![p] = u]
    <2>1. vs \in [AllPanes -> ViewStates]
      BY <1>0, <1>1
    <2>2. ss \in [AllPanes -> Pages \cup {NoPage}] /\ us \in [AllPanes -> Pages \cup {NoPage}]
      BY <1>0, <1>1
    <2>3. n = [views |-> vs, viewOrder |-> o, timers |-> T, saved |-> ss, page |-> us]
      BY DEF Changed
    <2> HIDE DEF vs, ss, us
    <2>4. ASSUME NEW a \in [AllPanes -> ViewStates], NEW b \in [AllPanes -> Pages \cup {NoPage}],
                 NEW c \in [AllPanes -> Pages \cup {NoPage}]
          PROVE  [views |-> a, viewOrder |-> o, timers |-> T, saved |-> b, page |-> c] \in Mgrs
      BY <1>0, <1>3 DEF Mgrs
    <2> QED BY <2>1, <2>2, <2>3, <2>4
  <1>5. n.timers \subseteq Background(n.views)
    BY <1>0, <1>1, <1>2 DEF Background
  <1>6. ASSUME NEW q \in AllPanes PROVE ViewKept(n, q)
    <2>1. CASE q = p
      BY <1>0, <1>1, <1>2, <2>1 DEF ViewKept
    <2>2. CASE q # p
      <3>1. ViewKept(m, q)
        BY DEF MgrSound
      <3>2. n.views[q] = m.views[q] /\ n.page[q] = m.page[q] /\ n.saved[q] = m.saved[q]
        BY <1>1, <1>2, <2>2
      <3> QED BY <1>0, <1>2, <2>2, <3>1, <3>2 DEF ViewKept
    <2> QED BY <2>1, <2>2
  <1>7. Spares(m, n, p)
    BY <1>1, <1>2 DEF Spares
  <1> QED BY <1>2, <1>4, <1>5, <1>6, <1>7 DEF MgrSound

\* Showing a view.
LEMMA ActivateSound ==
    ASSUME NEW m, MgrSound(m), NEW p \in AllPanes, m.views[p].at # "none"
    PROVE  LET n == activate(m, p)
           IN  MgrSound(n) /\ Spares(m, n, p) /\ n.views[p].at = "active"
                 /\ \A q \in AllPanes \ {p} : n.views[q] = m.views[q]
  <1> DEFINE o == Append(Drop(m.viewOrder, p), p)
             v == [at |-> "active", url |-> m.views[p].url]
             n == activate(m, p)
  <1>1. m \in Mgrs /\ ViewKept(m, p)
    BY DEF MgrSound
  <1>2. o \in Seq(AllPanes) /\ ToSet(o) = ToSet(m.viewOrder) \cup {p}
    BY <1>1, DropSet
  <1> HIDE DEF o
  <1>3. /\ m = [views |-> m.views, viewOrder |-> m.viewOrder, timers |-> m.timers, saved |-> m.saved, page |-> m.page]
        /\ m.views \in [AllPanes -> ViewStates] /\ m.timers \subseteq AllPanes
        /\ m.saved \in [AllPanes -> Pages \cup {NoPage}] /\ m.page \in [AllPanes -> Pages \cup {NoPage}]
    BY <1>1, MgrParts DEF Mgrs
  <1>4. v \in ViewStates /\ [m.views EXCEPT ![p].at = "active"] = [m.views EXCEPT ![p] = v]
    BY <1>3 DEF ViewStates
  <1> HIDE DEF v
  <1>5. [m.saved EXCEPT ![p] = m.saved[p]] = m.saved /\ [m.page EXCEPT ![p] = m.page[p]] = m.page
    BY <1>3
  <1>6. n = [views |-> [m.views EXCEPT ![p] = v], viewOrder |-> o, timers |-> m.timers \ {p},
             saved |-> [m.saved EXCEPT ![p] = m.saved[p]], page |-> [m.page EXCEPT ![p] = m.page[p]]]
    <2> DEFINE vs == [m.views EXCEPT ![p].at = "active"]
               tt == m.timers \ {p}
    <2>1. n = [m EXCEPT !.views = vs, !.viewOrder = o, !.timers = tt]
      BY DEF activate, o
    <2>2. vs = [m.views EXCEPT ![p] = v]
      BY <1>4
    <2> HIDE DEF vs, tt, n
    <2>3. n = [views |-> vs, viewOrder |-> o, timers |-> tt, saved |-> m.saved, page |-> m.page]
      BY <1>1, <2>1 DEF Mgrs
    <2> QED BY <1>5, <2>2, <2>3 DEF tt
  <1> HIDE DEF n
  <1>7. m.saved[p] \in Pages \cup {NoPage} /\ m.page[p] \in Pages \cup {NoPage}
    BY <1>3
  <1>8. v.at = "active" /\ v.url = m.page[p] /\ m.saved[p] = NoPage
    BY <1>1 DEF v, ViewKept
  <1>9. Changed(m, n, p, v, o, m.timers \ {p}, m.saved[p], m.page[p])
    BY <1>2, <1>4, <1>6, <1>7, <1>8 DEF Changed
  <1>10. MgrSound(n) /\ Spares(m, n, p) /\ n.views = [m.views EXCEPT ![p] = v]
    BY <1>9, MgrBuild
  <1>11. n.views[p] = v /\ \A q \in AllPanes \ {p} : n.views[q] = m.views[q]
    BY <1>3, <1>10
  <1> QED BY <1>8, <1>10, <1>11 DEF n

\* A view that is made shows the page its pane was left at, else its address.
LEMMA OpenSound ==
    ASSUME NEW m, MgrSound(m), NEW p \in AllPanes, NEW u \in Pages
    PROVE  LET n == open(m, p, u)
           IN  MgrSound(n) /\ Spares(m, n, p) /\ n.views[p].at = "active"
                 /\ \A q \in AllPanes \ {p} : n.views[q] = m.views[q]
  <1>1. CASE m.views[p].at # "none"
    <2>1. open(m, p, u) = activate(m, p)
      BY <1>1 DEF open
    <2> QED BY <1>1, <2>1, ActivateSound
  <1>2. CASE m.views[p].at = "none"
    <2> DEFINE start == IF m.saved[p] # NoPage THEN m.saved[p] ELSE u
               v == [at |-> "active", url |-> start]
               o == Append(Drop(m.viewOrder, p), p)
               pg == IF m.page[p] = NoPage THEN u ELSE m.page[p]
               n == open(m, p, u)
               vs == [m.views EXCEPT ![p] = v]
               ss == [m.saved EXCEPT ![p] = NoPage]
               us == [m.page EXCEPT ![p] = pg]
               tt == m.timers \ {p}
    <2>1. m \in Mgrs /\ ViewKept(m, p)
      BY DEF MgrSound
    <2>2. o \in Seq(AllPanes) /\ ToSet(o) = ToSet(m.viewOrder) \cup {p}
      BY <2>1, DropSet
    <2>3. m.saved[p] \in Pages \cup {NoPage} /\ m.page[p] \in Pages \cup {NoPage} /\ m.views \in [AllPanes -> ViewStates]
      BY <2>1 DEF Mgrs
    <2>4. v \in ViewStates /\ v.at = "active" /\ v.url = start /\ start = pg /\ pg \in Pages \cup {NoPage}
      BY <1>2, <2>1, <2>3 DEF ViewKept, ViewStates
    <2>5. n = [m EXCEPT !.views = vs, !.viewOrder = o, !.saved = ss, !.timers = tt, !.page = us]
      BY <1>2 DEF open
    <2> HIDE DEF o, v, start, pg, n
    <2>6. n = [views |-> vs, viewOrder |-> o, timers |-> tt, saved |-> ss, page |-> us]
      <3> HIDE DEF vs, ss, us, tt
      <3> QED BY <2>1, <2>5 DEF Mgrs
    <2>7. Changed(m, n, p, v, o, m.timers \ {p}, NoPage, pg)
      BY <2>2, <2>3, <2>4, <2>6 DEF Changed
    <2>8. MgrSound(n) /\ Spares(m, n, p) /\ n.views = [m.views EXCEPT ![p] = v]
      BY <2>7, MgrBuild
    <2>9. n.views[p] = v /\ \A q \in AllPanes \ {p} : n.views[q] = m.views[q]
      BY <2>3, <2>8
    <2> QED BY <2>4, <2>8, <2>9 DEF n
  <1> QED BY <1>1, <1>2

\* A view that is discarded leaves its page in a snapshot.
LEMMA DiscardSound ==
    ASSUME NEW m, MgrSound(m), NEW p \in AllPanes, m.views[p].at # "none"
    PROVE  LET n == discard(m, p)
           IN  MgrSound(n) /\ Spares(m, n, p) /\ n.views = [m.views EXCEPT ![p] = NoView]
  <1> DEFINE o == Drop(m.viewOrder, p)
             s == m.views[p].url
             n == discard(m, p)
             vs == [m.views EXCEPT ![p] = NoView]
             ss == [m.saved EXCEPT ![p] = s]
             tt == m.timers \ {p}
  <1>1. m \in Mgrs /\ ViewKept(m, p)
    BY DEF MgrSound
  <1>2. o \in Seq(AllPanes) /\ ToSet(o) = ToSet(m.viewOrder) \ {p}
    BY <1>1, DropSet
  <1>3. m.page \in [AllPanes -> Pages \cup {NoPage}] /\ m.views \in [AllPanes -> ViewStates]
    BY <1>1 DEF Mgrs
  <1>4. NoView \in ViewStates /\ NoView.at = "none"
    BY DEF NoView, ViewStates
  <1>5. s \in Pages \cup {NoPage} /\ s = m.page[p]
    BY <1>1, <1>3 DEF ViewKept, ViewStates
  <1>6. n = [m EXCEPT !.saved = ss, !.views = vs, !.viewOrder = o, !.timers = tt]
    BY DEF discard
  <1> HIDE DEF o, s, n
  <1>7. n = [views |-> vs, viewOrder |-> o, timers |-> tt, saved |-> ss, page |-> m.page]
    <2> HIDE DEF vs, ss, tt
    <2> QED BY <1>1, <1>6 DEF Mgrs
  <1>8. m.page = [m.page EXCEPT ![p] = s]
    BY <1>3, <1>5
  <1>9. Changed(m, n, p, NoView, o, m.timers \ {p}, s, s)
    <2>1. n = [views |-> vs, viewOrder |-> o, timers |-> tt, saved |-> ss, page |-> [m.page EXCEPT ![p] = s]]
      <3> HIDE DEF vs, ss, tt
      <3> QED BY <1>7, <1>8
    <2> QED BY <1>2, <1>4, <1>5, <2>1 DEF Changed
  <1>10. MgrSound(n) /\ Spares(m, n, p) /\ n.views = [m.views EXCEPT ![p] = NoView]
    BY <1>9, MgrBuild
  <1> QED BY <1>10 DEF n

LEMMA NavigateSound ==
    ASSUME NEW m, MgrSound(m), NEW p \in AllPanes, NEW u \in Pages
    PROVE  LET n == navigate(m, p, u)
           IN  MgrSound(n) /\ \A q \in AllPanes : n.views[q].at = m.views[q].at
  <1>1. CASE m.views[p].at = "none"
    BY <1>1 DEF navigate
  <1>2. CASE m.views[p].at # "none"
    <2> DEFINE v == [at |-> m.views[p].at, url |-> u]
               n == navigate(m, p, u)
               vs == [m.views EXCEPT ![p].url = u]
               us == [m.page EXCEPT ![p] = u]
    <2>1. m \in Mgrs /\ ViewKept(m, p) /\ m.timers \subseteq Background(m.views)
      BY DEF MgrSound
    <2>2. m.saved \in [AllPanes -> Pages \cup {NoPage}] /\ m.views \in [AllPanes -> ViewStates] /\ m.viewOrder \in Seq(AllPanes)
      BY <2>1 DEF Mgrs
    <2>3. v \in ViewStates /\ v.at = m.views[p].at /\ v.url = u /\ vs = [m.views EXCEPT ![p] = v]
      BY <2>2 DEF ViewStates
    <2>4. m.saved[p] = NoPage /\ p \in ToSet(m.viewOrder) /\ m.saved = [m.saved EXCEPT ![p] = NoPage]
      BY <1>2, <2>1, <2>2 DEF ViewKept
    <2>5. n = [m EXCEPT !.views = vs, !.page = us]
      BY <1>2 DEF navigate
    <2> HIDE DEF n, v
    <2>6. n = [views |-> vs, viewOrder |-> m.viewOrder, timers |-> m.timers, saved |-> m.saved, page |-> us]
      <3> HIDE DEF vs, us
      <3> QED BY <2>1, <2>5 DEF Mgrs
    <2>7. Changed(m, n, p, v, m.viewOrder, m.timers, NoPage, u)
      <3>1. p \in m.timers => v.at = "background"
        BY <2>1, <2>3 DEF Background
      <3>2. n = [views |-> [m.views EXCEPT ![p] = v], viewOrder |-> m.viewOrder, timers |-> m.timers,
                 saved |-> [m.saved EXCEPT ![p] = NoPage], page |-> [m.page EXCEPT ![p] = u]]
        <4> HIDE DEF vs
        <4> QED BY <2>3, <2>4, <2>6
      <3> QED BY <1>2, <2>2, <2>3, <2>4, <3>1, <3>2 DEF Changed
    <2>8. MgrSound(n) /\ n.views = [m.views EXCEPT ![p] = v]
      BY <2>7, MgrBuild
    <2> HIDE DEF vs
    <2>9. \A q \in AllPanes : n.views[q].at = m.views[q].at
      BY <2>2, <2>3, <2>8
    <2> QED BY <2>8, <2>9 DEF n
  <1> QED BY <1>1, <1>2

LEMMA DestroySound ==
    ASSUME NEW m, MgrSound(m), NEW p \in AllPanes
    PROVE  LET n == destroy(m, p)
           IN  MgrSound(n) /\ Spares(m, n, p) /\ (n = m \/ n.views = [m.views EXCEPT ![p] = NoView])
  <1>1. CASE m.views[p].at = "none"
    BY <1>1 DEF destroy, Spares
  <1>2. CASE m.views[p].at # "none"
    <2> DEFINE o == Drop(m.viewOrder, p)
               n == destroy(m, p)
               vs == [m.views EXCEPT ![p] = NoView]
               us == [m.page EXCEPT ![p] = NoPage]
               tt == m.timers \ {p}
    <2>1. m \in Mgrs /\ ViewKept(m, p)
      BY DEF MgrSound
    <2>2. o \in Seq(AllPanes) /\ ToSet(o) = ToSet(m.viewOrder) \ {p}
      BY <2>1, DropSet
    <2>3. m.saved \in [AllPanes -> Pages \cup {NoPage}]
      BY <2>1 DEF Mgrs
    <2>4. NoView \in ViewStates /\ NoView.at = "none"
      BY DEF NoView, ViewStates
    <2>5. n = [m EXCEPT !.views = vs, !.viewOrder = o, !.timers = tt, !.page = us]
      BY <1>2 DEF destroy
    <2> HIDE DEF o, n
    <2>6. n = [views |-> vs, viewOrder |-> o, timers |-> tt, saved |-> m.saved, page |-> us]
      <3> HIDE DEF vs, us, tt
      <3> QED BY <2>1, <2>5 DEF Mgrs
    <2>7. m.saved = [m.saved EXCEPT ![p] = NoPage]
      BY <1>2, <2>1, <2>3 DEF ViewKept
    <2>8. Changed(m, n, p, NoView, o, m.timers \ {p}, NoPage, NoPage)
      <3>1. n = [views |-> vs, viewOrder |-> o, timers |-> tt, saved |-> [m.saved EXCEPT ![p] = NoPage], page |-> us]
        <4> HIDE DEF vs, us, tt
        <4> QED BY <2>6, <2>7
      <3> QED BY <2>2, <2>4, <3>1 DEF Changed
    <2>9. MgrSound(n) /\ Spares(m, n, p) /\ n.views = [m.views EXCEPT ![p] = NoView]
      BY <2>8, MgrBuild
    <2> QED BY <2>9 DEF n
  <1> QED BY <1>1, <1>2

\* The background views, and the limit on them.
LEMMA Fewer ==
    ASSUME NEW m, NEW n, Bounded(m), Background(n.views) \subseteq Background(m.views)
    PROVE  Bounded(n)
  <1>1. IsFiniteSet(Background(m.views))
    <2>1. Background(m.views) \subseteq AllPanes
      BY DEF Background
    <2> QED BY <2>1, FS_Subset, ViewAssumption
  <1>2. Cardinality(Background(n.views)) <= Cardinality(Background(m.views))
    BY <1>1, FS_Subset
  <1>3. Cardinality(Background(n.views)) \in Nat /\ Cardinality(Background(m.views)) \in Nat
    BY <1>1, FS_Subset, FS_CardinalityType
  <1> QED BY <1>2, <1>3, ViewAssumption DEF Bounded

\* The oldest background view is a background view.
LEMMA OldestBackground ==
    ASSUME NEW m, MgrSound(m), Background(m.views) # {}
    PROVE  Oldest(m) \in AllPanes /\ m.views[Oldest(m)].at = "background"
  <1> DEFINE B == Background(m.views)
             r == Within(m.viewOrder, B)
  <1>1. m.viewOrder \in Seq(AllPanes)
    BY DEF MgrSound, Mgrs
  <1>2. r \in Seq(AllPanes) /\ ToSet(r) = ToSet(m.viewOrder) \cap B
    BY <1>1, WithinSet
  <1>3. B \subseteq ToSet(m.viewOrder)
    BY DEF MgrSound, ViewKept, Background
  <1> HIDE DEF r
  <1>4. r # <<>>
    BY <1>2, <1>3 DEF ToSet
  <1>5. 1 \in DOMAIN r
    BY <1>2, <1>4
  <1>6. r[1] \in B
    BY <1>2, <1>5 DEF ToSet
  <1> QED BY <1>6 DEF Oldest, r, Background

\* Discarding it makes one less.
LEMMA DiscardOldest ==
    ASSUME NEW m, MgrSound(m), Background(m.views) # {}
    PROVE  LET n == discard(m, Oldest(m))
           IN  /\ MgrSound(n) /\ Background(n.views) = Background(m.views) \ {Oldest(m)}
               /\ Oldest(m) \in Background(m.views)
               /\ \A q \in AllPanes : m.views[q].at = "active" => n.views[q].at = "active"
  <1> DEFINE p == Oldest(m)
             n == discard(m, p)
  <1>1. p \in AllPanes /\ m.views[p].at = "background"
    BY OldestBackground
  <1> HIDE DEF p
  <1>2. MgrSound(n) /\ Spares(m, n, p) /\ n.views = [m.views EXCEPT ![p] = NoView]
    BY <1>1, DiscardSound
  <1>3. m.views \in [AllPanes -> ViewStates]
    BY DEF MgrSound, Mgrs
  <1> HIDE DEF n
  <1>4. Background(n.views) = Background(m.views) \ {p} /\ p \in Background(m.views)
    BY <1>1, <1>2, <1>3 DEF Background, NoView
  <1>5. \A q \in AllPanes : m.views[q].at = "active" => n.views[q].at = "active"
    BY <1>1, <1>2 DEF Spares
  <1> QED BY <1>2, <1>4, <1>5 DEF n, p

\* One view goes to the background, and the oldest goes if it is one too many.
LEMMA BackgroundSound ==
    ASSUME NEW m, MgrSound(m), Bounded(m), NEW p \in AllPanes
    PROVE  LET n == background(m, p)
           IN  MgrSound(n) /\ Bounded(n) /\ Spares(m, n, p)
  <1>1. CASE m.views[p].at = "none"
    BY <1>1 DEF background, Spares
  <1>2. CASE m.views[p].at # "none"
    <2> DEFINE v == [at |-> "background", url |-> m.views[p].url]
               vs == [m.views EXCEPT ![p].at = "background"]
               tt == m.timers \cup {p}
               b == [m EXCEPT !.views = vs, !.timers = tt]
    <2>1. m \in Mgrs /\ ViewKept(m, p)
      BY DEF MgrSound
    <2>2. /\ m.saved \in [AllPanes -> Pages \cup {NoPage}] /\ m.page \in [AllPanes -> Pages \cup {NoPage}]
          /\ m.views \in [AllPanes -> ViewStates] /\ m.viewOrder \in Seq(AllPanes)
      BY <2>1 DEF Mgrs
    <2>3. v \in ViewStates /\ v.at = "background" /\ v.url = m.page[p] /\ vs = [m.views EXCEPT ![p] = v]
      BY <1>2, <2>1, <2>2 DEF ViewStates, ViewKept
    <2>4. /\ m.saved[p] = NoPage /\ p \in ToSet(m.viewOrder) /\ m.page[p] \in Pages \cup {NoPage}
          /\ m.saved = [m.saved EXCEPT ![p] = NoPage] /\ m.page = [m.page EXCEPT ![p] = m.page[p]]
      BY <1>2, <2>1, <2>2 DEF ViewKept
    <2>5. background(m, p) = enforceMaxBackground(b)
      BY <1>2 DEF background
    <2> HIDE DEF v, vs, tt
    <2>0. b = [m EXCEPT !.views = vs, !.timers = tt]
      OBVIOUS
    <2> HIDE DEF b
    <2>6. b = [views |-> vs, viewOrder |-> m.viewOrder, timers |-> tt, saved |-> m.saved, page |-> m.page]
      BY <2>0, <2>1 DEF Mgrs
    <2>7. Changed(m, b, p, v, m.viewOrder, m.timers \cup {p}, NoPage, m.page[p])
      <3>1. b = [views |-> [m.views EXCEPT ![p] = v], viewOrder |-> m.viewOrder, timers |-> m.timers \cup {p},
                 saved |-> [m.saved EXCEPT ![p] = NoPage], page |-> [m.page EXCEPT ![p] = m.page[p]]]
        BY <2>3, <2>4, <2>6 DEF tt
      <3> QED BY <2>2, <2>3, <2>4, <3>1 DEF Changed
    <2>8. MgrSound(b) /\ Spares(m, b, p) /\ b.views = [m.views EXCEPT ![p] = v]
      BY <2>7, MgrBuild
    <2>9. Background(b.views) = Background(m.views) \cup {p}
      BY <2>2, <2>3, <2>8 DEF Background
    <2>10. /\ IsFiniteSet(Background(m.views)) /\ IsFiniteSet(Background(b.views))
           /\ Cardinality(Background(m.views)) \in Nat /\ Cardinality(Background(b.views)) \in Nat
           /\ Cardinality(Background(b.views)) <= Cardinality(Background(m.views)) + 1
      <3>1. Background(m.views) \subseteq AllPanes
        BY DEF Background
      <3>2. IsFiniteSet(Background(m.views))
        BY <3>1, FS_Subset, ViewAssumption
      <3>3. /\ IsFiniteSet(Background(m.views) \cup {p})
            /\ Cardinality(Background(m.views) \cup {p}) =
                 IF p \in Background(m.views) THEN Cardinality(Background(m.views))
                 ELSE Cardinality(Background(m.views)) + 1
        BY <3>2, FS_AddElement
      <3>4. Cardinality(Background(m.views)) \in Nat
        BY <3>2, FS_CardinalityType
      <3> QED BY <2>9, <3>2, <3>3, <3>4
    <2>11. CASE Cardinality(Background(b.views)) > MaxBackground
      <3> DEFINE n == discard(b, Oldest(b))
      <3>1. background(m, p) = n
        BY <2>5, <2>11 DEF enforceMaxBackground
      <3>2. Background(b.views) # {}
        BY <2>9
      <3>3. /\ MgrSound(n) /\ Background(n.views) = Background(b.views) \ {Oldest(b)}
            /\ Oldest(b) \in Background(b.views)
            /\ \A q \in AllPanes : b.views[q].at = "active" => n.views[q].at = "active"
        BY <2>8, <3>2, DiscardOldest
      <3> HIDE DEF n
      <3>4. Cardinality(Background(n.views)) = Cardinality(Background(b.views)) - 1
        BY <2>10, <3>3, FS_RemoveElement
      <3>5. Bounded(n)
        BY <2>10, <3>4, ViewAssumption DEF Bounded
      <3>6. Spares(m, n, p)
        BY <2>8, <3>3 DEF Spares
      <3> QED BY <3>1, <3>3, <3>5, <3>6
    <2>12. CASE ~(Cardinality(Background(b.views)) > MaxBackground)
      <3>1. background(m, p) = b
        BY <2>5, <2>12 DEF enforceMaxBackground
      <3>2. Bounded(b)
        BY <2>10, <2>12, ViewAssumption DEF Bounded
      <3> QED BY <2>8, <3>1, <3>2
    <2> QED BY <2>11, <2>12
  <1> QED BY <1>1, <1>2

-----------------------------------------------------------------------------
(* The calls on their way.  A mounted pane has an active view, or a call  *)
(* under way that gives it one; no call after that takes it away.         *)

CallRecs ==
    {c \in [op : {"open", "close", "navigate", "destroy"}, p : Panes, u : Pages \cup {NoPage}] :
        c.op \in {"open", "navigate"} => c.u \in Pages}

OwnCalls(cs) == cs \in [Wins -> Seq(CallRecs)] /\ \A w \in Wins : \A i \in 1..Len(cs[w]) : Owner[cs[w][i].p] = w

Harmless(c, p) == c.p # p \/ c.op \in {"open", "navigate"}

Shown(p, c, v) ==
    \/ v[p].at = "active" /\ \A j \in 1..Len(c) : Harmless(c[j], p)
    \/ \E i \in 1..Len(c) : /\ c[i].p = p /\ c[i].op = "open"
                            /\ \A j \in (i + 1)..Len(c) : Harmless(c[j], p)

ViewsInv ==
    /\ mounted \subseteq Panes /\ OwnCalls(calls)
    /\ MgrSound(Mgr) /\ Bounded(Mgr)
    /\ \A p \in mounted : Shown(p, calls[Owner[p]], views)

\* A call that is sent.
LEMMA ShownAppend ==
    ASSUME NEW p, NEW c \in Seq(CallRecs), NEW x \in CallRecs, NEW v,
           \/ x.p = p /\ x.op = "open"
           \/ Shown(p, c, v) /\ Harmless(x, p)
    PROVE  Shown(p, Append(c, x), v)
  <1> DEFINE d == Append(c, x)
  <1>1. /\ Len(c) \in Nat /\ Len(d) = Len(c) + 1 /\ d[Len(c) + 1] = x
        /\ \A j \in 1..Len(c) : d[j] = c[j]
    OBVIOUS
  <1> HIDE DEF d
  <1>2. CASE x.p = p /\ x.op = "open"
    <2>1. Len(d) \in 1..Len(d) /\ d[Len(d)].p = p /\ d[Len(d)].op = "open"
      BY <1>1, <1>2
    <2>2. \A j \in (Len(d) + 1)..Len(d) : Harmless(d[j], p)
      BY <1>1
    <2>3. Shown(p, d, v)
      BY <2>1, <2>2 DEF Shown
    <2> QED BY <2>3 DEF d
  <1>3. CASE Shown(p, c, v) /\ Harmless(x, p)
    <2>1. CASE v[p].at = "active" /\ \A j \in 1..Len(c) : Harmless(c[j], p)
      <3>1. \A j \in 1..Len(d) : Harmless(d[j], p)
        BY <1>1, <1>3, <2>1
      <3>2. Shown(p, d, v)
        BY <2>1, <3>1 DEF Shown
      <3> QED BY <3>2 DEF d
    <2>2. ASSUME NEW i \in 1..Len(c), c[i].p = p, c[i].op = "open",
                 \A j \in (i + 1)..Len(c) : Harmless(c[j], p)
          PROVE  Shown(p, d, v)
      <3>1. i \in 1..Len(d) /\ d[i].p = p /\ d[i].op = "open"
        BY <1>1, <2>2
      <3>2. \A j \in (i + 1)..Len(d) : Harmless(d[j], p)
        BY <1>1, <1>3, <2>2
      <3> QED BY <3>1, <3>2 DEF Shown
    <2>3. Shown(p, d, v)
      <3>1. CASE v[p].at = "active" /\ \A j \in 1..Len(c) : Harmless(c[j], p)
        BY <2>1, <3>1 DEF d
      <3>2. CASE ~(v[p].at = "active" /\ \A j \in 1..Len(c) : Harmless(c[j], p))
        <4>1. PICK i \in 1..Len(c) : /\ c[i].p = p /\ c[i].op = "open"
                                     /\ \A j \in (i + 1)..Len(c) : Harmless(c[j], p)
          BY <1>3, <3>2 DEF Shown
        <4> QED BY <2>2, <4>1
      <3> QED BY <3>1, <3>2
    <2> QED BY <2>3 DEF d
  <1> QED BY <1>2, <1>3

\* A call that is handled.
LEMMA ShownTail ==
    ASSUME NEW p, NEW c \in Seq(CallRecs), c # <<>>, NEW v, NEW n, Shown(p, c, v),
           Head(c).p = p /\ Head(c).op = "open" => n[p].at = "active",
           v[p].at = "active" /\ Harmless(Head(c), p) => n[p].at = "active"
    PROVE  Shown(p, Tail(c), n)
  <1> DEFINE d == Tail(c)
  <1>1. /\ Len(c) \in Nat /\ Len(c) >= 1 /\ Len(d) = Len(c) - 1 /\ Head(c) = c[1]
        /\ \A j \in 1..Len(d) : d[j] = c[j + 1]
    OBVIOUS
  <1> HIDE DEF d
  <1>2. CASE v[p].at = "active" /\ \A j \in 1..Len(c) : Harmless(c[j], p)
    <2>1. n[p].at = "active"
      <3>1. 1 \in 1..Len(c)
        BY <1>1
      <3> QED BY <1>1, <1>2, <3>1
    <2>2. \A j \in 1..Len(d) : Harmless(d[j], p)
      BY <1>1, <1>2
    <2>3. Shown(p, d, n)
      BY <2>1, <2>2 DEF Shown
    <2> QED BY <2>3 DEF d
  <1>3. CASE ~(v[p].at = "active" /\ \A j \in 1..Len(c) : Harmless(c[j], p))
    <2>1. PICK i \in 1..Len(c) : /\ c[i].p = p /\ c[i].op = "open"
                                 /\ \A j \in (i + 1)..Len(c) : Harmless(c[j], p)
      BY <1>3 DEF Shown
    <2>2. CASE i = 1
      <3>1. n[p].at = "active"
        BY <1>1, <2>1, <2>2
      <3>2. \A j \in 1..Len(d) : Harmless(d[j], p)
        BY <1>1, <2>1, <2>2
      <3>3. Shown(p, d, n)
        BY <3>1, <3>2 DEF Shown
      <3> QED BY <3>3 DEF d
    <2>3. CASE i # 1
      <3>1. i - 1 \in 1..Len(d) /\ d[i - 1] = c[i]
        BY <1>1, <2>1, <2>3
      <3>2. \A j \in ((i - 1) + 1)..Len(d) : Harmless(d[j], p)
        BY <1>1, <2>1, <2>3
      <3>3. Shown(p, d, n)
        BY <2>1, <3>1, <3>2 DEF Shown
      <3> QED BY <3>3 DEF d
    <2> QED BY <2>2, <2>3
  <1> QED BY <1>2, <1>3

\* Only the views that stay active are needed.
LEMMA ShownKept ==
    ASSUME NEW p, NEW c, NEW v, NEW n, Shown(p, c, v), v[p].at = "active" => n[p].at = "active"
    PROVE  Shown(p, c, n)
  BY DEF Shown

\* What a step has to establish, with n the manager it leaves.
LEMMA ViewsStep ==
    ASSUME NEW n, SetMgr(n), MgrSound(n), Bounded(n), mounted' \subseteq Panes, OwnCalls(calls'),
           \A p \in mounted' : Shown(p, calls'[Owner[p]], n.views)
    PROVE  ViewsInv'
  <1>1. /\ n.views = views' /\ n.viewOrder = viewOrder' /\ n.timers = timers' /\ n.saved = saved' /\ n.page = page'
    BY DEF SetMgr
  <1>2. n = Mgr'
    <2>1. n = [views |-> n.views, viewOrder |-> n.viewOrder, timers |-> n.timers, saved |-> n.saved, page |-> n.page]
      BY MgrParts
    <2>2. Mgr' = [views |-> views', viewOrder |-> viewOrder', timers |-> timers', saved |-> saved', page |-> page']
      BY DEF Mgr
    <2> HIDE DEF Mgr
    <2> QED BY <1>1, <2>1, <2>2
  <1>3. MgrSound(Mgr')
    BY <1>2
  <1>4. Bounded(Mgr')
    BY <1>2
  <1>5. MgrSound(Mgr)'
    BY <1>3 DEF MgrSound, Mgrs, ViewKept, ToSet, ViewStates, Background, AllPanes
  <1>6. Bounded(Mgr)'
    BY <1>4 DEF Bounded, Background, AllPanes
  <1>7. \A p \in mounted' : Shown(p, calls'[Owner[p]], views')
    BY <1>1
  <1>8. OwnCalls(calls)' /\ (\A p \in mounted : Shown(p, calls[Owner[p]], views))'
    BY <1>7 DEF OwnCalls, CallRecs, Shown, Harmless
  <1> QED BY <1>5, <1>6, <1>8 DEF ViewsInv

\* Sending one call.
Sent(cs, x) == [cs EXCEPT ![Owner[x.p]] = Append(@, x)]

LEMMA SentShown ==
    ASSUME NEW cs, OwnCalls(cs), NEW x \in CallRecs, NEW v, NEW M, M \subseteq Panes,
           \A p \in M : \/ x.p = p /\ x.op = "open"
                        \/ Shown(p, cs[Owner[p]], v) /\ Harmless(x, p)
    PROVE  OwnCalls(Sent(cs, x)) /\ \A p \in M : Shown(p, Sent(cs, x)[Owner[p]], v)
  <1>1. x.p \in Panes /\ \A p \in Panes : Owner[p] \in Wins
    BY ViewAssumption DEF CallRecs, AllPanes
  <1> DEFINE w == Owner[x.p]
  <1>2. w \in Wins /\ cs \in [Wins -> Seq(CallRecs)] /\ \A u \in Wins : \A i \in 1..Len(cs[u]) : Owner[cs[u][i].p] = u
    BY <1>1 DEF OwnCalls
  <1> DEFINE d == Append(cs[w], x)
             ds == Sent(cs, x)
  <1>3. d \in Seq(CallRecs) /\ \A i \in 1..Len(d) : Owner[d[i].p] = w
    <2>1. cs[w] \in Seq(CallRecs)
      BY <1>2
    <2>2. \A i \in 1..Len(cs[w]) : Owner[cs[w][i].p] = w
      BY <1>2
    <2> DEFINE c == cs[w]
    <2> HIDE DEF c
    <2>3. /\ Len(c) \in Nat /\ Append(c, x) \in Seq(CallRecs) /\ Len(Append(c, x)) = Len(c) + 1
          /\ Append(c, x)[Len(c) + 1] = x /\ \A i \in 1..Len(c) : Append(c, x)[i] = c[i]
      BY <2>1 DEF c
    <2>4. \A i \in 1..Len(Append(c, x)) : Owner[Append(c, x)[i].p] = w
      BY <2>2, <2>3 DEF c
    <2> QED BY <2>3, <2>4 DEF c
  <1>4. ds = [cs EXCEPT ![w] = d]
    BY DEF Sent
  <1>5. ASSUME NEW p \in M PROVE Shown(p, ds[Owner[p]], v)
    <2>1. Owner[p] \in Wins
      BY <1>1
    <2>2. CASE Owner[p] = w
      <3>1. ds[Owner[p]] = Append(cs[w], x)
        BY <1>2, <1>4, <2>2
      <3>2. cs[w] \in Seq(CallRecs)
        BY <1>2
      <3>3. \/ x.p = p /\ x.op = "open"
            \/ Shown(p, cs[w], v) /\ Harmless(x, p)
        BY <2>2
      <3> HIDE DEF w, ds
      <3> QED BY <3>1, <3>2, <3>3, ShownAppend
    <2>3. CASE Owner[p] # w
      <3>1. ds[Owner[p]] = cs[Owner[p]]
        BY <1>2, <1>4, <2>1, <2>3
      <3> QED BY <2>3, <3>1
    <2> QED BY <2>2, <2>3
  <1> HIDE DEF d
  <1>6. OwnCalls(ds)
    BY <1>2, <1>3, <1>4 DEF OwnCalls
  <1> QED BY <1>5, <1>6

\* A renderer sends one call, and the manager is as it was.
LEMMA RendererSends ==
    ASSUME ViewsInv, NEW x \in CallRecs, Call(Owner[x.p], <<x>>),
           UNCHANGED <<views, viewOrder, timers, saved, page>>, mounted' \subseteq Panes,
           \A p \in mounted' : (x.p = p /\ x.op = "open") \/ (p \in mounted /\ Harmless(x, p))
    PROVE  ViewsInv'
  <1>1. OwnCalls(calls) /\ \A p \in mounted : Shown(p, calls[Owner[p]], views)
    BY DEF ViewsInv
  <1>2. calls' = Sent(calls, x)
    <2>1. Owner[x.p] \in Wins
      BY ViewAssumption DEF CallRecs, AllPanes
    <2>2. calls[Owner[x.p]] \in Seq(CallRecs)
      BY <1>1, <2>1 DEF OwnCalls
    <2>3. calls[Owner[x.p]] \o <<x>> = Append(calls[Owner[x.p]], x)
      BY <2>2
    <2> QED BY <2>3 DEF Call, Sent
  <1>3. OwnCalls(calls') /\ \A p \in mounted' : Shown(p, calls'[Owner[p]], views)
    BY <1>1, <1>2, SentShown
  <1>4. SetMgr(Mgr) /\ MgrSound(Mgr) /\ Bounded(Mgr) /\ Mgr.views = views
    BY DEF ViewsInv, SetMgr, Mgr
  <1> QED BY <1>3, <1>4, ViewsStep

LEMMA RendererSteps ==
    ASSUME ViewsInv, NEW p \in AllPanes,
           UnmountPane(p) \/ \E u \in Pages : MountPane(p, u) \/ NavigatePane(p, u)
    PROVE  ViewsInv'
  <1>1. mounted \subseteq Panes
    BY DEF ViewsInv
  <1>2. ASSUME NEW u \in Pages, MountPane(p, u) PROVE ViewsInv'
    <2> DEFINE x == [op |-> "open", p |-> p, u |-> u]
    <2>1. x \in CallRecs /\ x.p = p /\ x.op = "open"
      BY <1>2 DEF MountPane, CallRecs
    <2>2. mounted' = mounted \cup {p} /\ p \in Panes
      BY <1>2 DEF MountPane
    <2>3. Call(Owner[x.p], <<x>>) /\ UNCHANGED <<views, viewOrder, timers, saved, page>>
      BY <1>2 DEF MountPane
    <2> HIDE DEF x
    <2>4. \A q \in mounted' : (x.p = q /\ x.op = "open") \/ (q \in mounted /\ Harmless(x, q))
      BY <2>1, <2>2 DEF Harmless
    <2> QED BY <1>1, <2>1, <2>2, <2>3, <2>4, RendererSends
  <1>3. ASSUME NEW u \in Pages, NavigatePane(p, u) PROVE ViewsInv'
    <2> DEFINE x == [op |-> "navigate", p |-> p, u |-> u]
    <2>1. x \in CallRecs /\ x.p = p /\ x.op = "navigate"
      BY <1>1, <1>3 DEF NavigatePane, CallRecs
    <2>2. mounted' = mounted
      BY <1>3 DEF NavigatePane
    <2>3. Call(Owner[x.p], <<x>>) /\ UNCHANGED <<views, viewOrder, timers, saved, page>>
      BY <1>3 DEF NavigatePane
    <2> HIDE DEF x
    <2>4. \A q \in mounted' : (x.p = q /\ x.op = "open") \/ (q \in mounted /\ Harmless(x, q))
      BY <2>1, <2>2 DEF Harmless
    <2> QED BY <1>1, <2>1, <2>2, <2>3, <2>4, RendererSends
  <1>4. CASE UnmountPane(p)
    <2> DEFINE x == [op |-> "close", p |-> p, u |-> NoPage]
    <2>1. x \in CallRecs /\ x.p = p
      BY <1>1, <1>4 DEF UnmountPane, CallRecs
    <2>2. mounted' = mounted \ {p}
      BY <1>4 DEF UnmountPane
    <2>3. Call(Owner[x.p], <<x>>) /\ UNCHANGED <<views, viewOrder, timers, saved, page>>
      BY <1>4 DEF UnmountPane
    <2> HIDE DEF x
    <2>4. \A q \in mounted' : (x.p = q /\ x.op = "open") \/ (q \in mounted /\ Harmless(x, q))
      BY <2>1, <2>2 DEF Harmless
    <2> QED BY <1>1, <2>1, <2>2, <2>3, <2>4, RendererSends
  <1> QED BY <1>2, <1>3, <1>4

\* Closing a tab sends one call or two.
LEMMA CloseTabKeeps ==
    ASSUME ViewsInv, NEW p \in AllPanes, CloseBrowserTab(p)
    PROVE  ViewsInv'
  <1> DEFINE x == [op |-> "destroy", p |-> p, u |-> NoPage]
             y == [op |-> "close", p |-> p, u |-> NoPage]
             w == Owner[p]
  <1>1. /\ mounted \subseteq Panes /\ OwnCalls(calls) /\ p \in Panes /\ mounted' = mounted \ {p}
        /\ UNCHANGED <<views, viewOrder, timers, saved, page>>
        /\ Call(w, <<x>> \o (IF p \in mounted THEN <<y>> ELSE <<>>))
    BY DEF ViewsInv, CloseBrowserTab
  <1>2. x \in CallRecs /\ y \in CallRecs /\ x.p = p /\ y.p = p
    BY <1>1 DEF CallRecs
  <1>3. w \in Wins /\ calls[w] \in Seq(CallRecs)
    BY <1>1, ViewAssumption DEF AllPanes, OwnCalls
  <1> HIDE DEF x, y, w
  <1>4. CASE p \notin mounted
    <2>1. Call(Owner[x.p], <<x>>)
      <3>1. calls[w] \o (<<x>> \o <<>>) = calls[w] \o <<x>>
        BY <1>3
      <3> QED BY <1>1, <1>2, <1>4, <3>1 DEF Call, w
    <2>2. \A q \in mounted' : (x.p = q /\ x.op = "open") \/ (q \in mounted /\ Harmless(x, q))
      BY <1>1, <1>2 DEF Harmless
    <2> QED BY <1>1, <1>2, <2>1, <2>2, RendererSends
  <1>5. CASE p \in mounted
    <2>1. calls' = Sent(Sent(calls, x), y)
      <3>1. calls[w] \o (<<x>> \o <<y>>) = Append(Append(calls[w], x), y)
        BY <1>2, <1>3
      <3>2. calls' = [calls EXCEPT ![w] = Append(Append(calls[w], x), y)]
        BY <1>1, <1>5, <3>1 DEF Call
      <3>3. Sent(calls, x) = [calls EXCEPT ![w] = Append(calls[w], x)]
        BY <1>2 DEF Sent, w
      <3> DEFINE cs == Sent(calls, x)
      <3>4. cs[w] = Append(calls[w], x)
        BY <1>1, <1>3, <3>3 DEF OwnCalls
      <3>5. Sent(cs, y) = [cs EXCEPT ![w] = Append(cs[w], y)]
        BY <1>2 DEF Sent, w
      <3> HIDE DEF cs
      <3>6. Sent(cs, y) = [calls EXCEPT ![w] = Append(Append(calls[w], x), y)]
        <4>1. cs = [calls EXCEPT ![w] = Append(calls[w], x)]
          BY <3>3 DEF cs
        <4> DEFINE a == Append(calls[w], x)
                   b == Append(a, y)
        <4>2. Sent(cs, y) = [cs EXCEPT ![w] = b] /\ cs = [calls EXCEPT ![w] = a] /\ calls \in [Wins -> Seq(CallRecs)]
          BY <1>1, <3>4, <3>5, <4>1 DEF OwnCalls
        <4> HIDE DEF a, b
        <4>3. Sent(cs, y) = [calls EXCEPT ![w] = b]
          BY <1>3, <4>2
        <4> QED BY <4>3 DEF a, b
      <3> QED BY <3>2, <3>6 DEF cs
    <2>2. \A q \in mounted' : Shown(q, calls[Owner[q]], views) /\ Harmless(x, q) /\ Harmless(y, q)
      BY <1>1, <1>2 DEF ViewsInv, Harmless
    <2>3. mounted' \subseteq Panes
      BY <1>1
    <2>4. OwnCalls(Sent(calls, x)) /\ \A q \in mounted' : Shown(q, Sent(calls, x)[Owner[q]], views)
      BY <1>1, <1>2, <2>2, <2>3, SentShown
    <2>5. OwnCalls(calls') /\ \A q \in mounted' : Shown(q, calls'[Owner[q]], views)
      BY <1>2, <2>1, <2>2, <2>3, <2>4, SentShown
    <2>6. SetMgr(Mgr) /\ MgrSound(Mgr) /\ Bounded(Mgr) /\ Mgr.views = views
      BY <1>1 DEF ViewsInv, SetMgr, Mgr
    <2> QED BY <2>3, <2>5, <2>6, ViewsStep
  <1> QED BY <1>4, <1>5

\* The manager works on its own: every shown view stays shown.
LEMMA ManagerSteps ==
    ASSUME ViewsInv, NEW n, SetMgr(n), MgrSound(n), Bounded(n), UNCHANGED <<mounted, calls>>,
           \A p \in mounted : views[p].at = "active" => n.views[p].at = "active"
    PROVE  ViewsInv'
  <1>1. \A p \in mounted' : Shown(p, calls'[Owner[p]], n.views)
    BY ShownKept DEF ViewsInv
  <1>2. mounted' \subseteq Panes /\ OwnCalls(calls')
    BY DEF ViewsInv
  <1> QED BY <1>1, <1>2, ViewsStep

\* The next call of a window: it changes the view of its own pane only, to
\* an active one if it opens it.
LEMMA HandleCallKeeps ==
    ASSUME ViewsInv, NEW w \in Wins, HandleCall(w)
    PROVE  ViewsInv'
  <1> DEFINE c == Head(calls[w])
             n == CASE c.op = "open" -> open(Mgr, c.p, c.u)
                    [] c.op = "close" -> background(Mgr, c.p)
                    [] c.op = "navigate" -> navigate(Mgr, c.p, c.u)
                    [] c.op = "destroy" -> destroy(Mgr, c.p)
  <1>1. /\ calls[w] # <<>> /\ SetMgr(n) /\ calls' = [calls EXCEPT ![w] = Tail(@)] /\ mounted' = mounted
    BY DEF HandleCall
  <1>2. OwnCalls(calls) /\ MgrSound(Mgr) /\ Bounded(Mgr) /\ mounted \subseteq Panes /\ Mgr.views = views
    BY DEF ViewsInv, Mgr
  <1>3. /\ calls[w] \in Seq(CallRecs) /\ \A i \in 1..Len(calls[w]) : Owner[calls[w][i].p] = w
        /\ calls \in [Wins -> Seq(CallRecs)]
    BY <1>2 DEF OwnCalls
  <1>4. c \in CallRecs /\ Owner[c.p] = w
    <2> DEFINE s == calls[w]
    <2>1. s \in Seq(CallRecs) /\ s # <<>> /\ \A i \in 1..Len(s) : Owner[s[i].p] = w
      BY <1>1, <1>3
    <2> HIDE DEF s
    <2>2. 1 \in 1..Len(s) /\ Head(s) = s[1] /\ s[1] \in CallRecs
      BY <2>1
    <2> QED BY <2>1, <2>2 DEF s
  <1> HIDE DEF c
  <1>5. /\ c.p \in AllPanes /\ c.op \in {"open", "close", "navigate", "destroy"}
        /\ (c.op \in {"open", "navigate"} => c.u \in Pages)
    BY <1>4 DEF CallRecs, AllPanes
  <1>6. /\ MgrSound(n) /\ Bounded(n) /\ Spares(Mgr, n, c.p)
        /\ c.op = "open" => n.views[c.p].at = "active"
        /\ c.op = "navigate" => n.views[c.p].at = Mgr.views[c.p].at
    <2>1. CASE c.op = "open"
      <3> DEFINE k == open(Mgr, c.p, c.u)
      <3>1. /\ MgrSound(k) /\ Spares(Mgr, k, c.p) /\ k.views[c.p].at = "active"
            /\ \A q \in AllPanes \ {c.p} : k.views[q] = Mgr.views[q]
        BY <1>2, <1>5, <2>1, OpenSound
      <3>2. n = k
        BY <2>1
      <3> HIDE DEF k, n
      <3>3. Background(k.views) \subseteq Background(Mgr.views)
        BY <3>1 DEF Background
      <3>4. Bounded(k)
        BY <1>2, <3>3, Fewer
      <3> QED BY <2>1, <3>1, <3>2, <3>4
    <2>2. CASE c.op = "close"
      <3>1. n = background(Mgr, c.p)
        BY <2>2
      <3> HIDE DEF n
      <3> QED BY <1>2, <1>5, <2>2, <3>1, BackgroundSound
    <2>3. CASE c.op = "navigate"
      <3> DEFINE k == navigate(Mgr, c.p, c.u)
      <3>1. MgrSound(k) /\ \A q \in AllPanes : k.views[q].at = Mgr.views[q].at
        BY <1>2, <1>5, <2>3, NavigateSound
      <3>2. n = k
        BY <2>3
      <3> HIDE DEF k, n
      <3>3. Background(k.views) \subseteq Background(Mgr.views)
        BY <3>1 DEF Background
      <3>4. Bounded(k)
        BY <1>2, <3>3, Fewer
      <3>5. Spares(Mgr, k, c.p)
        BY <3>1 DEF Spares
      <3> QED BY <1>5, <2>3, <3>1, <3>2, <3>4, <3>5
    <2>4. CASE c.op = "destroy"
      <3> DEFINE k == destroy(Mgr, c.p)
      <3>1. MgrSound(k) /\ Spares(Mgr, k, c.p) /\ (k = Mgr \/ k.views = [Mgr.views EXCEPT ![c.p] = NoView])
        BY <1>2, <1>5, DestroySound
      <3>2. n = k
        BY <2>4
      <3> HIDE DEF k, n
      <3>3. Mgr.views \in [AllPanes -> ViewStates]
        BY <1>2, MgrParts
      <3>4. Background(k.views) \subseteq Background(Mgr.views)
        BY <1>5, <3>1, <3>3 DEF Background, NoView
      <3>5. Bounded(k)
        BY <1>2, <3>4, Fewer
      <3> QED BY <2>4, <3>1, <3>2, <3>5
    <2> QED BY <1>5, <2>1, <2>2, <2>3, <2>4
  <1> HIDE DEF n
  <1>7. OwnCalls(calls')
    <2> DEFINE s == calls[w]
               d == Tail(s)
    <2>1. s \in Seq(CallRecs) /\ s # <<>> /\ \A i \in 1..Len(s) : Owner[s[i].p] = w
      BY <1>1, <1>3
    <2>2. calls' = [calls EXCEPT ![w] = d]
      BY <1>1
    <2> HIDE DEF s
    <2>3. /\ d \in Seq(CallRecs) /\ Len(s) \in Nat /\ Len(d) = Len(s) - 1 /\ Len(s) >= 1
          /\ \A i \in 1..Len(d) : d[i] = s[i + 1]
      BY <2>1
    <2> HIDE DEF d
    <2>4. \A i \in 1..Len(d) : Owner[d[i].p] = w
      BY <2>1, <2>3
    <2>5. \A u \in Wins : \A i \in 1..Len(calls[u]) : Owner[calls[u][i].p] = u
      BY <1>2 DEF OwnCalls
    <2> QED BY <1>3, <2>2, <2>3, <2>4, <2>5 DEF OwnCalls
  <1>8. ASSUME NEW p \in mounted PROVE Shown(p, calls'[Owner[p]], n.views)
    <2>1. p \in AllPanes /\ Owner[p] \in Wins /\ Shown(p, calls[Owner[p]], views)
      BY <1>2, ViewAssumption DEF ViewsInv, AllPanes
    <2>2. CASE Owner[p] # w
      <3>1. calls'[Owner[p]] = calls[Owner[p]]
        BY <1>1, <1>3, <2>1, <2>2
      <3>2. views[p].at = "active" => n.views[p].at = "active"
        BY <1>2, <1>4, <1>6, <2>1, <2>2 DEF Spares
      <3> QED BY <2>1, <3>1, <3>2, ShownKept
    <2>3. CASE Owner[p] = w
      <3>1. calls'[w] = Tail(calls[w])
        BY <1>1, <1>3
      <3>2. c.p = p /\ c.op = "open" => n.views[p].at = "active"
        BY <1>6
      <3>3. views[p].at = "active" /\ Harmless(c, p) => n.views[p].at = "active"
        <4>1. CASE c.p # p
          BY <1>2, <1>6, <2>1, <4>1 DEF Spares
        <4>2. CASE c.p = p
          BY <1>2, <1>6, <4>2 DEF Harmless
        <4> QED BY <4>1, <4>2
      <3>4. Shown(p, calls[w], views)
        BY <2>1, <2>3
      <3>5. Head(calls[w]) = c
        BY DEF c
      <3>6. Shown(p, Tail(calls[w]), n.views)
        BY <1>1, <1>3, <3>2, <3>3, <3>4, <3>5, ShownTail
      <3> QED BY <2>3, <3>1, <3>6
    <2> QED BY <2>2, <2>3
  <1> QED BY <1>1, <1>2, <1>6, <1>7, <1>8, ViewsStep

\* A link in a page, an idle timer, the memory check, mini windows.
LEMMA FollowLinkKeeps ==
    ASSUME ViewsInv, NEW p \in AllPanes, NEW u \in Pages, FollowLink(p, u)
    PROVE  ViewsInv'
  <1> DEFINE n == navigate(Mgr, p, u)
  <1>1. SetMgr(n) /\ UNCHANGED <<mounted, calls>>
    BY DEF FollowLink
  <1>2. MgrSound(Mgr) /\ Bounded(Mgr) /\ mounted \subseteq AllPanes /\ Mgr.views = views
    BY DEF ViewsInv, Mgr, AllPanes
  <1>3. MgrSound(n) /\ \A q \in AllPanes : n.views[q].at = Mgr.views[q].at
    BY <1>2, NavigateSound
  <1> HIDE DEF n
  <1>4. Background(n.views) \subseteq Background(Mgr.views)
    BY <1>3 DEF Background
  <1>5. Bounded(n)
    BY <1>2, <1>4, Fewer
  <1>6. \A q \in mounted : views[q].at = "active" => n.views[q].at = "active"
    BY <1>2, <1>3
  <1> QED BY <1>1, <1>3, <1>5, <1>6, ManagerSteps

LEMMA IdleTimeoutKeeps ==
    ASSUME ViewsInv, NEW p \in AllPanes, IdleTimeout(p)
    PROVE  ViewsInv'
  <1> DEFINE n == discard(Mgr, p)
  <1>1. MgrSound(Mgr) /\ Bounded(Mgr) /\ mounted \subseteq AllPanes /\ Mgr.views = views /\ Mgr.timers = timers
    BY DEF ViewsInv, Mgr, AllPanes
  <1>2. Mgr.views[p].at = "background" /\ p \in timers
    <2>1. p \in timers /\ Mgr.timers \subseteq Background(Mgr.views)
      BY <1>1 DEF IdleTimeout, MgrSound
    <2> QED BY <1>1, <2>1 DEF Background
  <1>3. SetMgr(n) /\ UNCHANGED <<mounted, calls>>
    BY <1>1, <1>2 DEF IdleTimeout
  <1>4. MgrSound(n) /\ Spares(Mgr, n, p) /\ n.views = [Mgr.views EXCEPT ![p] = NoView]
    BY <1>1, <1>2, DiscardSound
  <1>5. Mgr.views \in [AllPanes -> ViewStates]
    BY <1>1, MgrParts
  <1> HIDE DEF n
  <1>6. Background(n.views) \subseteq Background(Mgr.views)
    BY <1>4, <1>5 DEF Background, NoView
  <1>7. Bounded(n)
    BY <1>1, <1>6, Fewer
  <1>8. \A q \in mounted : views[q].at = "active" => n.views[q].at = "active"
    BY <1>1, <1>2, <1>4 DEF Spares
  <1> QED BY <1>3, <1>4, <1>7, <1>8, ManagerSteps

LEMMA MemoryLimitKeeps ==
    ASSUME ViewsInv, checkMemoryLimit
    PROVE  ViewsInv'
  <1> DEFINE n == discard(Mgr, Oldest(Mgr))
  <1>1. MgrSound(Mgr) /\ Bounded(Mgr) /\ mounted \subseteq AllPanes /\ Mgr.views = views
    BY DEF ViewsInv, Mgr, AllPanes
  <1>2. Background(Mgr.views) # {} /\ SetMgr(n) /\ UNCHANGED <<mounted, calls>>
    BY <1>1 DEF checkMemoryLimit
  <1>3. /\ MgrSound(n) /\ Background(n.views) = Background(Mgr.views) \ {Oldest(Mgr)}
        /\ \A q \in AllPanes : Mgr.views[q].at = "active" => n.views[q].at = "active"
    BY <1>1, <1>2, DiscardOldest
  <1> HIDE DEF n
  <1>4. Background(n.views) \subseteq Background(Mgr.views)
    BY <1>3
  <1>5. Bounded(n)
    BY <1>1, <1>4, Fewer
  <1>6. \A q \in mounted : views[q].at = "active" => n.views[q].at = "active"
    BY <1>1, <1>3
  <1> QED BY <1>2, <1>3, <1>5, <1>6, ManagerSteps

LEMMA MiniKeeps ==
    ASSUME ViewsInv, NEW p \in AllPanes, CloseMini(p) \/ \E u \in Pages : OpenMini(p, u)
    PROVE  ViewsInv'
  <1>1. MgrSound(Mgr) /\ Bounded(Mgr) /\ mounted \subseteq AllPanes /\ mounted \subseteq Panes /\ Mgr.views = views
    BY DEF ViewsInv, Mgr, AllPanes
  <1>2. p \notin mounted
    BY <1>1, ViewAssumption DEF OpenMini, CloseMini
  <1>3. ASSUME NEW u \in Pages, OpenMini(p, u) PROVE ViewsInv'
    <2> DEFINE n == open(Mgr, p, u)
    <2>1. SetMgr(n) /\ UNCHANGED <<mounted, calls>>
      BY <1>3 DEF OpenMini
    <2>2. /\ MgrSound(n) /\ Spares(Mgr, n, p) /\ n.views[p].at = "active"
          /\ \A q \in AllPanes \ {p} : n.views[q] = Mgr.views[q]
      BY <1>1, OpenSound
    <2> HIDE DEF n
    <2>3. Background(n.views) \subseteq Background(Mgr.views)
      BY <2>2 DEF Background
    <2>4. Bounded(n)
      BY <1>1, <2>3, Fewer
    <2>5. \A q \in mounted : views[q].at = "active" => n.views[q].at = "active"
      BY <1>1, <1>2, <2>2 DEF Spares
    <2> QED BY <2>1, <2>2, <2>4, <2>5, ManagerSteps
  <1>4. CASE CloseMini(p)
    <2> DEFINE n == destroy(Mgr, p)
    <2>1. SetMgr(n) /\ UNCHANGED <<mounted, calls>>
      BY <1>4 DEF CloseMini
    <2>2. MgrSound(n) /\ Spares(Mgr, n, p) /\ (n = Mgr \/ n.views = [Mgr.views EXCEPT ![p] = NoView])
      BY <1>1, DestroySound
    <2>3. Mgr.views \in [AllPanes -> ViewStates]
      BY <1>1, MgrParts
    <2> HIDE DEF n
    <2>4. Background(n.views) \subseteq Background(Mgr.views)
      BY <2>2, <2>3 DEF Background, NoView
    <2>5. Bounded(n)
      BY <1>1, <2>4, Fewer
    <2>6. \A q \in mounted : views[q].at = "active" => n.views[q].at = "active"
      BY <1>1, <1>2, <2>2 DEF Spares
    <2> QED BY <2>1, <2>2, <2>5, <2>6, ManagerSteps
  <1> QED BY <1>3, <1>4

\* A window takes its views with it, and no others.
LEMMA CloseWinKeeps ==
    ASSUME ViewsInv, NEW w \in Wins, CloseWin(w)
    PROVE  ViewsInv'
  <1> DEFINE gone == {p \in Panes : Owner[p] = w /\ views[p].at # "none"}
             vs == [p \in AllPanes |-> IF p \in gone THEN NoView ELSE views[p]]
             us == [p \in AllPanes |-> IF p \in gone THEN NoPage ELSE page[p]]
             o == Without(viewOrder, gone)
             tt == timers \ gone
             n == [Mgr EXCEPT !.views = vs, !.page = us, !.viewOrder = o, !.timers = tt]
             k == [views |-> vs, viewOrder |-> o, timers |-> tt, saved |-> saved, page |-> us]
  <1>1. /\ mounted' = {p \in mounted : Owner[p] # w} /\ calls' = [calls EXCEPT ![w] = <<>>]
        /\ SetMgr(n)
    BY DEF CloseWin, Mgr
  <1>2. OwnCalls(calls) /\ MgrSound(Mgr) /\ Bounded(Mgr) /\ mounted \subseteq Panes
    BY DEF ViewsInv
  <1>3. /\ views \in [AllPanes -> ViewStates] /\ viewOrder \in Seq(AllPanes) /\ timers \subseteq Background(views)
        /\ saved \in [AllPanes -> Pages \cup {NoPage}] /\ page \in [AllPanes -> Pages \cup {NoPage}]
    BY <1>2, MgrParts DEF Mgr
  <1>4. gone \subseteq AllPanes /\ \A p \in gone : views[p].at # "none" /\ Owner[p] = w
    BY DEF AllPanes
  <1>5. o \in Seq(AllPanes) /\ ToSet(o) = ToSet(viewOrder) \ gone
    BY <1>3, WithoutSet
  <1>6. NoView \in ViewStates /\ NoView.at = "none"
    BY DEF NoView, ViewStates
  <1>7. /\ vs \in [AllPanes -> ViewStates] /\ us \in [AllPanes -> Pages \cup {NoPage}]
        /\ \A p \in gone : vs[p] = NoView /\ us[p] = NoPage
        /\ \A p \in AllPanes \ gone : vs[p] = views[p] /\ us[p] = page[p]
    BY <1>3, <1>4, <1>6
  <1>8. Background(vs) \subseteq Background(views) /\ tt \subseteq Background(vs)
    <2> HIDE DEF vs, gone
    <2> QED BY <1>3, <1>4, <1>6, <1>7 DEF Background
  <1>9. \A p \in AllPanes : ViewKept(k, p)
    <2>1. ASSUME NEW p \in gone PROVE ViewKept(k, p)
      <3>1. ViewKept(Mgr, p)
        BY <1>2, <1>4 DEF MgrSound
      <3>2. saved[p] = NoPage
        BY <1>4, <2>1, <3>1 DEF ViewKept, Mgr
      <3> HIDE DEF vs, us, gone
      <3> QED BY <1>6, <1>7, <2>1, <3>2 DEF ViewKept
    <2>2. ASSUME NEW p \in AllPanes \ gone PROVE ViewKept(k, p)
      <3>1. ViewKept(Mgr, p)
        BY <1>2 DEF MgrSound
      <3> HIDE DEF vs, us, gone, o
      <3>2. vs[p] = views[p] /\ us[p] = page[p] /\ (p \in ToSet(viewOrder) => p \in ToSet(o))
        BY <1>5, <1>7, <2>2
      <3>3. /\ (views[p].at = "none" => page[p] = saved[p])
            /\ (views[p].at # "none" => views[p].url = page[p] /\ saved[p] = NoPage /\ p \in ToSet(viewOrder))
        BY <3>1 DEF ViewKept, Mgr
      <3> QED BY <3>2, <3>3 DEF ViewKept
    <2> HIDE DEF gone, k
    <2> QED BY <2>1, <2>2
  <1> HIDE DEF vs, us, o, tt, gone
  <1>10. n = k
    <2>1. Mgr = [views |-> views, viewOrder |-> viewOrder, timers |-> timers, saved |-> saved, page |-> page]
      BY DEF Mgr
    <2>2. n = [Mgr EXCEPT !.views = vs, !.viewOrder = o, !.timers = tt, !.page = us]
      OBVIOUS
    <2>3. saved = Mgr.saved
      BY <2>1
    <2> HIDE DEF n
    <2> QED BY <2>1, <2>2
  <1>11. k \in Mgrs
    <2>1. tt \subseteq AllPanes
      BY <1>8 DEF Background
    <2>2. ASSUME NEW a \in [AllPanes -> ViewStates], NEW b \in Seq(AllPanes), NEW c \in SUBSET AllPanes,
                 NEW d \in [AllPanes -> Pages \cup {NoPage}], NEW e \in [AllPanes -> Pages \cup {NoPage}]
          PROVE  [views |-> a, viewOrder |-> b, timers |-> c, saved |-> d, page |-> e] \in Mgrs
      BY DEF Mgrs
    <2> QED BY <1>3, <1>5, <1>7, <2>1, <2>2
  <1>12. k.views = vs /\ k.timers = tt
    OBVIOUS
  <1> HIDE DEF k, n
  <1>13. MgrSound(k)
    BY <1>8, <1>9, <1>11, <1>12 DEF MgrSound
  <1>14. Bounded(k)
    <2>1. Background(k.views) \subseteq Background(Mgr.views)
      BY <1>8, <1>12 DEF Mgr
    <2> QED BY <1>2, <2>1, Fewer
  <1>15. OwnCalls(calls')
    <2>1. /\ calls \in [Wins -> Seq(CallRecs)]
          /\ \A u \in Wins : \A i \in 1..Len(calls[u]) : Owner[calls[u][i].p] = u
      BY <1>2 DEF OwnCalls
    <2>2. <<>> \in Seq(CallRecs) /\ 1..Len(<<>>) = {}
      OBVIOUS
    <2>3. calls' \in [Wins -> Seq(CallRecs)]
      BY <1>1, <2>1, <2>2
    <2>4. ASSUME NEW u \in Wins, NEW i \in 1..Len(calls'[u]) PROVE Owner[calls'[u][i].p] = u
      BY <1>1, <2>1, <2>2
    <2> QED BY <2>3, <2>4 DEF OwnCalls
  <1>16. ASSUME NEW p \in mounted' PROVE Shown(p, calls'[Owner[p]], k.views)
    <2>1. p \in mounted /\ Owner[p] # w /\ p \in AllPanes /\ Owner[p] \in Wins
      BY <1>1, <1>2, ViewAssumption DEF AllPanes
    <2>2. calls'[Owner[p]] = calls[Owner[p]]
      BY <1>1, <1>2, <2>1 DEF OwnCalls
    <2>3. k.views[p] = views[p]
      BY <1>4, <1>7, <1>12, <2>1
    <2>4. Shown(p, calls[Owner[p]], views)
      BY <2>1 DEF ViewsInv
    <2>5. Shown(p, calls[Owner[p]], k.views)
      BY <2>3, <2>4, ShownKept
    <2> QED BY <2>2, <2>5
  <1>17. mounted' \subseteq Panes
    BY <1>1, <1>2
  <1> QED BY <1>1, <1>10, <1>13, <1>14, <1>15, <1>16, <1>17, ViewsStep

LEMMA ViewsStart ==
    ASSUME ViewsInit
    PROVE  ViewsInv
  <1>1. NoView \in ViewStates /\ NoView.at = "none"
    BY DEF NoView, ViewStates
  <1>2. /\ views \in [AllPanes -> ViewStates] /\ saved \in [AllPanes -> Pages \cup {NoPage}]
        /\ page \in [AllPanes -> Pages \cup {NoPage}] /\ timers \subseteq AllPanes
    BY <1>1 DEF ViewsInit
  <1>3. viewOrder \in Seq(AllPanes)
    <2>1. <<>> \in Seq(AllPanes)
      OBVIOUS
    <2> QED BY <2>1 DEF ViewsInit
  <1>4. Mgr \in Mgrs
    BY <1>2, <1>3 DEF Mgr, Mgrs
  <1>5. Background(views) = {}
    BY <1>1 DEF ViewsInit, Background
  <1>6. MgrSound(Mgr)
    <2>1. \A p \in AllPanes : ViewKept(Mgr, p)
      BY <1>1 DEF ViewsInit, ViewKept, Mgr
    <2>2. Mgr.timers \subseteq Background(Mgr.views)
      BY DEF ViewsInit, Mgr
    <2> QED BY <1>4, <2>1, <2>2 DEF MgrSound
  <1>7. Bounded(Mgr)
    <2>1. Background(Mgr.views) = {}
      BY <1>5 DEF Mgr
    <2>2. Cardinality({}) = 0
      BY FS_EmptySet
    <2> QED BY <2>1, <2>2, ViewAssumption DEF Bounded
  <1>8. OwnCalls(calls)
    <2>1. <<>> \in Seq(CallRecs) /\ 1..Len(<<>>) = {}
      OBVIOUS
    <2> QED BY <2>1 DEF ViewsInit, OwnCalls
  <1> QED BY <1>6, <1>7, <1>8 DEF ViewsInit, ViewsInv

LEMMA ViewsKeepInv ==
    ASSUME ViewsInv, [ViewsInput \/ ViewsProgress]_viewVars
    PROVE  ViewsInv'
  <1>1. CASE ViewsInput
    BY <1>1, RendererSteps, FollowLinkKeeps, MiniKeeps, CloseTabKeeps, CloseWinKeeps DEF ViewsInput
  <1>2. CASE ViewsProgress
    BY <1>2, HandleCallKeeps, IdleTimeoutKeeps, MemoryLimitKeeps DEF ViewsProgress
  <1>3. CASE UNCHANGED viewVars
    <2>1. UNCHANGED <<mounted, winOpen, calls, views, viewOrder, timers, saved, page>>
      BY <1>3 DEF viewVars
    <2>2. SetMgr(Mgr) /\ MgrSound(Mgr) /\ Bounded(Mgr) /\ Mgr.views = views
      BY <2>1 DEF ViewsInv, SetMgr, Mgr
    <2> QED BY <2>1, <2>2, ManagerSteps
  <1> QED BY <1>1, <1>2, <1>3

\* A shown pane has its view, at the page it was left at, and no more views
\* than the limit stay in the background (electron/browser-view-manager.ts).
THEOREM ViewsAlwaysSound == ViewsSpec => []ViewsSound
  <1>1. ViewsInv => ViewsSound
    <2>1. SUFFICES ASSUME ViewsInv, NEW p \in mounted, calls[Owner[p]] = <<>>
                   PROVE  views[p] = [at |-> "active", url |-> page[p]]
      BY <2>1 DEF ViewsInv, ViewsSound, ShownViewKept, BackgroundBounded, Bounded, Mgr
    <2>2. p \in AllPanes /\ Shown(p, calls[Owner[p]], views) /\ ViewKept(Mgr, p)
      <3>1. p \in AllPanes
        BY <2>1 DEF ViewsInv, AllPanes
      <3>2. Shown(p, calls[Owner[p]], views)
        BY <2>1 DEF ViewsInv
      <3>3. MgrSound(Mgr)
        BY <2>1 DEF ViewsInv
      <3>4. ViewKept(Mgr, p)
        BY <3>1, <3>3 DEF MgrSound
      <3> QED BY <3>1, <3>2, <3>4
    <2>3. views[p].at = "active"
      <3>1. \A i \in 1..Len(<<>>) : FALSE
        OBVIOUS
      <3> QED BY <2>1, <2>2, <3>1 DEF Shown
    <2>4. views[p].url = page[p]
      BY <2>2, <2>3 DEF ViewKept, Mgr
    <2>5. views \in [AllPanes -> ViewStates]
      BY <2>1, MgrParts DEF ViewsInv, Mgr
    <2>6. views[p] = [at |-> views[p].at, url |-> views[p].url]
      BY <2>2, <2>5 DEF ViewStates
    <2> QED BY <2>3, <2>4, <2>6
  <1> QED BY <1>1, ViewsStart, ViewsKeepInv, PTL DEF ViewsSpec

-----------------------------------------------------------------------------
(* SessionNames.  Whatever names a session anywhere, a frame, a payload or *)
(* the answer of a rename, is a name the session has had.                 *)

NameLists == [gen : Nat \ {0}, name : UNION {[D -> SessNames] : D \in SUBSET NameCodes}]
ShownPanes == [code : NameCodes, gen : Nat, name : SessNames, dead : BOOLEAN, record : SessNames]
Renames == [pane : NamePanes, code : NameCodes, gen : Nat, name : SessNames, at : {"sent", "done"}]

NamesTypeOK ==
    /\ server \in NameLists /\ known \in NameLists /\ lists \in Seq(NameLists)
    /\ shown \in [NamePanes -> ShownPanes] /\ renames \subseteq Renames

AllHad(s, h) == Now(s) \subseteq h

PaneTrue(c, h) == c.gen # NoGen => <<c.gen, c.code, c.name>> \in h

NamesInv ==
    /\ NamesTypeOK
    /\ AllHad(server, had) /\ AllHad(known, had)
    /\ \A i \in 1..Len(lists) : AllHad(lists[i], had)
    /\ \A r \in renames : r.at = "done" => <<r.gen, r.code, r.name>> \in had
    /\ \A p \in NamePanes : PaneTrue(shown[p], had)

LEMMA NamesStart ==
    ASSUME NamesInit
    PROVE  NamesInv
  <1>1. PICK f \in [NameCodes -> SessNames] :
              /\ server = [gen |-> 1, name |-> f] /\ known = server /\ had = Now(server)
              /\ \E c \in NameCodes, g \in {1, NoGen} :
                    shown = [p \in NamePanes |-> [code |-> c, gen |-> g, name |-> f[c], dead |-> FALSE, record |-> f[c]]]
    BY DEF NamesInit
  <1>2. renames = {} /\ lists = <<>>
    BY DEF NamesInit
  <1>3. server \in NameLists
    BY <1>1 DEF NameLists
  <1>4. lists \in Seq(NameLists) /\ 1..Len(lists) = {}
    <2>1. <<>> \in Seq(NameLists) /\ 1..Len(<<>>) = {}
      OBVIOUS
    <2> QED BY <1>2, <2>1
  <1>5. PICK c \in NameCodes, g \in {1, NoGen} :
              shown = [p \in NamePanes |-> [code |-> c, gen |-> g, name |-> f[c], dead |-> FALSE, record |-> f[c]]]
    BY <1>1
  <1>6. [code |-> c, gen |-> g, name |-> f[c], dead |-> FALSE, record |-> f[c]] \in ShownPanes
    BY DEF ShownPanes, NoGen
  <1>7. shown \in [NamePanes -> ShownPanes]
    BY <1>5, <1>6
  <1>8. \A p \in NamePanes : PaneTrue(shown[p], had)
    <2>1. <<1, c, f[c]>> \in had
      BY <1>1 DEF Now
    <2> QED BY <1>5, <2>1 DEF PaneTrue
  <1> QED BY <1>1, <1>2, <1>3, <1>4, <1>7, <1>8 DEF NamesInv, NamesTypeOK, AllHad

\* The sessions change on the server, and every name it shows is one of them.
LEMMA BecomesKeeps ==
    ASSUME NamesInv, NEW s \in NameLists, Becomes(s), UNCHANGED <<known, shown, target, lists>>,
           renames' \subseteq Renames,
           \A r \in renames' : r.at = "done" => r \in renames \/ <<r.gen, r.code, r.name>> \in Now(s)
    PROVE  NamesInv'
  <1>1. server' = s /\ had' = had \cup Now(s)
    BY DEF Becomes
  <1>2. NamesTypeOK'
    BY <1>1 DEF NamesInv, NamesTypeOK
  <1>3. AllHad(server, had)' /\ AllHad(known, had)' /\ \A i \in 1..Len(lists') : AllHad(lists'[i], had')
    BY <1>1 DEF NamesInv, AllHad
  <1>4. \A p \in NamePanes : PaneTrue(shown'[p], had')
    BY <1>1 DEF NamesInv, PaneTrue
  <1>5. \A r \in renames' : r.at = "done" => <<r.gen, r.code, r.name>> \in had'
    BY <1>1 DEF NamesInv
  <1> QED BY <1>2, <1>3, <1>4, <1>5 DEF NamesInv

LEMMA RenameDone ==
    ASSUME NEW r \in Renames, NEW a, NEW g, NEW s, s = [r EXCEPT !.at = a, !.gen = g]
    PROVE  s = [pane |-> r.pane, code |-> r.code, gen |-> g, name |-> r.name, at |-> a]
  <1>1. r = [pane |-> r.pane, code |-> r.code, gen |-> r.gen, name |-> r.name, at |-> r.at]
    BY DEF Renames
  <1> QED BY <1>1

LEMMA ServerSteps ==
    ASSUME NamesInv,
           \/ \E f \in [NameCodes -> SessNames] : Restart(f)
           \/ \E c \in NameCodes, n \in SessNames : RenamedElsewhere(c, n)
           \/ \E c \in NameCodes : SessionEnds(c)
           \/ \E r \in renames : DaemonRenames(r)
    PROVE  NamesInv'
  <1>1. server \in NameLists /\ renames \subseteq Renames
    BY DEF NamesInv, NamesTypeOK
  <1>2. PICK D \in SUBSET NameCodes : server.name \in [D -> SessNames]
    BY <1>1 DEF NameLists
  <1>3. server.gen \in Nat \ {0} /\ server = [gen |-> server.gen, name |-> server.name]
    BY <1>1 DEF NameLists
  <1>4. ASSUME NEW g \in Nat \ {0}, NEW E \in SUBSET NameCodes, NEW f \in [E -> SessNames]
        PROVE  [gen |-> g, name |-> f] \in NameLists
    BY DEF NameLists
  <1>5. ASSUME NEW f \in [NameCodes -> SessNames], Restart(f) PROVE NamesInv'
    <2>1. server.gen + 1 \in Nat \ {0}
      BY <1>3
    <2>2. [gen |-> server.gen + 1, name |-> f] \in NameLists
      BY <2>1, <1>4
    <2> QED BY <1>1, <1>5, <2>2, BecomesKeeps DEF Restart
  <1>6. ASSUME NEW c \in NameCodes, NEW n \in SessNames, RenamedElsewhere(c, n) PROVE NamesInv'
    <2> DEFINE f == [server.name EXCEPT ![c] = n]
               s == [gen |-> server.gen, name |-> f]
    <2>1. f \in [D -> SessNames]
      BY <1>2
    <2>2. s \in NameLists
      <3> HIDE DEF f
      <3> QED BY <1>3, <1>4, <2>1
    <2>3. [server EXCEPT !.name[c] = n] = s
      BY <1>3
    <2>4. Becomes(s) /\ UNCHANGED <<known, shown, target, renames, lists>>
      <3> HIDE DEF s
      <3> QED BY <1>6, <2>3 DEF RenamedElsewhere
    <2> HIDE DEF s
    <2> QED BY <1>1, <2>2, <2>4, BecomesKeeps
  <1>7. ASSUME NEW c \in NameCodes, SessionEnds(c) PROVE NamesInv'
    <2> DEFINE f == [d \in D \ {c} |-> server.name[d]]
               s == [gen |-> server.gen, name |-> f]
    <2>1. f \in [D \ {c} -> SessNames] /\ D \ {c} \in SUBSET NameCodes
      BY <1>2
    <2>2. s \in NameLists
      <3> HIDE DEF f
      <3> QED BY <1>3, <1>4, <2>1
    <2>3. [server EXCEPT !.name = [d \in DOMAIN @ \ {c} |-> @[d]]] = s
      <3>1. DOMAIN server.name = D
        BY <1>2
      <3>2. [server EXCEPT !.name = f] = s
        <4> HIDE DEF f
        <4> QED BY <1>3
      <3> QED BY <3>1, <3>2
    <2>4. Becomes(s) /\ UNCHANGED <<known, shown, target, renames, lists>>
      <3> HIDE DEF s
      <3> QED BY <1>7, <2>3 DEF SessionEnds
    <2> HIDE DEF s
    <2> QED BY <1>1, <2>2, <2>4, BecomesKeeps
  <1>8. ASSUME NEW r \in renames, DaemonRenames(r) PROVE NamesInv'
    <2> DEFINE f == [server.name EXCEPT ![r.code] = r.name]
               s == [gen |-> server.gen, name |-> f]
               q == [pane |-> r.pane, code |-> r.code, gen |-> server.gen, name |-> r.name, at |-> "done"]
    <2>1. /\ r.code \in DOMAIN server.name /\ Becomes([server EXCEPT !.name[r.code] = r.name])
          /\ renames' = (renames \ {r}) \cup {[r EXCEPT !.at = "done", !.gen = server.gen]}
          /\ UNCHANGED <<known, shown, target, lists>>
      BY <1>8 DEF DaemonRenames
    <2>2. /\ r = [pane |-> r.pane, code |-> r.code, gen |-> r.gen, name |-> r.name, at |-> r.at]
          /\ r.pane \in NamePanes /\ r.code \in NameCodes /\ r.name \in SessNames
      BY <1>1, <1>8 DEF Renames
    <2>3. [r EXCEPT !.at = "done", !.gen = server.gen] = q
      <3>1. r \in Renames
        BY <1>1, <1>8
      <3>2. \A x : x = [r EXCEPT !.at = "done", !.gen = server.gen] => x = q
        <4> TAKE x
        <4> QED BY <3>1, RenameDone
      <3> QED BY <3>2
    <2>4. q \in Renames
      BY <1>3, <2>2 DEF Renames
    <2>5. f \in [D -> SessNames] /\ f[r.code] = r.name /\ DOMAIN f = D /\ r.code \in D
      BY <1>2, <2>1, <2>2
    <2>6. s \in NameLists
      <3> HIDE DEF f
      <3> QED BY <1>3, <1>4, <2>5
    <2>7. <<q.gen, q.code, q.name>> \in Now(s)
      <3> HIDE DEF f
      <3> QED BY <2>5 DEF Now
    <2>8. [server EXCEPT !.name[r.code] = r.name] = s
      BY <1>3
    <2> HIDE DEF s, q, f
    <2>9. Becomes(s) /\ renames' = (renames \ {r}) \cup {q}
      BY <2>1, <2>3, <2>8
    <2> QED BY <1>1, <2>1, <2>4, <2>6, <2>7, <2>9, BecomesKeeps
  <1> QED BY <1>5, <1>6, <1>7, <1>8

\* The panes, the store and the frames take names that have been had.
LEMMA ClientKeeps ==
    ASSUME NamesInv, UNCHANGED <<server, had>>,
           known' \in NameLists, AllHad(known', had),
           lists' \in Seq(NameLists), \A i \in 1..Len(lists') : AllHad(lists'[i], had),
           shown' \in [NamePanes -> ShownPanes], \A p \in NamePanes : PaneTrue(shown'[p], had),
           renames' \subseteq Renames, \A r \in renames' : r \in renames \/ r.at = "sent"
    PROVE  NamesInv'
  <1>1. NamesTypeOK'
    BY DEF NamesInv, NamesTypeOK
  <1>2. \A r \in renames' : r.at = "done" => <<r.gen, r.code, r.name>> \in had
    BY DEF NamesInv
  <1> QED BY <1>1, <1>2 DEF NamesInv, AllHad

LEMMA PopoverSteps ==
    ASSUME NamesInv,
           \/ SendList \/ handleRenameCancel
           \/ \E p \in NamePanes : openRenameForTab(p)
           \/ \E r \in renames : RenameFailed(r)
           \/ \E p \in NamePanes, c \in NameCodes : handleOpen(p, c)
           \/ \E p \in NamePanes, n \in SessNames : commitName(p, n)
    PROVE  NamesInv'
  <1>1. /\ server \in NameLists /\ known \in NameLists /\ lists \in Seq(NameLists)
        /\ shown \in [NamePanes -> ShownPanes] /\ renames \subseteq Renames
        /\ AllHad(server, had) /\ AllHad(known, had)
        /\ \A i \in 1..Len(lists) : AllHad(lists[i], had)
        /\ \A p \in NamePanes : PaneTrue(shown[p], had)
    BY DEF NamesInv, NamesTypeOK
  <1>2. CASE SendList
    <2>1. lists' = Append(lists, server) /\ UNCHANGED <<server, had, known, shown, target, renames>>
      BY <1>2 DEF SendList
    <2>2. /\ lists' \in Seq(NameLists) /\ Len(lists') = Len(lists) + 1
          /\ \A i \in 1..Len(lists') : lists'[i] = IF i <= Len(lists) THEN lists[i] ELSE server
      BY <1>1, <2>1
    <2>3. \A i \in 1..Len(lists') : AllHad(lists'[i], had)
      BY <1>1, <2>2
    <2> QED BY <1>1, <2>1, <2>2, <2>3, ClientKeeps
  <1>3. CASE handleRenameCancel
    BY <1>1, <1>3, ClientKeeps DEF handleRenameCancel
  <1>4. CASE \E p \in NamePanes : openRenameForTab(p)
    BY <1>1, <1>4, ClientKeeps DEF openRenameForTab
  <1>5. CASE \E r \in renames : RenameFailed(r)
    BY <1>1, <1>5, ClientKeeps DEF RenameFailed
  <1>6. ASSUME NEW p \in NamePanes, NEW c \in NameCodes, handleOpen(p, c) PROVE NamesInv'
    <2> DEFINE q == [code |-> c, gen |-> known.gen, name |-> known.name[c], dead |-> FALSE, record |-> known.name[c]]
    <2>1. c \in DOMAIN known.name /\ shown' = [shown EXCEPT ![p] = q] /\ UNCHANGED <<server, had, known, target, renames, lists>>
      BY <1>6 DEF handleOpen
    <2>2. known.gen \in Nat /\ known.name[c] \in SessNames
      BY <1>1, <2>1 DEF NameLists
    <2>3. q \in ShownPanes
      BY <2>2 DEF ShownPanes
    <2>4. PaneTrue(q, had)
      BY <1>1, <2>1 DEF PaneTrue, AllHad, Now
    <2> HIDE DEF q
    <2>5. shown' \in [NamePanes -> ShownPanes] /\ \A a \in NamePanes : PaneTrue(shown'[a], had)
      BY <1>1, <2>1, <2>3, <2>4
    <2> QED BY <1>1, <2>1, <2>5, ClientKeeps
  <1>7. ASSUME NEW p \in NamePanes, NEW n \in SessNames, commitName(p, n) PROVE NamesInv'
    <2>1. UNCHANGED <<server, had, known, target, lists>>
      BY <1>7 DEF commitName
    <2>2. CASE handleEditRebuildField(p, n)
      <3> DEFINE q == [shown[p] EXCEPT !.record = n]
      <3>1. shown' = [shown EXCEPT ![p].record = n] /\ UNCHANGED renames
        BY <2>2 DEF handleEditRebuildField
      <3>2. q \in ShownPanes /\ q.gen = shown[p].gen /\ q.code = shown[p].code /\ q.name = shown[p].name
        BY <1>1 DEF ShownPanes
      <3>3. shown' = [shown EXCEPT ![p] = q]
        BY <3>1
      <3>4. PaneTrue(q, had)
        BY <1>1, <3>2 DEF PaneTrue
      <3> HIDE DEF q
      <3>5. shown' \in [NamePanes -> ShownPanes] /\ \A a \in NamePanes : PaneTrue(shown'[a], had)
        BY <1>1, <3>2, <3>3, <3>4
      <3> QED BY <1>1, <2>1, <3>1, <3>5, ClientKeeps
    <2>3. CASE /\ renames' = renames \cup {[pane |-> p, code |-> shown[p].code, gen |-> shown[p].gen, name |-> n, at |-> "sent"]}
               /\ UNCHANGED shown
      <3> DEFINE q == [pane |-> p, code |-> shown[p].code, gen |-> shown[p].gen, name |-> n, at |-> "sent"]
      <3>1. shown[p].code \in NameCodes /\ shown[p].gen \in Nat
        BY <1>1 DEF ShownPanes
      <3>2. q \in Renames /\ q.at = "sent"
        BY <3>1 DEF Renames
      <3>3. renames' = renames \cup {q} /\ UNCHANGED shown
        BY <2>3
      <3> HIDE DEF q
      <3> QED BY <1>1, <2>1, <3>2, <3>3, ClientKeeps
    <2> QED BY <1>7, <2>2, <2>3 DEF commitName
  <1> QED BY <1>2, <1>3, <1>4, <1>5, <1>6, <1>7

\* An answer names the session it renamed, and only its panes take the name.
LEMMA AnswerKeeps ==
    ASSUME NamesInv, NEW r \in renames, renameBoundSession(r)
    PROVE  NamesInv'
  <1>1. /\ known \in NameLists /\ lists \in Seq(NameLists)
        /\ shown \in [NamePanes -> ShownPanes] /\ renames \subseteq Renames
        /\ AllHad(known, had) /\ \A i \in 1..Len(lists) : AllHad(lists[i], had)
        /\ \A p \in NamePanes : PaneTrue(shown[p], had)
    BY DEF NamesInv, NamesTypeOK
  <1>2. /\ r.at = "done" /\ renames' = renames \ {r}
        /\ shown' = updateSessionCache(shown, r.code, r.name, r.gen) /\ UNCHANGED <<server, had, known, lists>>
    BY DEF renameBoundSession
  <1>3. <<r.gen, r.code, r.name>> \in had
    BY <1>2 DEF NamesInv
  <1>4. r.name \in SessNames /\ r.gen \in Nat
    BY <1>1 DEF Renames
  <1>5. ASSUME NEW p \in NamePanes PROVE shown'[p] \in ShownPanes /\ PaneTrue(shown'[p], had)
    <2>1. CASE sessionBindingMatches(shown[p], r.code, r.gen)
      <3> DEFINE q == [shown[p] EXCEPT !.name = r.name, !.record = r.name]
      <3>1. shown'[p] = q
        BY <1>2, <2>1 DEF updateSessionCache, applySessionName
      <3>2. q \in ShownPanes /\ q.gen = shown[p].gen /\ q.code = r.code /\ q.name = r.name
        BY <1>1, <1>4, <2>1 DEF ShownPanes, sessionBindingMatches
      <3>3. shown[p].gen # NoGen => shown[p].gen = r.gen
        BY <2>1 DEF sessionBindingMatches
      <3> HIDE DEF q
      <3> QED BY <1>3, <3>1, <3>2, <3>3 DEF PaneTrue
    <2>2. CASE ~sessionBindingMatches(shown[p], r.code, r.gen)
      BY <1>1, <1>2, <2>2 DEF updateSessionCache
    <2> QED BY <2>1, <2>2
  <1>6. shown' \in [NamePanes -> ShownPanes]
    <2>1. shown' = [p \in NamePanes |-> shown'[p]]
      BY <1>2 DEF updateSessionCache
    <2> QED BY <1>5, <2>1
  <1> QED BY <1>1, <1>2, <1>5, <1>6, ClientKeeps

\* A frame gives its panes the names it carries, whatever server they are of.
LEMMA ListKeeps ==
    ASSUME NamesInv, ListArrives
    PROVE  NamesInv'
  <1> DEFINE f == Head(lists)
             adopt(c) == IF c.gen = NoGen /\ ~c.dead /\ c.code \in DOMAIN f.name THEN [c EXCEPT !.gen = f.gen] ELSE c
             named(c) == IF c.code \in DOMAIN f.name /\ sessionBindingMatches(c, c.code, f.gen)
                         THEN applySessionName(c, f.name[c.code]) ELSE c
             ended(c) == c.code \notin DOMAIN f.name \/ c.gen \notin {f.gen, NoGen}
  <1>1. /\ lists \in Seq(NameLists) /\ shown \in [NamePanes -> ShownPanes] /\ renames \subseteq Renames
        /\ \A i \in 1..Len(lists) : AllHad(lists[i], had)
        /\ \A p \in NamePanes : PaneTrue(shown[p], had)
    BY DEF NamesInv, NamesTypeOK
  <1>2. /\ lists # <<>> /\ known' = f /\ lists' = Tail(lists) /\ UNCHANGED <<server, had, target, renames>>
        /\ shown' = [p \in NamePanes |-> [named(adopt(shown[p])) EXCEPT !.dead = @ \/ ended(shown[p])]]
    BY DEF ListArrives
  <1>3. /\ f \in NameLists /\ AllHad(f, had)
        /\ lists' \in Seq(NameLists) /\ \A i \in 1..Len(lists') : AllHad(lists'[i], had)
    BY <1>1, <1>2
  <1>4. f.gen \in Nat \ {0} /\ \A c \in DOMAIN f.name : f.name[c] \in SessNames /\ <<f.gen, c, f.name[c]>> \in had
    BY <1>3 DEF NameLists, AllHad, Now
  <1> HIDE DEF f
  <1>5. ASSUME NEW c \in ShownPanes, PaneTrue(c, had)
        PROVE  /\ adopt(c) \in ShownPanes /\ adopt(c).code = c.code
               /\ adopt(c) = c \/ (adopt(c).gen = f.gen /\ c.code \in DOMAIN f.name)
    <2>1. CASE c.gen = NoGen /\ ~c.dead /\ c.code \in DOMAIN f.name
      BY <1>4, <2>1 DEF ShownPanes
    <2>2. CASE ~(c.gen = NoGen /\ ~c.dead /\ c.code \in DOMAIN f.name)
      BY <2>2
    <2> QED BY <2>1, <2>2
  <1>6. ASSUME NEW c \in ShownPanes, PaneTrue(c, had) \/ (c.gen = f.gen /\ c.code \in DOMAIN f.name)
        PROVE  named(c) \in ShownPanes /\ PaneTrue(named(c), had)
    <2>1. CASE c.code \in DOMAIN f.name /\ sessionBindingMatches(c, c.code, f.gen)
      <3> DEFINE q == [c EXCEPT !.name = f.name[c.code], !.record = f.name[c.code]]
      <3>1. named(c) = q
        BY <2>1 DEF applySessionName
      <3>2. f.name[c.code] \in SessNames /\ <<f.gen, c.code, f.name[c.code]>> \in had /\ c.gen \in {f.gen, NoGen}
        BY <1>4, <2>1 DEF sessionBindingMatches
      <3>3. q \in ShownPanes /\ q.gen = c.gen /\ q.code = c.code /\ q.name = f.name[c.code]
        BY <3>2 DEF ShownPanes
      <3> HIDE DEF q, named
      <3> QED BY <3>1, <3>2, <3>3 DEF PaneTrue
    <2>2. CASE ~(c.code \in DOMAIN f.name /\ sessionBindingMatches(c, c.code, f.gen))
      BY <1>6, <2>2 DEF sessionBindingMatches
    <2> QED BY <2>1, <2>2
  <1> HIDE DEF adopt, named
  <1>7. ASSUME NEW p \in NamePanes PROVE shown'[p] \in ShownPanes /\ PaneTrue(shown'[p], had)
    <2> DEFINE c == named(adopt(shown[p]))
               b == c.dead \/ ended(shown[p])
    <2>1. c \in ShownPanes /\ PaneTrue(c, had)
      BY <1>1, <1>5, <1>6
    <2>2. b \in BOOLEAN
      <3>1. c.dead \in BOOLEAN
        BY <2>1 DEF ShownPanes
      <3> HIDE DEF c
      <3> QED BY <3>1
    <2>3. shown'[p] = [c EXCEPT !.dead = b]
      BY <1>2
    <2> HIDE DEF b, c
    <2> QED BY <2>1, <2>2, <2>3 DEF ShownPanes, PaneTrue
  <1>8. shown' \in [NamePanes -> ShownPanes]
    <2>1. shown' = [p \in NamePanes |-> shown'[p]]
      BY <1>2
    <2> QED BY <1>7, <2>1
  <1> QED BY <1>1, <1>2, <1>3, <1>7, <1>8, ClientKeeps

LEMMA NamesKeepInv ==
    ASSUME NamesInv, [NamesInput \/ NamesProgress]_nameVars
    PROVE  NamesInv'
  <1>1. CASE NamesInput
    BY <1>1, ServerSteps, PopoverSteps DEF NamesInput
  <1>2. CASE NamesProgress
    BY <1>2, ServerSteps, PopoverSteps, AnswerKeeps, ListKeeps DEF NamesProgress
  <1>3. CASE UNCHANGED nameVars
    BY <1>3 DEF nameVars, NamesInv, NamesTypeOK, AllHad, PaneTrue, Now
  <1> QED BY <1>1, <1>2, <1>3

\* A pane that knows its tmux server shows a name its session has had,
\* however late a frame or the answer of a rename arrives.
THEOREM NamesAlwaysTrue == NamesSpec => []NamesTrue
  <1>1. NamesInv => NamesTrue
    BY DEF NamesInv, NamesTrue, PaneTrue
  <1> QED BY <1>1, NamesStart, NamesKeepInv, PTL DEF NamesSpec

-----------------------------------------------------------------------------
(* CommandSlots.  A click that waits for its picker is the one its place  *)
(* works on; a click that has its session to make or its keys to send     *)
(* names a host; keys belong to a click, and those of the page went to the *)
(* host it names.                                                         *)

ClickStates == {"picking", "creating", "sending", "done", "attached", "shown", "unsent"}
ClickRecs ==
    [place : Places, cmd : Cmds, asked : SlotHosts \cup {NoHost}, made : SlotHosts \cup {NoHost},
     inWs : BOOLEAN, at : ClickStates]
PlaceRecs == [mounted : BOOLEAN, run : Nat]

SlotsTypeOK ==
    /\ slotHosts \subseteq SlotHosts /\ activeHost \in SlotHosts /\ wsLive \in BOOLEAN
    /\ wsTabs \in Seq(SlotHosts) /\ place \in [Places -> PlaceRecs] /\ clicks \in Seq(ClickRecs)
    /\ global \subseteq Cmds /\ bindings \in [Cmds -> SUBSET {"workspace", "host"}]
    /\ retryToast \in 0..Len(clicks)

PlacesSound(pl, cs) ==
    \A p \in Places : pl[p].run \in 0..Len(cs) /\ (~pl[p].mounted => pl[p].run = 0)

PickersShown(pl, cs) ==
    \A n \in 1..Len(cs) : cs[n].at = "picking" => cs[n].place \in WorkspacePlaces /\ pl[cs[n].place].run = n

HostsNamed(cs) == \A n \in 1..Len(cs) : cs[n].at \in {"creating", "sending"} => cs[n].asked \in SlotHosts

KeyHome(s, cs) == s.click \in 1..Len(cs) /\ (cs[s.click].place = "page" => s.to = cs[s.click].asked)

SlotsInv ==
    /\ SlotsTypeOK /\ PlacesSound(place, clicks) /\ PickersShown(place, clicks) /\ HostsNamed(clicks)
    /\ \A s \in keysSent : KeyHome(s, clicks)
    /\ BindingsSound

LEMMA SlotsStart ==
    ASSUME SlotsInit
    PROVE  SlotsInv
  <1>1. clicks = <<>> /\ keysSent = {} /\ retryToast = 0
    BY DEF SlotsInit
  <1>2. clicks \in Seq(ClickRecs) /\ Len(clicks) = 0 /\ 1..Len(clicks) = {}
    <2>1. <<>> \in Seq(ClickRecs) /\ Len(<<>>) = 0
      OBVIOUS
    <2> QED BY <1>1, <2>1
  <1>3. wsTabs \in Seq(SlotHosts)
    <2>1. <<>> \in Seq(SlotHosts) /\ \A h \in SlotHosts : <<h>> \in Seq(SlotHosts)
      OBVIOUS
    <2> QED BY <2>1 DEF SlotsInit
  <1>4. Unmounted \in PlaceRecs /\ Unmounted.run = 0
    BY DEF Unmounted, PlaceRecs
  <1>5. place \in [Places -> PlaceRecs] /\ PlacesSound(place, clicks)
    BY <1>2, <1>4 DEF SlotsInit, PlacesSound
  <1>6. bindings \in [Cmds -> SUBSET {"workspace", "host"}]
    BY DEF SlotsInit
  <1> QED BY <1>1, <1>2, <1>3, <1>5, <1>6 DEF SlotsInit, SlotsInv, SlotsTypeOK, PickersShown, HostsNamed, BindingsSound

-----------------------------------------------------------------------------
\* What a step may do to the clicks under way.
Later(k, cs) ==
    /\ k \in Seq(ClickRecs) /\ Len(k) = Len(cs)
    /\ \A n \in 1..Len(cs) :
          /\ k[n].place = cs[n].place /\ k[n].asked = cs[n].asked
          /\ k[n].at \in {"creating", "sending"} => cs[n].at \in {"creating", "sending"}
          /\ k[n].at = "picking" => cs[n].at = "picking"

\* The two questions a step answers for the clicks and their places.
LEMMA SlotsStep ==
    ASSUME SlotsInv, Later(clicks', clicks), UNCHANGED <<slotHosts, activeHost, global, bindings>>,
           place' \in [Places -> PlaceRecs], PlacesSound(place', clicks),
           \A n \in 1..Len(clicks) : clicks'[n].at = "picking" => place'[clicks[n].place].run = n,
           \A s \in keysSent' : s \in keysSent \/ KeyHome(s, clicks),
           wsTabs' \in Seq(SlotHosts), wsLive' \in BOOLEAN, retryToast' \in 0..Len(clicks)
    PROVE  SlotsInv'
  <1>1. /\ clicks' \in Seq(ClickRecs) /\ Len(clicks') = Len(clicks)
        /\ \A n \in 1..Len(clicks) :
              /\ clicks'[n].place = clicks[n].place /\ clicks'[n].asked = clicks[n].asked
              /\ clicks'[n].at \in {"creating", "sending"} => clicks[n].at \in {"creating", "sending"}
              /\ clicks'[n].at = "picking" => clicks[n].at = "picking"
    BY DEF Later
  <1>2. SlotsTypeOK'
    BY <1>1 DEF SlotsInv, SlotsTypeOK
  <1>3. PlacesSound(place', clicks')
    BY <1>1 DEF PlacesSound
  <1>4. PickersShown(place', clicks')
    BY <1>1 DEF SlotsInv, PickersShown
  <1>5. HostsNamed(clicks')
    <2>1. ASSUME NEW n \in 1..Len(clicks), clicks'[n].at \in {"creating", "sending"}
          PROVE  clicks[n].at \in {"creating", "sending"}
      BY <1>1, <2>1
    <2> QED BY <1>1, <2>1 DEF SlotsInv, HostsNamed
  <1>6. \A s \in keysSent' : KeyHome(s, clicks')
    BY <1>1 DEF SlotsInv, KeyHome
  <1>7. BindingsSound'
    BY DEF SlotsInv, BindingsSound
  <1> QED BY <1>2, <1>3, <1>4, <1>5, <1>6, <1>7 DEF SlotsInv

PutIn(k, cs, n, at) == k = [cs EXCEPT ![n].at = at]

LEMMA PutLater ==
    ASSUME NEW cs \in Seq(ClickRecs), NEW n \in 1..Len(cs), NEW at \in ClickStates \ {"picking"},
           at \in {"creating", "sending"} => cs[n].at \in {"creating", "sending"},
           NEW k, PutIn(k, cs, n, at)
    PROVE  /\ Later(k, cs) /\ k[n].at = at
           /\ \A m \in 1..Len(cs) : m # n => k[m] = cs[m]
  <1> DEFINE c == [cs[n] EXCEPT !.at = at]
  <1>1. cs[n] \in ClickRecs
    OBVIOUS
  <1>2. c \in ClickRecs /\ c.place = cs[n].place /\ c.asked = cs[n].asked /\ c.at = at
    BY <1>1 DEF ClickRecs
  <1>3. k = [cs EXCEPT ![n] = c]
    BY DEF PutIn
  <1> HIDE DEF c
  <1>4. k \in Seq(ClickRecs) /\ Len(k) = Len(cs) /\ \A m \in 1..Len(cs) : k[m] = IF m = n THEN c ELSE cs[m]
    BY <1>2, <1>3
  <1>5. ASSUME NEW m \in 1..Len(cs)
        PROVE  /\ k[m].place = cs[m].place /\ k[m].asked = cs[m].asked
               /\ k[m].at \in {"creating", "sending"} => cs[m].at \in {"creating", "sending"}
               /\ k[m].at = "picking" => cs[m].at = "picking"
    <2>1. CASE m = n
      BY <1>2, <1>4, <2>1
    <2>2. CASE m # n
      BY <1>4, <2>2
    <2> QED BY <2>1, <2>2
  <1> QED BY <1>2, <1>4, <1>5 DEF Later

LEMMA LaterSelf ==
    ASSUME NEW cs \in Seq(ClickRecs)
    PROVE  Later(cs, cs)
  BY DEF Later

LEMMA LaterTwice ==
    ASSUME NEW a, NEW b, NEW c, Later(b, a), Later(c, b)
    PROVE  Later(c, a)
  <1>1. /\ c \in Seq(ClickRecs) /\ Len(c) = Len(b) /\ Len(b) = Len(a)
    BY DEF Later
  <1>2. ASSUME NEW n \in 1..Len(a)
        PROVE  /\ c[n].place = a[n].place /\ c[n].asked = a[n].asked
               /\ c[n].at \in {"creating", "sending"} => a[n].at \in {"creating", "sending"}
               /\ c[n].at = "picking" => a[n].at = "picking"
    <2>1. /\ b[n].place = a[n].place /\ b[n].asked = a[n].asked
          /\ b[n].at \in {"creating", "sending"} => a[n].at \in {"creating", "sending"}
          /\ b[n].at = "picking" => a[n].at = "picking"
      BY DEF Later
    <2>2. /\ c[n].place = b[n].place /\ c[n].asked = b[n].asked
          /\ c[n].at \in {"creating", "sending"} => b[n].at \in {"creating", "sending"}
          /\ c[n].at = "picking" => b[n].at = "picking"
      BY <1>1 DEF Later
    <2> QED BY <2>1, <2>2
  <1> QED BY <1>1, <1>2 DEF Later

\* A place that goes away settles the picker it shows, and nothing else.
LEMMA SettledLater ==
    ASSUME NEW cs \in Seq(ClickRecs), NEW p \in Places, place[p].run \in 0..Len(cs), NEW k, k = Settled(p, cs)
    PROVE  /\ Later(k, cs)
           /\ \A n \in 1..Len(cs) : place[p].run = n => k[n].at # "picking"
           /\ \A n \in 1..Len(cs) : place[p].run # n => k[n] = cs[n]
  <1> DEFINE m == place[p].run
  <1>1. CASE m # 0 /\ cs[m].at = "picking"
    <2>1. PutIn(k, cs, m, "done")
      BY <1>1 DEF Settled, PutIn
    <2>2. m \in 1..Len(cs)
      BY <1>1
    <2> HIDE DEF m
    <2>3. /\ Later(k, cs) /\ k[m].at = "done"
          /\ \A n \in 1..Len(cs) : n # m => k[n] = cs[n]
      <3>1. "done" \in ClickStates \ {"picking"} /\ "done" \notin {"creating", "sending"}
        BY DEF ClickStates
      <3> QED BY <2>1, <2>2, <3>1, PutLater
    <2> QED BY <2>3 DEF m
  <1>2. CASE ~(m # 0 /\ cs[m].at = "picking")
    <2>1. k = cs
      BY <1>2 DEF Settled
    <2> QED BY <1>2, <2>1, LaterSelf
  <1> QED BY <1>1, <1>2

LEMMA SlotsParts ==
    ASSUME SlotsInv
    PROVE  /\ clicks \in Seq(ClickRecs) /\ place \in [Places -> PlaceRecs] /\ wsTabs \in Seq(SlotHosts)
           /\ wsLive \in BOOLEAN /\ retryToast \in 0..Len(clicks) /\ Len(clicks) \in Nat
           /\ slotHosts \subseteq SlotHosts /\ activeHost \in SlotHosts
           /\ \A p \in Places : place[p].run \in 0..Len(clicks) /\ (~place[p].mounted => place[p].run = 0)
           /\ \A n \in 1..Len(clicks) :
                 /\ clicks[n] \in ClickRecs
                 /\ clicks[n].at = "picking" => clicks[n].place \in WorkspacePlaces /\ place[clicks[n].place].run = n
                 /\ clicks[n].at \in {"creating", "sending"} => clicks[n].asked \in SlotHosts
  <1>1. clicks \in Seq(ClickRecs)
    BY DEF SlotsInv, SlotsTypeOK
  <1>2. Len(clicks) \in Nat /\ \A n \in 1..Len(clicks) : clicks[n] \in ClickRecs
    BY <1>1
  <1> QED BY <1>1, <1>2 DEF SlotsInv, SlotsTypeOK, PlacesSound, PickersShown, HostsNamed

\* A place is freed, or goes away, with its run.
LEMMA FreedPlaces ==
    ASSUME SlotsInv, NEW pl \in [Places -> PlaceRecs],
           \A p \in Places : pl[p] = place[p] \/ pl[p].run = 0
    PROVE  PlacesSound(pl, clicks)
  BY SlotsParts DEF PlacesSound

LEMMA MountKeeps ==
    ASSUME SlotsInv, NEW p \in Places, Mount(p) \/ Unmount(p)
    PROVE  SlotsInv'
  <1>1. Unmounted \in PlaceRecs /\ Unmounted.run = 0 /\ [mounted |-> TRUE, run |-> 0] \in PlaceRecs
    BY DEF Unmounted, PlaceRecs
  <1>2. CASE Mount(p)
    <2>1. /\ ~place[p].mounted /\ place' = [place EXCEPT ![p] = [mounted |-> TRUE, run |-> 0]]
          /\ UNCHANGED <<slotHosts, activeHost, bindings, global, wsLive, wsTabs, clicks, keysSent, retryToast>>
      BY <1>2 DEF Mount, worldVars, cmdVars
    <2>2. place[p].run = 0
      BY <2>1, SlotsParts
    <2>3. place' \in [Places -> PlaceRecs] /\ \A q \in Places : place'[q].run = place[q].run
      BY <1>1, <2>1, <2>2, SlotsParts
    <2>4. PlacesSound(place', clicks)
      <3>1. \A q \in Places : place'[q] = place[q] \/ place'[q].run = 0
        BY <2>1, SlotsParts
      <3> QED BY <2>3, <3>1, FreedPlaces
    <2>5. \A n \in 1..Len(clicks) : clicks'[n].at = "picking" => place'[clicks[n].place].run = n
      <3>1. WorkspacePlaces \subseteq Places
        BY DEF Places
      <3> QED BY <2>1, <2>3, <3>1, SlotsParts
    <2>6. Later(clicks', clicks)
      BY <2>1, LaterSelf, SlotsParts
    <2> QED BY <2>1, <2>3, <2>4, <2>5, <2>6, SlotsParts, SlotsStep
  <1>3. CASE Unmount(p)
    <2>1. /\ place' = [place EXCEPT ![p] = Unmounted] /\ clicks' = Settled(p, clicks)
          /\ UNCHANGED <<slotHosts, activeHost, bindings, global, wsLive, wsTabs, keysSent, retryToast>>
      BY <1>3 DEF Unmount, worldVars, cmdVars
    <2>2. /\ Later(clicks', clicks)
          /\ \A n \in 1..Len(clicks) : place[p].run = n => clicks'[n].at # "picking"
      BY <2>1, SlotsParts, SettledLater
    <2>3. place' \in [Places -> PlaceRecs] /\ \A q \in Places : place'[q] = IF q = p THEN Unmounted ELSE place[q]
      BY <1>1, <2>1, SlotsParts
    <2>4. PlacesSound(place', clicks)
      BY <1>1, <2>3, FreedPlaces
    <2>5. \A n \in 1..Len(clicks) : clicks'[n].at = "picking" => place'[clicks[n].place].run = n
      <3>1. SUFFICES ASSUME NEW n \in 1..Len(clicks), clicks'[n].at = "picking"
                     PROVE  place'[clicks[n].place].run = n
        OBVIOUS
      <3>2. clicks[n].at = "picking"
        BY <2>2, <3>1 DEF Later
      <3>3. clicks[n].place \in Places /\ place[clicks[n].place].run = n
        BY <3>2, SlotsParts DEF Places
      <3>4. clicks[n].place # p
        BY <2>2, <3>1, <3>3
      <3> QED BY <2>3, <3>3, <3>4
    <2> QED BY <2>1, <2>2, <2>3, <2>4, <2>5, SlotsParts, SlotsStep
  <1> QED BY <1>2, <1>3

\* The workspace takes both its places, and their pickers, with it.
LEMMA WorkspaceRemovedKeeps ==
    ASSUME SlotsInv, WorkspaceRemoved
    PROVE  SlotsInv'
  <1> DEFINE k == Settled("menu", clicks)
  <1>1. /\ wsLive' = FALSE /\ wsTabs' = <<>>
        /\ place' = [p \in Places |-> IF p \in WorkspacePlaces THEN Unmounted ELSE place[p]]
        /\ clicks' = Settled("popover", k)
        /\ UNCHANGED <<slotHosts, activeHost, bindings, global, keysSent, retryToast>>
    BY DEF WorkspaceRemoved, worldVars, cmdVars
  <1>2. "menu" \in Places /\ "popover" \in Places /\ WorkspacePlaces = {"popover", "menu"} /\ WorkspacePlaces \subseteq Places
    BY DEF Places, WorkspacePlaces
  <1>3. /\ Later(k, clicks)
        /\ \A n \in 1..Len(clicks) : place["menu"].run = n => k[n].at # "picking"
    BY <1>2, SlotsParts, SettledLater
  <1> HIDE DEF k
  <1>4. k \in Seq(ClickRecs) /\ Len(k) = Len(clicks)
    BY <1>3 DEF Later
  <1>5. /\ Later(clicks', k)
        /\ \A n \in 1..Len(clicks) : place["popover"].run = n => clicks'[n].at # "picking"
    BY <1>1, <1>2, <1>4, SlotsParts, SettledLater
  <1>6. Later(clicks', clicks)
    BY <1>3, <1>5, LaterTwice
  <1>7. Unmounted \in PlaceRecs /\ Unmounted.run = 0
    BY DEF Unmounted, PlaceRecs
  <1>8. place' \in [Places -> PlaceRecs] /\ PlacesSound(place', clicks)
    <2>1. place' \in [Places -> PlaceRecs] /\ \A p \in Places : place'[p] = place[p] \/ place'[p].run = 0
      BY <1>1, <1>7, SlotsParts
    <2> QED BY <2>1, FreedPlaces
  <1>9. \A n \in 1..Len(clicks) : clicks'[n].at # "picking"
    <2>1. SUFFICES ASSUME NEW n \in 1..Len(clicks), clicks'[n].at = "picking" PROVE FALSE
      OBVIOUS
    <2>2. k[n].at = "picking"
      BY <1>4, <1>5, <2>1 DEF Later
    <2>3. clicks[n].at = "picking"
      BY <1>3, <2>2 DEF Later
    <2>4. clicks[n].place \in WorkspacePlaces /\ place[clicks[n].place].run = n
      BY <2>3, SlotsParts
    <2> QED BY <1>2, <1>3, <1>5, <2>1, <2>2, <2>4
  <1>10. wsTabs' \in Seq(SlotHosts) /\ wsLive' \in BOOLEAN
    <2>1. <<>> \in Seq(SlotHosts)
      OBVIOUS
    <2> QED BY <1>1, <2>1
  <1> QED BY <1>1, <1>6, <1>8, <1>9, <1>10, SlotsParts, SlotsStep

\* A run that is over frees its place and closes the menu, with the picker
\* of the menu that is open by then.
LEMMA FinishedKeeps ==
    ASSUME SlotsInv, NEW n \in 1..Len(clicks), NEW at \in {"done", "attached", "shown", "unsent"}, Finished(n, at),
           UNCHANGED <<slotHosts, activeHost, global, bindings, wsLive, keysSent>>,
           wsTabs' \in Seq(SlotHosts), retryToast' \in 0..Len(clicks)
    PROVE  SlotsInv'
  <1> DEFINE cs == Put(n, at)
  <1>1. /\ place' = Freed(n)
        /\ clicks' = IF clicks[n].place = "menu" /\ place["menu"].run # n THEN Settled("menu", cs) ELSE cs
    BY DEF Finished
  <1>2. /\ Later(cs, clicks) /\ cs[n].at = at /\ \A m \in 1..Len(clicks) : m # n => cs[m] = clicks[m]
    <2>1. at \in ClickStates \ {"picking"} /\ at \notin {"creating", "sending"}
      BY DEF ClickStates
    <2>2. PutIn(cs, clicks, n, at)
      BY DEF PutIn, Put
    <2> HIDE DEF cs
    <2> QED BY <2>1, <2>2, SlotsParts, PutLater
  <1> HIDE DEF cs
  <1>3. cs \in Seq(ClickRecs) /\ Len(cs) = Len(clicks) /\ "menu" \in Places /\ WorkspacePlaces \subseteq Places
    BY <1>2 DEF Later, Places, WorkspacePlaces
  <1>4. /\ Later(Settled("menu", cs), cs)
        /\ \A m \in 1..Len(cs) : place["menu"].run = m => Settled("menu", cs)[m].at # "picking"
    BY <1>3, SlotsParts, SettledLater
  <1>5. Later(clicks', clicks)
    BY <1>1, <1>2, <1>4, LaterTwice
  <1>6. Unmounted \in PlaceRecs /\ Unmounted.run = 0
    BY DEF Unmounted, PlaceRecs
  <1>7. /\ place' \in [Places -> PlaceRecs] /\ \A p \in Places : place'[p] = place[p] \/ place'[p].run = 0
        /\ \A p \in Places : clicks[n].place # p => place'[p] = place[p]
        /\ \A p \in Places : p # "menu" /\ place[p].run # n => place'[p] = place[p]
    <2>1. ASSUME NEW p \in Places
          PROVE  /\ Freed(n)[p] \in PlaceRecs /\ (Freed(n)[p] = place[p] \/ Freed(n)[p].run = 0)
                 /\ clicks[n].place # p => Freed(n)[p] = place[p]
                 /\ p # "menu" /\ place[p].run # n => Freed(n)[p] = place[p]
      <3>1. place[p] \in PlaceRecs
        BY SlotsParts
      <3>2. [place[p] EXCEPT !.run = 0] \in PlaceRecs /\ [place[p] EXCEPT !.run = 0].run = 0
        BY <3>1 DEF PlaceRecs
      <3>3. Freed(n)[p] = IF clicks[n].place # p THEN place[p]
                          ELSE IF p = "menu" THEN Unmounted
                          ELSE IF place[p].run = n THEN [place[p] EXCEPT !.run = 0] ELSE place[p]
        BY DEF Freed
      <3> QED BY <1>6, <3>1, <3>2, <3>3
    <2>2. place' = [p \in Places |-> Freed(n)[p]]
      BY <1>1 DEF Freed
    <2> QED BY <2>1, <2>2
  <1>8. PlacesSound(place', clicks)
    BY <1>7, FreedPlaces
  <1>9. \A m \in 1..Len(clicks) : clicks'[m].at = "picking" => place'[clicks[m].place].run = m
    <2>1. SUFFICES ASSUME NEW m \in 1..Len(clicks), clicks'[m].at = "picking" PROVE place'[clicks[m].place].run = m
      OBVIOUS
    <2>2. cs[m].at = "picking"
      <3>1. CASE clicks[n].place = "menu" /\ place["menu"].run # n
        BY <1>1, <1>3, <1>4, <2>1, <3>1 DEF Later
      <3>2. CASE ~(clicks[n].place = "menu" /\ place["menu"].run # n)
        BY <1>1, <2>1, <3>2
      <3> QED BY <3>1, <3>2
    <2>3. m # n /\ clicks[m].at = "picking"
      BY <1>2, <2>2
    <2>4. clicks[m].place \in Places /\ place[clicks[m].place].run = m
      BY <1>3, <2>3, SlotsParts
    <2>5. CASE clicks[m].place = "menu"
      <3>1. ~(clicks[n].place = "menu" /\ place["menu"].run # n)
        BY <1>1, <1>3, <1>4, <2>1, <2>4, <2>5
      <3> QED BY <1>7, <2>3, <2>4, <2>5, <3>1
    <2>6. CASE clicks[m].place # "menu"
      BY <1>7, <2>3, <2>4, <2>6
    <2> QED BY <2>5, <2>6
  <1> QED BY <1>5, <1>7, <1>8, <1>9, SlotsParts, SlotsStep

\* A host is counted at most once per tab.
LEMMA CountBound ==
    ASSUME NEW n \in Nat, NEW T \in SUBSET (1..n)
    PROVE  Cardinality(T) \in 0..n
  <1>1. IsFiniteSet(1..n) /\ Cardinality(1..n) = n
    <2>1. IsFiniteSet(1..n) /\ Cardinality(1..n) = IF 1 > n THEN 0 ELSE n - 1 + 1
      BY FS_Interval
    <2> QED BY <2>1
  <1>2. IsFiniteSet(T) /\ Cardinality(T) <= Cardinality(1..n)
    BY <1>1, FS_Subset
  <1>3. Cardinality(T) \in Nat
    BY <1>2, FS_CardinalityType
  <1> QED BY <1>1, <1>2, <1>3

\* The host that is guessed is the host of one of the tabs.
LEMMA InferredHost ==
    ASSUME NEW active, wsTabs \in Seq(SlotHosts), wsTabs # <<>>
    PROVE  inferWorkspaceHostId(active) \in SlotHosts
  <1> DEFINE N == Len(wsTabs)
             count(h) == Cardinality({i \in DOMAIN wsTabs : wsTabs[i] = h})
             winners == {h \in ToSet(wsTabs) : \A g \in ToSet(wsTabs) : count(g) <= count(h)}
             spare == {N - count(h) : h \in ToSet(wsTabs)}
             places == {i \in DOMAIN wsTabs : wsTabs[i] \in winners}
  <1>1. N \in Nat /\ N >= 1 /\ DOMAIN wsTabs = 1..N /\ \A i \in 1..N : wsTabs[i] \in SlotHosts
    OBVIOUS
  <1>2. ToSet(wsTabs) \subseteq SlotHosts /\ wsTabs[1] \in ToSet(wsTabs)
    BY <1>1 DEF ToSet
  <1>3. \A h : count(h) \in 0..N
    <2>1. ASSUME NEW h PROVE count(h) \in 0..N
      <3>1. {i \in DOMAIN wsTabs : wsTabs[i] = h} \in SUBSET (1..N)
        BY <1>1
      <3> HIDE DEF N
      <3> QED BY <1>1, <3>1, CountBound
    <2> QED BY <2>1
  <1> HIDE DEF count
  <1>4. PICK h \in ToSet(wsTabs) : \A g \in ToSet(wsTabs) : N - count(h) <= N - count(g)
    <2>1. spare \in SUBSET Nat /\ spare # {}
      BY <1>1, <1>2, <1>3
    <2> HIDE DEF spare
    <2>2. PICK m \in spare : \A k \in spare : m <= k
      BY <2>1, Least
    <2> QED BY <2>2 DEF spare
  <1>5. h \in winners
    <2>1. ASSUME NEW g \in ToSet(wsTabs) PROVE count(g) <= count(h)
      BY <1>1, <1>3, <1>4
    <2> QED BY <2>1
  <1>6. winners \subseteq SlotHosts
    BY <1>2
  <1>7. places \in SUBSET Nat /\ places # {}
    BY <1>1, <1>5 DEF ToSet
  <1> HIDE DEF winners
  <1>8. Min(places) \in places
    <2> HIDE DEF places
    <2>1. \E m \in places : \A k \in places : m <= k
      BY <1>7, Least
    <2> QED BY <2>1 DEF Min
  <1>9. wsTabs[Min(places)] \in winners
    BY <1>8
  <1>10. inferWorkspaceHostId(active) = IF active \in winners THEN active ELSE wsTabs[Min(places)]
    BY DEF inferWorkspaceHostId, winners, count
  <1> QED BY <1>6, <1>9, <1>10

\* A click of a place that works on none.
LEMMA TakeKeeps ==
    ASSUME SlotsInv, NEW p \in Places, NEW c \in Cmds, NEW h \in SlotHosts \cup {NoHost}, NEW at \in {"picking", "creating"},
           Take(p, c, h, at), place[p].mounted, place[p].run = 0,
           at = "picking" => p \in WorkspacePlaces, at = "creating" => h \in SlotHosts
    PROVE  SlotsInv'
  <1> DEFINE q == NewClick(p, c, h, at)
             n == Len(clicks) + 1
             r == [place[p] EXCEPT !.run = n]
  <1>1. /\ clicks' = Append(clicks, q) /\ place' = [place EXCEPT ![p].run = Len(clicks')]
        /\ UNCHANGED <<slotHosts, activeHost, bindings, global, wsLive, wsTabs, keysSent, retryToast>>
    BY DEF Take, worldVars, cmdVars
  <1>2. q \in ClickRecs /\ q.place = p /\ q.asked = h /\ q.at = at
    <2> DEFINE a == IF at = "creating" THEN getDaemonBase(h) ELSE NoHost
               b == p # "form" /\ wsLive
    <2>1. a \in SlotHosts \cup {NoHost}
      BY SlotsParts DEF getDaemonBase
    <2>2. b \in BOOLEAN
      BY SlotsParts
    <2>3. q = [place |-> p, cmd |-> c, asked |-> h, made |-> a, inWs |-> b, at |-> at]
      BY DEF NewClick
    <2>4. at \in ClickStates
      BY DEF ClickStates
    <2> HIDE DEF a, b, q
    <2> QED BY <2>1, <2>2, <2>3, <2>4 DEF ClickRecs
  <1> HIDE DEF q
  <1>3. /\ clicks' \in Seq(ClickRecs) /\ Len(clicks') = n /\ n \in Nat /\ clicks'[n] = q
        /\ \A m \in 1..Len(clicks) : clicks'[m] = clicks[m] /\ m # n
    BY <1>1, <1>2, SlotsParts
  <1>4. r \in PlaceRecs /\ r.run = n /\ r.mounted
    <2>1. place[p] \in PlaceRecs
      BY SlotsParts
    <2> QED BY <1>3, <2>1 DEF PlaceRecs
  <1>5. place' \in [Places -> PlaceRecs] /\ \A o \in Places : place'[o] = IF o = p THEN r ELSE place[o]
    <2>1. place' = [place EXCEPT ![p] = r]
      BY <1>1, <1>3
    <2> HIDE DEF r
    <2> QED BY <1>4, <2>1, SlotsParts
  <1> HIDE DEF r
  <1>6. PlacesSound(place', clicks')
    <2>1. ASSUME NEW o \in Places PROVE place'[o].run \in 0..n /\ (~place'[o].mounted => place'[o].run = 0)
      <3>1. CASE o = p
        <4>1. place'[o] = r /\ n \in 0..n
          BY <1>3, <1>5, <3>1
        <4> QED BY <1>4, <4>1
      <3>2. CASE o # p
        <4>1. place[o].run \in 0..Len(clicks) /\ (~place[o].mounted => place[o].run = 0)
          BY SlotsParts
        <4> QED BY <1>3, <1>5, <3>2, <4>1
      <3> QED BY <3>1, <3>2
    <2> QED BY <1>3, <2>1 DEF PlacesSound
  <1>7. ASSUME NEW m \in 1..n
        PROVE  /\ clicks'[m].at = "picking" => clicks'[m].place \in WorkspacePlaces /\ place'[clicks'[m].place].run = m
               /\ clicks'[m].at \in {"creating", "sending"} => clicks'[m].asked \in SlotHosts
    <2>1. CASE m = n
      BY <1>2, <1>3, <1>4, <1>5, <2>1
    <2>2. CASE m # n
      <3>1. m \in 1..Len(clicks) /\ clicks'[m] = clicks[m]
        BY <1>3, <2>2
      <3>2. ASSUME clicks[m].at = "picking" PROVE place'[clicks[m].place].run = m
        <4>1. place[clicks[m].place].run = m /\ clicks[m].place \in Places
          BY <3>1, <3>2, SlotsParts DEF Places
        <4>2. clicks[m].place # p
          BY <4>1
        <4> QED BY <1>5, <4>1, <4>2
      <3> QED BY <3>1, <3>2, SlotsParts
    <2> QED BY <2>1, <2>2
  <1>8. PickersShown(place', clicks') /\ HostsNamed(clicks')
    BY <1>3, <1>7 DEF PickersShown, HostsNamed
  <1>9. \A s \in keysSent' : KeyHome(s, clicks')
    BY <1>1, <1>3 DEF SlotsInv, KeyHome
  <1>10. SlotsTypeOK' /\ BindingsSound'
    BY <1>1, <1>3, <1>5 DEF SlotsInv, SlotsTypeOK, BindingsSound
  <1> QED BY <1>6, <1>8, <1>9, <1>10 DEF SlotsInv

LEMMA ClickSteps ==
    ASSUME SlotsInv, NEW c \in Cmds,
           runHostSlot(c) \/ handleCreate(c) \/ \E p \in WorkspacePlaces : runWorkspaceSlot(p, c)
    PROVE  SlotsInv'
  <1>1. PageHost \in SlotHosts
    BY SlotsParts DEF PageHost
  <1>2. "page" \in Places /\ "form" \in Places /\ WorkspacePlaces \subseteq Places
    BY DEF Places
  <1>3. CASE runHostSlot(c)
    <2>1. CASE PageHost \in slotHosts
      <3>1. Take("page", c, PageHost, "creating") /\ place["page"].mounted /\ place["page"].run = 0
        BY <1>3, <2>1 DEF runHostSlot
      <3> QED BY <1>1, <1>2, <3>1, TakeKeeps
    <2>2. CASE PageHost \notin slotHosts
      <3>1. /\ UNCHANGED <<slotHosts, activeHost, bindings, global, wsLive, wsTabs, place, clicks, keysSent>> /\ retryToast' = 0
        BY <1>3, <2>2 DEF runHostSlot, worldVars, cmdVars
      <3>2. Later(clicks', clicks)
        BY <3>1, LaterSelf, SlotsParts
      <3>3. PlacesSound(place', clicks)
        BY <3>1 DEF SlotsInv
      <3> QED BY <3>1, <3>2, <3>3, SlotsParts, SlotsStep
    <2> QED BY <2>1, <2>2
  <1>4. CASE handleCreate(c)
    <2>1. Take("form", c, PageHost, "creating") /\ place["form"].mounted /\ place["form"].run = 0
      BY <1>4 DEF handleCreate
    <2> QED BY <1>1, <1>2, <2>1, TakeKeeps
  <1>5. ASSUME NEW p \in WorkspacePlaces, runWorkspaceSlot(p, c) PROVE SlotsInv'
    <2>1. PICK active \in ToSet(wsTabs) \cup {NoHost} :
              /\ place[p].mounted /\ place[p].run = 0
              /\ Take(p, c, inferWorkspaceHostId(active), IF inferWorkspaceHostId(active) = NoHost THEN "picking" ELSE "creating")
      BY <1>5 DEF runWorkspaceSlot
    <2> DEFINE h == inferWorkspaceHostId(active)
               at == IF h = NoHost THEN "picking" ELSE "creating"
    <2>2. h \in SlotHosts \cup {NoHost}
      <3>1. CASE wsTabs = <<>>
        BY <3>1 DEF inferWorkspaceHostId
      <3>2. CASE wsTabs # <<>>
        BY <3>2, InferredHost, SlotsParts
      <3> QED BY <3>1, <3>2
    <2>3. Take(p, c, h, at)
      BY <2>1
    <2> HIDE DEF h
    <2>4. at \in {"picking", "creating"} /\ (at = "creating" => h \in SlotHosts)
      BY <2>2
    <2> HIDE DEF at
    <2> QED BY <1>2, <2>1, <2>2, <2>3, <2>4, TakeKeeps
  <1> QED BY <1>3, <1>4, <1>5

\* The picker names a host for the click.
LEMMA PickHostKeeps ==
    ASSUME SlotsInv, NEW n \in 1..Len(clicks), NEW h \in SlotHosts, PickHost(n, h)
    PROVE  SlotsInv'
  <1> DEFINE q == [clicks[n] EXCEPT !.at = "creating", !.asked = h, !.made = h]
  <1>1. /\ clicks[n].at = "picking" /\ clicks' = [clicks EXCEPT ![n].at = "creating", ![n].asked = h, ![n].made = h]
        /\ UNCHANGED <<slotHosts, activeHost, bindings, global, wsLive, wsTabs, place, keysSent, retryToast>>
    BY DEF PickHost, At, worldVars, cmdVars
  <1>2. clicks' = [clicks EXCEPT ![n] = q]
    BY <1>1, SlotsParts
  <1>3. q \in ClickRecs /\ q.place = clicks[n].place /\ q.asked = h /\ q.at = "creating"
    <2>1. clicks[n] \in ClickRecs
      BY SlotsParts
    <2>2. "creating" \in ClickStates
      BY DEF ClickStates
    <2> QED BY <2>1, <2>2 DEF ClickRecs
  <1> HIDE DEF q
  <1>4. /\ clicks' \in Seq(ClickRecs) /\ Len(clicks') = Len(clicks)
        /\ \A m \in 1..Len(clicks) : clicks'[m] = IF m = n THEN q ELSE clicks[m]
    BY <1>2, <1>3, SlotsParts
  <1>5. SlotsTypeOK' /\ BindingsSound'
    BY <1>1, <1>4 DEF SlotsInv, SlotsTypeOK, BindingsSound
  <1>6. PlacesSound(place', clicks')
    BY <1>1, <1>4 DEF SlotsInv, PlacesSound
  <1>7. PickersShown(place', clicks') /\ HostsNamed(clicks')
    BY <1>1, <1>3, <1>4 DEF SlotsInv, PickersShown, HostsNamed
  <1>8. \A s \in keysSent' : KeyHome(s, clicks')
    <2>1. SUFFICES ASSUME NEW s \in keysSent PROVE KeyHome(s, clicks')
      BY <1>1
    <2>2. KeyHome(s, clicks)
      BY DEF SlotsInv
    <2>3. clicks[n].place # "page"
      BY <1>1, SlotsParts DEF WorkspacePlaces
    <2> QED BY <1>3, <1>4, <2>2, <2>3 DEF KeyHome
  <1> QED BY <1>5, <1>6, <1>7, <1>8 DEF SlotsInv

\* The keys of a click whose host has just been looked at go to that host.
LEMMA KeysGoHome ==
    ASSUME SlotsInv, NEW n \in 1..Len(clicks), executeCommand(n),
           clicks[n].place = "page" => clicks[n].asked \in slotHosts
    PROVE  \A s \in keysSent' : s \in keysSent \/ KeyHome(s, clicks)
  <1> DEFINE s == [click |-> n, to |-> getDaemonBase(clicks[n].asked)]
  <1>1. keysSent' = keysSent \cup {s}
    BY DEF executeCommand
  <1>2. KeyHome(s, clicks)
    BY DEF KeyHome, getDaemonBase
  <1> HIDE DEF s
  <1> QED BY <1>1, <1>2

LEMMA AnswerSteps ==
    ASSUME SlotsInv, NEW n \in 1..Len(clicks),
           \/ HiddenEffect(n) \/ CreateFailed(n) \/ CancelPicker(n)
           \/ \E b \in BOOLEAN : CreateAnswered(n, b) \/ onCreated(n, b) \/ SendAnswered(n, b)
    PROVE  SlotsInv'
  <1>1. CASE HiddenEffect(n) \/ CancelPicker(n)
    BY <1>1, FinishedKeeps, SlotsParts DEF HiddenEffect, CancelPicker, worldVars, cmdVars
  <1>2. CASE CreateFailed(n)
    <2>1. retryToast' \in 0..Len(clicks)
      BY <1>2, SlotsParts DEF CreateFailed
    <2> QED BY <1>2, <2>1, FinishedKeeps, SlotsParts DEF CreateFailed, worldVars, cmdVars
  <1>3. ASSUME NEW b \in BOOLEAN, CreateAnswered(n, b) PROVE SlotsInv'
    <2>1. clicks[n].at = "creating" /\ UNCHANGED <<slotHosts, activeHost, bindings, global, wsLive, wsTabs>>
      BY <1>3 DEF CreateAnswered, At, worldVars, cmdVars
    <2>2. CASE Live(n) /\ ~(b /\ clicks[n].place = "page")
      <3>1. executeCommand(n) /\ clicks' = Put(n, "sending") /\ UNCHANGED <<place, retryToast>>
        BY <1>3, <2>2 DEF CreateAnswered
      <3>2. clicks[n].place = "page" => clicks[n].asked \in slotHosts
        BY <2>2 DEF Live, assertHostLive
      <3>3. \A s \in keysSent' : s \in keysSent \/ KeyHome(s, clicks)
        BY <3>1, <3>2, KeysGoHome
      <3>4. Later(clicks', clicks)
        <4>1. "sending" \in ClickStates \ {"picking"}
          BY DEF ClickStates
        <4>2. PutIn(clicks', clicks, n, "sending")
          BY <3>1 DEF PutIn, Put
        <4> QED BY <2>1, <4>1, <4>2, PutLater, SlotsParts
      <3>5. PlacesSound(place', clicks)
        BY <3>1 DEF SlotsInv
      <3>6. \A m \in 1..Len(clicks) : clicks'[m].at = "picking" => place'[clicks[m].place].run = m
        <4>1. \A m \in 1..Len(clicks) : clicks'[m].at = "picking" => clicks[m].at = "picking"
          BY <3>4 DEF Later
        <4> QED BY <3>1, <4>1, SlotsParts
      <3> QED BY <2>1, <3>1, <3>3, <3>4, <3>5, <3>6, SlotsParts, SlotsStep
    <2>3. CASE ~(Live(n) /\ ~(b /\ clicks[n].place = "page"))
      <3>1. Finished(n, "done") /\ retryToast' = 0 /\ UNCHANGED keysSent
        BY <1>3, <2>3 DEF CreateAnswered
      <3> QED BY <2>1, <3>1, FinishedKeeps, SlotsParts
    <2> QED BY <2>2, <2>3
  <1>4. ASSUME NEW b \in BOOLEAN, onCreated(n, b) PROVE SlotsInv'
    <2> DEFINE at == IF place["form"].run = n /\ ~b /\ isHostLive(clicks[n].asked) THEN "attached" ELSE "done"
    <2>1. Finished(n, at) /\ UNCHANGED <<slotHosts, activeHost, bindings, global, wsLive, wsTabs, keysSent, retryToast>>
      BY <1>4 DEF onCreated, worldVars, cmdVars
    <2>2. at \in {"done", "attached", "shown", "unsent"}
      OBVIOUS
    <2> HIDE DEF at
    <2> QED BY <2>1, <2>2, FinishedKeeps, SlotsParts
  <1>5. ASSUME NEW b \in BOOLEAN, SendAnswered(n, b) PROVE SlotsInv'
    <2> DEFINE at == IF ~switchOk(n) THEN "done" ELSE IF b THEN "shown" ELSE "unsent"
    <2>1. /\ Finished(n, at) /\ UNCHANGED <<slotHosts, activeHost, bindings, global, wsLive, keysSent>>
          /\ clicks[n].at = "sending"
          /\ IF switchOk(n) THEN switchToSession(n) ELSE UNCHANGED wsTabs
          /\ retryToast' = IF b /\ switchOk(n) THEN retryToast ELSE IF switchOk(n) THEN n ELSE 0
      BY <1>5 DEF SendAnswered, At, worldVars, cmdVars
    <2>2. at \in {"done", "attached", "shown", "unsent"}
      OBVIOUS
    <2> HIDE DEF at
    <2>3. clicks[n].asked \in SlotHosts
      BY <2>1, SlotsParts
    <2>4. wsTabs' \in Seq(SlotHosts)
      <3>1. Append(wsTabs, clicks[n].asked) \in Seq(SlotHosts)
        BY <2>3, SlotsParts
      <3> QED BY <2>1, <3>1, SlotsParts DEF switchToSession
    <2>5. retryToast' \in 0..Len(clicks)
      BY <2>1, SlotsParts
    <2> QED BY <2>1, <2>2, <2>4, <2>5, FinishedKeeps, SlotsParts
  <1> QED BY <1>1, <1>2, <1>3, <1>4, <1>5

\* The retry of a toast, whose click may be long over.
LEMMA RetryKeeps ==
    ASSUME SlotsInv, Retry
    PROVE  SlotsInv'
  <1>1. /\ retryToast # 0 /\ retryToast' = 0
        /\ UNCHANGED <<slotHosts, activeHost, bindings, global, wsLive, wsTabs, place, clicks>>
    BY DEF Retry, worldVars, cmdVars
  <1>2. retryToast \in 1..Len(clicks)
    BY <1>1, SlotsParts
  <1>3. \A s \in keysSent' : s \in keysSent \/ KeyHome(s, clicks)
    <2>1. CASE clicks[retryToast].place = "page" /\ ~assertHostLive(retryToast)
      BY <2>1 DEF Retry
    <2>2. CASE ~(clicks[retryToast].place = "page" /\ ~assertHostLive(retryToast))
      <3>1. executeCommand(retryToast)
        BY <2>2 DEF Retry
      <3> QED BY <1>2, <2>2, <3>1, KeysGoHome DEF assertHostLive
    <2> QED BY <2>1, <2>2
  <1>4. Later(clicks', clicks)
    BY <1>1, LaterSelf, SlotsParts
  <1>5. PlacesSound(place', clicks)
    BY <1>1 DEF SlotsInv
  <1> QED BY <1>1, <1>3, <1>4, <1>5, SlotsParts, SlotsStep

LEMMA HostSteps ==
    ASSUME SlotsInv, NEW h \in SlotHosts, removeHost(h) \/ restoreHost(h) \/ HostStatus(h)
    PROVE  SlotsInv'
  <1>1. UNCHANGED <<bindings, global, wsLive, place, clicks, keysSent, retryToast>>
    BY DEF removeHost, restoreHost, HostStatus, cmdVars
  <1>2. slotHosts' \subseteq SlotHosts /\ activeHost' \in SlotHosts /\ wsTabs' \in Seq(SlotHosts)
    <2>1. CASE removeHost(h)
      <3>1. slotHosts' = slotHosts \ {h} /\ wsTabs' \in {wsTabs, Without(wsTabs, {h})}
        BY <2>1 DEF removeHost
      <3>2. activeHost' \in slotHosts' \/ activeHost' = activeHost
        BY <2>1 DEF removeHost
      <3>3. Without(wsTabs, {h}) \in Seq(SlotHosts)
        BY SlotsParts, WithoutSet
      <3> QED BY <3>1, <3>2, <3>3, SlotsParts
    <2>2. CASE restoreHost(h)
      <3>1. slotHosts' = slotHosts \cup {h} /\ activeHost' \in {activeHost, h} /\ wsTabs' \in {wsTabs, Append(wsTabs, h)}
        BY <2>2 DEF restoreHost
      <3>2. Append(wsTabs, h) \in Seq(SlotHosts)
        BY SlotsParts
      <3> QED BY <3>1, <3>2, SlotsParts
    <2>3. CASE HostStatus(h)
      BY <2>3, SlotsParts DEF HostStatus
    <2> QED BY <2>1, <2>2, <2>3
  <1> QED BY <1>1, <1>2
          DEF SlotsInv, SlotsTypeOK, PlacesSound, PickersShown, HostsNamed, KeyHome, BindingsSound

LEMMA BindingSteps ==
    ASSUME SlotsInv,
           \/ ToggleModule
           \/ \E c \in Cmds : removeCommand(c) \/ \E targets \in SUBSET {"workspace", "host"} : addCommand(c, targets)
    PROVE  SlotsInv'
  <1>1. UNCHANGED <<slotHosts, activeHost, wsLive, wsTabs, place, clicks, keysSent, retryToast>>
    BY DEF ToggleModule, removeCommand, addCommand, worldVars
  <1>2. global \subseteq Cmds /\ bindings \in [Cmds -> SUBSET {"workspace", "host"}] /\ BindingsSound
    BY DEF SlotsInv, SlotsTypeOK
  <1>3. global' \subseteq Cmds /\ bindings' \in [Cmds -> SUBSET {"workspace", "host"}] /\ BindingsSound'
    <2>1. CASE ToggleModule
      BY <1>2, <2>1 DEF ToggleModule, BindingsSound
    <2>2. ASSUME NEW c \in Cmds, removeCommand(c)
          PROVE  global' \subseteq Cmds /\ bindings' \in [Cmds -> SUBSET {"workspace", "host"}] /\ BindingsSound'
      <3>1. global' = global \ {c} /\ bindings' = [bindings EXCEPT ![c] = {}]
        BY <2>2 DEF removeCommand, setBinding
      <3>2. \A d \in Cmds : bindings'[d] = IF d = c THEN {} ELSE bindings[d]
        BY <1>2, <3>1
      <3>3. BindingsSound'
        BY <1>2, <3>1, <3>2 DEF BindingsSound
      <3> QED BY <1>2, <3>1, <3>3
    <2>3. ASSUME NEW c \in Cmds, NEW targets \in SUBSET {"workspace", "host"}, addCommand(c, targets)
          PROVE  global' \subseteq Cmds /\ bindings' \in [Cmds -> SUBSET {"workspace", "host"}] /\ BindingsSound'
      <3>1. global' = global \cup {c} /\ bindings' = [bindings EXCEPT ![c] = targets]
        BY <2>3 DEF addCommand, setBinding
      <3>2. \A d \in Cmds : bindings'[d] = IF d = c THEN targets ELSE bindings[d]
        BY <1>2, <3>1
      <3>3. BindingsSound'
        BY <1>2, <3>1, <3>2 DEF BindingsSound
      <3> QED BY <1>2, <3>1, <3>3
    <2> QED BY <2>1, <2>2, <2>3
  <1> QED BY <1>1, <1>3 DEF SlotsInv, SlotsTypeOK, PlacesSound, PickersShown, HostsNamed, KeyHome

LEMMA SlotsKeepInv ==
    ASSUME SlotsInv, [SlotsInput \/ SlotsProgress]_slotVars
    PROVE  SlotsInv'
  <1>1. DOMAIN clicks = 1..Len(clicks)
    BY SlotsParts
  <1>2. CASE SlotsInput
    <2>1. CASE \E c \in Cmds : runHostSlot(c) \/ handleCreate(c) \/ \E p \in WorkspacePlaces : runWorkspaceSlot(p, c)
      BY <2>1, ClickSteps
    <2>2. CASE \/ ToggleModule
               \/ \E c \in Cmds : removeCommand(c) \/ \E targets \in SUBSET {"workspace", "host"} : addCommand(c, targets)
      BY <2>2, BindingSteps
    <2>3. CASE WorkspaceRemoved \/ Retry
      BY <2>3, WorkspaceRemovedKeeps, RetryKeeps
    <2>4. CASE \E h \in SlotHosts : removeHost(h) \/ restoreHost(h) \/ HostStatus(h)
      BY <2>4, HostSteps
    <2>5. CASE \E p \in Places : Mount(p) \/ Unmount(p)
      BY <2>5, MountKeeps
    <2>6. CASE \E n \in DOMAIN clicks : CancelPicker(n) \/ \E h \in SlotHosts : PickHost(n, h)
      BY <1>1, <2>6, AnswerSteps, PickHostKeeps
    <2> QED BY <1>2, <2>1, <2>2, <2>3, <2>4, <2>5, <2>6 DEF SlotsInput
  <1>3. CASE SlotsProgress
    BY <1>1, <1>3, AnswerSteps DEF SlotsProgress
  <1>4. CASE UNCHANGED slotVars
    BY <1>4 DEF slotVars, worldVars, cmdVars, SlotsInv, SlotsTypeOK, PlacesSound, PickersShown, HostsNamed, KeyHome, BindingsSound
  <1> QED BY <1>2, <1>3, <1>4

\* The keys of a command clicked on a host's page reach that host and no other
\* (a workspace's command, whose host was removed, may reach the active one:
\* slot-executor.ts:87), a picker is settled when its place is gone and no slot
\* is bound to a command that is gone, for any hosts, commands and clicks.
THEOREM CommandsAlwaysSound == SlotsSpec => []CommandsSound
  <1>1. SlotsInv => CommandsSound
    <2>1. ASSUME SlotsInv PROVE PageKeysGoHome /\ BindingsSound
      BY <2>1 DEF SlotsInv, PageKeysGoHome, KeyHome
    <2>2. ASSUME SlotsInv PROVE PickSettles
      <3>1. DOMAIN clicks = 1..Len(clicks)
        BY <2>2, SlotsParts
      <3> QED BY <2>2, <3>1, SlotsParts DEF PickSettles, At
    <2> QED BY <2>1, <2>2 DEF CommandsSound
  <1> QED BY <1>1, SlotsStart, SlotsKeepInv, PTL DEF SlotsSpec

-----------------------------------------------------------------------------
(* FileOpen.  A click whose path is resolved has its workspace; the popup *)
(* and the searches are about such clicks; a popup about one click since  *)
(* it was mounted holds in its layers what its searches have found.       *)

Entries == [dir : Dirs, sess : OpenSessions]
OpenRecs ==
    [host : OpenHosts, ws : OpenWss \cup {NoWs}, sess : OpenSessions \cup {NoSession},
     path : {"absolute", "relative", "home"}, cands : Seq(Entries), verified : Nat,
     target : OpenWss \cup {NoWs}, at : {"resolve", "stat", "cand", "done"}]
PopupRecs ==
    [of : Nat, mode : {"none", "ask-expand", "layer1-multi", "expanded"}, hits : [Layers -> Nat],
     token : Nat, last : Nat, shows : Nat, alone : BOOLEAN, done : [Layers -> Nat]]
SearchRecs == [of : Nat, layer : Layers, token : Nat]

CacheGood(list) ==
    /\ list \in Seq(Entries) /\ Len(list) <= MAX_DIRS_PER_SCOPE
    /\ \A i, j \in 1..Len(list) : i # j => list[i].dir # list[j].dir

OpenTypeOK ==
    /\ opens \in Seq(OpenRecs) /\ popup \in PopupRecs /\ mergedHits \in [Layers -> Nat]
    /\ searches \subseteq SearchRecs /\ activeWs \in OpenWss \cup {NoWs}
    /\ ask \in BOOLEAN /\ auto \in BOOLEAN
    /\ entries \in [OpenHosts -> Seq(Entries)] /\ \A h \in OpenHosts : CacheGood(entries[h])

Placed(c) == /\ c.at # "resolve" /\ c.ws # NoWs => c.target = c.ws
             /\ c.at = "cand" => c.cands # <<>>

Ready(n, os) == n \in 1..Len(os) /\ os[n].at # "resolve"

TabPlaced(t, os) == t.of \in 1..Len(os) /\ (os[t.of].ws # NoWs => t.ws = os[t.of].ws)

PopupSound(pp, mh, os) ==
    /\ pp.token = 0 => pp.of = 0 /\ pp.mode = "none" /\ pp.hits = NoHits
    /\ pp.token # 0 => Ready(pp.of, os)
    /\ pp.last <= pp.shows
    /\ pp.token # 0 /\ pp.alone => mh = pp.done /\ pp.done \in [Layers -> {0, pp.of}]
    /\ pp.mode = "expanded" /\ pp.alone => pp.hits = pp.done

FilesInv ==
    /\ OpenTypeOK
    /\ \A n \in 1..Len(opens) : Placed(opens[n])
    /\ \A t \in opened : TabPlaced(t, opens)
    /\ \A s \in searches : Ready(s.of, opens) /\ s.token # 0
    /\ PopupSound(popup, mergedHits, opens)

LEMMA FilesParts ==
    ASSUME FilesInv
    PROVE  /\ opens \in Seq(OpenRecs) /\ popup \in PopupRecs /\ mergedHits \in [Layers -> Nat]
           /\ searches \subseteq SearchRecs /\ activeWs \in OpenWss \cup {NoWs}
           /\ entries \in [OpenHosts -> Seq(Entries)] /\ \A h \in OpenHosts : CacheGood(entries[h])
           /\ Len(opens) \in Nat /\ DOMAIN opens = 1..Len(opens)
           /\ \A n \in 1..Len(opens) : opens[n] \in OpenRecs /\ Placed(opens[n])
           /\ PopupSound(popup, mergedHits, opens)
  <1>1. opens \in Seq(OpenRecs)
    BY DEF FilesInv, OpenTypeOK
  <1>2. Len(opens) \in Nat /\ DOMAIN opens = 1..Len(opens) /\ \A n \in 1..Len(opens) : opens[n] \in OpenRecs
    BY <1>1
  <1> QED BY <1>1, <1>2 DEF FilesInv, OpenTypeOK

LEMMA FilesStart ==
    ASSUME OpenInit
    PROVE  FilesInv
  <1>1. opens \in Seq(OpenRecs) /\ Len(opens) = 0 /\ 1..Len(opens) = {}
    <2>1. <<>> \in Seq(OpenRecs) /\ Len(<<>>) = 0
      OBVIOUS
    <2> QED BY <2>1 DEF OpenInit
  <1>2. NoHits \in [Layers -> Nat] /\ NoPopup \in PopupRecs
    <2>1. NoHits \in [Layers -> Nat]
      BY DEF NoHits
    <2> HIDE DEF NoHits
    <2> QED BY <2>1 DEF NoPopup, PopupRecs
  <1>3. CacheGood(<<>>)
    <2>1. <<>> \in Seq(Entries) /\ Len(<<>>) = 0 /\ 1..Len(<<>>) = {}
      OBVIOUS
    <2> QED BY <2>1, OpenAssumption DEF CacheGood
  <1>4. entries \in [OpenHosts -> Seq(Entries)] /\ \A h \in OpenHosts : CacheGood(entries[h])
    <2>1. <<>> \in Seq(Entries)
      OBVIOUS
    <2> QED BY <1>3, <2>1 DEF OpenInit
  <1>5. PopupSound(popup, mergedHits, opens)
    BY DEF OpenInit, NoPopup, PopupSound
  <1>6. OpenTypeOK
    BY <1>1, <1>2, <1>4 DEF OpenInit, OpenTypeOK
  <1> QED BY <1>1, <1>5, <1>6 DEF OpenInit, FilesInv

-----------------------------------------------------------------------------
\* What a step may do to the clicks.
Onward(k, os) ==
    /\ k \in Seq(OpenRecs) /\ Len(os) <= Len(k)
    /\ \A n \in 1..Len(os) : k[n].ws = os[n].ws /\ (os[n].at # "resolve" => k[n].at # "resolve")
    /\ \A n \in 1..Len(k) : Placed(k[n])

LEMMA FilesStep ==
    ASSUME FilesInv, Onward(opens', opens), UNCHANGED <<ask, auto>>, activeWs' \in OpenWss \cup {NoWs},
           entries' \in [OpenHosts -> Seq(Entries)], \A h \in OpenHosts : CacheGood(entries'[h]),
           popup' \in PopupRecs, mergedHits' \in [Layers -> Nat], PopupSound(popup', mergedHits', opens'),
           searches' \subseteq SearchRecs,
           \A s \in searches' : s \in searches \/ (Ready(s.of, opens') /\ s.token # 0),
           \A t \in opened' : t \in opened \/ TabPlaced(t, opens')
    PROVE  FilesInv'
  <1>1. OpenTypeOK'
    BY DEF FilesInv, OpenTypeOK, Onward
  <1>2. opens' \in Seq(OpenRecs) /\ Len(opens') \in Nat /\ Len(opens) \in Nat
    BY FilesParts DEF Onward
  <1>3. \A n \in 1..Len(opens') : Placed(opens'[n])
    BY DEF Onward
  <1>4. \A n : Ready(n, opens) => Ready(n, opens')
    BY <1>2 DEF Onward, Ready
  <1>5. \A t : TabPlaced(t, opens) => TabPlaced(t, opens')
    BY <1>2 DEF Onward, TabPlaced
  <1> QED BY <1>1, <1>3, <1>4, <1>5 DEF FilesInv

LEMMA OnwardSame ==
    ASSUME FilesInv
    PROVE  Onward(opens, opens)
  BY FilesParts DEF Onward

\* A click goes on, its path resolved.
ClickSet(k, o, q) ==
    /\ o \in 1..Len(opens) /\ k = [opens EXCEPT ![o] = q]
    /\ q \in OpenRecs /\ q.ws = opens[o].ws /\ q.at # "resolve" /\ Placed(q)

LEMMA ClickOnward ==
    ASSUME FilesInv, NEW o, NEW q, NEW k, ClickSet(k, o, q)
    PROVE  Onward(k, opens) /\ Ready(o, k) /\ k[o] = q /\ PopupSound(popup, mergedHits, k)
  <1>1. /\ k \in Seq(OpenRecs) /\ Len(k) = Len(opens)
        /\ \A n \in 1..Len(opens) : k[n] = IF n = o THEN q ELSE opens[n]
    BY FilesParts DEF ClickSet
  <1>2. Onward(k, opens)
    BY <1>1, FilesParts DEF Onward, ClickSet
  <1>3. Ready(o, k) /\ k[o] = q
    BY <1>1 DEF ClickSet, Ready
  <1>4. \A n : Ready(n, opens) => Ready(n, k)
    BY <1>1, <1>3 DEF Ready
  <1> QED BY <1>2, <1>3, <1>4, FilesParts DEF PopupSound

\* The popup reports a missing file.
LEMMA ShowMissingSound ==
    ASSUME FilesInv, NEW o \in Nat, NEW mode \in {"ask-expand", "layer1-multi"}, ShowMissing(o, mode), Ready(o, opens')
    PROVE  popup' \in PopupRecs /\ mergedHits' \in [Layers -> Nat] /\ PopupSound(popup', mergedHits', opens')
  <1> DEFINE token == IF popup.token # 0 THEN popup.token ELSE popup.last + 1
             last == IF popup.token # 0 THEN popup.last ELSE popup.last + 1
             shows == popup.shows + 1
             alone == ~(popup.token # 0) \/ (popup.alone /\ popup.of = o)
  <1>1. /\ popup' = [of |-> o, mode |-> mode, hits |-> NoHits, shows |-> shows, token |-> token, last |-> last,
                     alone |-> alone, done |-> NoHits]
        /\ mergedHits' = NoHits
    BY DEF ShowMissing, showFileNotFoundPopup
  <1>2. popup \in PopupRecs /\ popup.last <= popup.shows
    BY FilesParts DEF PopupSound
  <1>3. token \in Nat \ {0} /\ last \in Nat /\ shows \in Nat /\ last <= shows
    BY <1>2 DEF PopupRecs
  <1>4. alone \in BOOLEAN
    BY <1>2 DEF PopupRecs
  <1>5. NoHits \in [Layers -> Nat] /\ NoHits \in [Layers -> {0, o}]
    BY DEF NoHits
  <1> HIDE DEF token, last, shows, alone, NoHits
  <1>6. popup' \in PopupRecs
    BY <1>1, <1>3, <1>4, <1>5 DEF PopupRecs
  <1> QED BY <1>1, <1>3, <1>5, <1>6 DEF PopupSound

LEMMA HidePopup ==
    ASSUME FilesInv, hideFileNotFoundPopup
    PROVE  popup' \in PopupRecs /\ PopupSound(popup', mergedHits, opens)
  <1>1. popup' = [popup EXCEPT !.of = 0, !.mode = "none", !.hits = NoHits, !.token = 0]
    BY DEF hideFileNotFoundPopup
  <1>2. popup \in PopupRecs /\ popup.last <= popup.shows
    BY FilesParts DEF PopupSound
  <1>3. NoHits \in [Layers -> Nat]
    BY DEF NoHits
  <1> HIDE DEF NoHits
  <1>4. popup' = [of |-> 0, mode |-> "none", hits |-> NoHits, token |-> 0, last |-> popup.last, shows |-> popup.shows,
                  alone |-> popup.alone, done |-> popup.done]
    BY <1>1, <1>2 DEF PopupRecs
  <1>5. popup' \in PopupRecs
    BY <1>2, <1>3, <1>4 DEF PopupRecs
  <1> QED BY <1>2, <1>4, <1>5 DEF PopupSound

-----------------------------------------------------------------------------
(* The cache.                                                             *)

LEMMA CacheWithout ==
    ASSUME NEW list, CacheGood(list), NEW D
    PROVE  CacheGood(Without(list, D))
  <1> DEFINE r == Without(list, D)
             f == [x \in Entries |-> x.dir]
  <1>1. list \in Seq(Entries) /\ Len(list) <= MAX_DIRS_PER_SCOPE
        /\ \A i, j \in 1..Len(list) : i # j => list[i].dir # list[j].dir
    BY DEF CacheGood
  <1>2. r \in Seq(Entries) /\ Len(r) <= Len(list)
    BY <1>1, WithoutSet, WithoutLength
  <1>3. \A i \in 1..Len(list) : f[list[i]] = list[i].dir
    BY <1>1
  <1>4. \A i, j \in 1..Len(list) : i # j => f[list[i]] # f[list[j]]
    BY <1>1, <1>3
  <1> HIDE DEF f
  <1>5. \A i, j \in 1..Len(r) : i # j => f[r[i]] # f[r[j]]
    BY <1>1, <1>4, WithoutDistinct
  <1> HIDE DEF r
  <1>6. \A i \in 1..Len(r) : f[r[i]] = r[i].dir
    BY <1>2 DEF f
  <1>7. \A i, j \in 1..Len(r) : i # j => r[i].dir # r[j].dir
    BY <1>5, <1>6
  <1>8. Len(r) <= MAX_DIRS_PER_SCOPE
    BY <1>1, <1>2, OpenAssumption
  <1> QED BY <1>2, <1>7, <1>8 DEF CacheGood, r

LEMMA CacheUpsert ==
    ASSUME NEW list, CacheGood(list), NEW e \in Entries
    PROVE  CacheGood(upsertEntry(list, e))
  <1> DEFINE D == InDir(list, e.dir)
             r == Without(list, D)
             next == <<e>> \o r
             n == IF Len(next) > MAX_DIRS_PER_SCOPE THEN MAX_DIRS_PER_SCOPE ELSE Len(next)
             u == SubSeq(next, 1, n)
  <1>1. CacheGood(r)
    BY CacheWithout
  <1>2. r \in Seq(Entries) /\ \A i, j \in 1..Len(r) : i # j => r[i].dir # r[j].dir
    BY <1>1 DEF CacheGood
  <1>3. \A i \in 1..Len(r) : r[i].dir # e.dir
    <2>1. list \in Seq(Entries)
      BY DEF CacheGood
    <2> HIDE DEF D
    <2>2. ToSet(r) = ToSet(list) \ D
      BY <2>1, WithoutSet
    <2> HIDE DEF r
    <2>3. SUFFICES ASSUME NEW i \in 1..Len(r) PROVE r[i].dir # e.dir
      OBVIOUS
    <2>4. r[i] \in ToSet(r)
      BY <1>2 DEF ToSet
    <2> QED BY <2>2, <2>4 DEF D, InDir
  <1> HIDE DEF r, D
  <1>4. /\ next \in Seq(Entries) /\ Len(next) = Len(r) + 1 /\ Len(r) \in Nat
        /\ \A i \in 1..Len(next) : next[i] = IF i = 1 THEN e ELSE r[i - 1]
    <2>1. <<e>> \in Seq(Entries) /\ Len(<<e>>) = 1 /\ <<e>>[1] = e
      OBVIOUS
    <2> QED BY <1>2, <2>1
  <1>5. \A i, j \in 1..Len(next) : i # j => next[i].dir # next[j].dir
    <2> HIDE DEF next
    <2>1. SUFFICES ASSUME NEW i \in 1..Len(next), NEW j \in 1..Len(next), i # j PROVE next[i].dir # next[j].dir
      OBVIOUS
    <2>2. CASE i = 1
      <3>1. j - 1 \in 1..Len(r)
        BY <1>4, <2>1, <2>2
      <3> QED BY <1>3, <1>4, <2>1, <2>2, <3>1
    <2>3. CASE j = 1
      <3>1. i - 1 \in 1..Len(r)
        BY <1>4, <2>1, <2>3
      <3> QED BY <1>3, <1>4, <2>1, <2>3, <3>1
    <2>4. CASE i # 1 /\ j # 1
      <3>1. i - 1 \in 1..Len(r) /\ j - 1 \in 1..Len(r) /\ i - 1 # j - 1
        BY <1>4, <2>1, <2>4
      <3> QED BY <1>2, <1>4, <2>1, <2>4, <3>1
    <2> QED BY <2>2, <2>3, <2>4
  <1> HIDE DEF next
  <1>6. n \in 0..Len(next) /\ n <= MAX_DIRS_PER_SCOPE
    BY <1>4, OpenAssumption
  <1> HIDE DEF n
  <1>7. u \in Seq(Entries) /\ Len(u) = n /\ \A i \in 1..n : u[i] = next[i]
    BY <1>4, <1>6
  <1> HIDE DEF u
  <1>8. CacheGood(u)
    BY <1>5, <1>6, <1>7 DEF CacheGood
  <1> QED BY <1>8 DEF upsertEntry, u, n, next, r, D

LEMMA CacheStep ==
    ASSUME FilesInv, NEW h \in OpenHosts, NEW list, CacheGood(list), entries' = [entries EXCEPT ![h] = list]
    PROVE  entries' \in [OpenHosts -> Seq(Entries)] /\ \A g \in OpenHosts : CacheGood(entries'[g])
  <1>1. list \in Seq(Entries)
    BY DEF CacheGood
  <1> QED BY <1>1, FilesParts

\* Steps that leave the clicks and the popup alone.
LEMMA CacheSteps ==
    ASSUME FilesInv, NEW h \in OpenHosts, NEW sess \in OpenSessions,
           clearBySession(h, sess) \/ \E d \in Dirs : handlePathHintEvent(h, sess, d)
    PROVE  FilesInv'
  <1>1. UNCHANGED <<opens, popup, mergedHits, searches, opened, activeWs, ask, auto>>
    BY DEF clearBySession, handlePathHintEvent
  <1>2. CacheGood(entries[h])
    BY FilesParts
  <1>3. PICK list : CacheGood(list) /\ entries' = [entries EXCEPT ![h] = list]
    <2>1. CASE clearBySession(h, sess)
      <3>1. entries' = [entries EXCEPT ![h] = Without(entries[h], OfSession(entries[h], sess))]
        BY <2>1, FilesParts DEF clearBySession
      <3> QED BY <1>2, <3>1, CacheWithout
    <2>2. ASSUME NEW d \in Dirs, handlePathHintEvent(h, sess, d)
          PROVE  \E list : CacheGood(list) /\ entries' = [entries EXCEPT ![h] = list]
      <3> DEFINE e == [dir |-> d, sess |-> sess]
      <3>1. entries' = [entries EXCEPT ![h] = upsertEntry(entries[h], e)]
        BY <2>2, FilesParts DEF handlePathHintEvent
      <3>2. e \in Entries
        BY DEF Entries
      <3> HIDE DEF e
      <3>3. CacheGood(upsertEntry(entries[h], e))
        BY <1>2, <3>2, CacheUpsert
      <3> QED BY <3>1, <3>3
    <2> QED BY <2>1, <2>2
  <1>4. entries' \in [OpenHosts -> Seq(Entries)] /\ \A g \in OpenHosts : CacheGood(entries'[g])
    BY <1>3, CacheStep
  <1>5. PopupSound(popup', mergedHits', opens') /\ Onward(opens', opens)
    BY <1>1, FilesParts, OnwardSame
  <1> QED BY <1>1, <1>4, <1>5, FilesParts, FilesStep

-----------------------------------------------------------------------------
(* The popup and the clicks.                                              *)

\* A tab opens where the click's workspace is known.
LEMMA OpenTabPlaced ==
    ASSUME FilesInv, NEW o, Ready(o, opens), NEW path, OpenTab(o, path)
    PROVE  \A t \in opened' : t \in opened \/ TabPlaced(t, opens)
  <1> DEFINE t == [of |-> o, ws |-> opens[o].target, path |-> path]
  <1>1. opened' = opened \cup {t}
    BY DEF OpenTab
  <1>2. Placed(opens[o]) /\ o \in 1..Len(opens) /\ opens[o].at # "resolve"
    BY FilesParts DEF Ready
  <1>3. TabPlaced(t, opens)
    BY <1>2 DEF TabPlaced, Placed
  <1> HIDE DEF t
  <1> QED BY <1>1, <1>3

\* What the user does to the popup.
LEMMA PopupSteps ==
    ASSUME FilesInv,
           \/ Dismiss
           \/ \E l \in Layers : CtaButton(l)
           \/ \E path \in Ids : onOpenPath(path)
           \/ \E w \in OpenWss \cup {NoWs} : SwitchWorkspace(w)
    PROVE  FilesInv'
  <1>1. CASE Dismiss
    <2>1. hideFileNotFoundPopup /\ UNCHANGED <<opens, mergedHits, searches, entries, opened, activeWs, ask, auto>>
      BY <1>1 DEF Dismiss
    <2>2. popup' \in PopupRecs /\ PopupSound(popup', mergedHits', opens') /\ Onward(opens', opens)
      BY <2>1, HidePopup, OnwardSame
    <2> QED BY <2>1, <2>2, FilesParts, FilesStep
  <1>2. ASSUME NEW l \in Layers, CtaButton(l) PROVE FilesInv'
    <2> DEFINE s == [of |-> popup.of, layer |-> l, token |-> popup.token]
    <2>1. /\ popup.mode \in {"ask-expand", "layer1-multi"} /\ searches' = searches \cup {s}
          /\ UNCHANGED <<opens, popup, mergedHits, entries, opened, activeWs, ask, auto>>
      BY <1>2 DEF CtaButton
    <2>2. popup.token # 0 /\ Ready(popup.of, opens)
      BY <2>1, FilesParts DEF PopupSound
    <2>3. s \in SearchRecs /\ s.token # 0 /\ Ready(s.of, opens)
      <3>1. popup.of \in Nat /\ popup.token \in Nat
        BY FilesParts DEF PopupRecs
      <3> QED BY <2>2, <3>1 DEF SearchRecs
    <2> HIDE DEF s
    <2>4. PopupSound(popup', mergedHits', opens') /\ Onward(opens', opens)
      BY <2>1, FilesParts, OnwardSame
    <2> QED BY <2>1, <2>3, <2>4, FilesParts, FilesStep
  <1>3. ASSUME NEW path \in Ids, onOpenPath(path) PROVE FilesInv'
    <2>1. /\ (popup.mode = "layer1-multi") \/ (\E l \in Layers : popup.hits[l] = path)
          /\ hideFileNotFoundPopup /\ OpenTab(popup.of, path)
          /\ UNCHANGED <<opens, mergedHits, searches, entries, activeWs, ask, auto>>
      BY <1>3 DEF onOpenPath
    <2>2. popup.token # 0
      <3>1. path # 0
        BY FilesParts DEF Ids
      <3> QED BY <2>1, <3>1, FilesParts DEF PopupSound, NoHits
    <2>3. Ready(popup.of, opens)
      BY <2>2, FilesParts DEF PopupSound
    <2>4. \A t \in opened' : t \in opened \/ TabPlaced(t, opens)
      BY <2>1, <2>3, OpenTabPlaced
    <2>5. popup' \in PopupRecs /\ PopupSound(popup', mergedHits', opens') /\ Onward(opens', opens)
      BY <2>1, HidePopup, OnwardSame
    <2> QED BY <2>1, <2>4, <2>5, FilesParts, FilesStep
  <1>4. ASSUME NEW w \in OpenWss \cup {NoWs}, SwitchWorkspace(w) PROVE FilesInv'
    <2>1. activeWs' = w /\ UNCHANGED <<opens, popup, mergedHits, searches, entries, opened, ask, auto>>
      BY <1>4 DEF SwitchWorkspace
    <2>2. PopupSound(popup', mergedHits', opens') /\ Onward(opens', opens)
      BY <2>1, FilesParts, OnwardSame
    <2> QED BY <2>1, <2>2, FilesParts, FilesStep
  <1> QED BY <1>1, <1>2, <1>3, <1>4

\* A search ends: its hits join those of the popup it belongs to.
LEMMA SearchKeeps ==
    ASSUME FilesInv, NEW s \in searches, NEW found \in BOOLEAN, runExpandedSearch(s, found)
    PROVE  FilesInv'
  <1>1. searches' = searches \ {s} /\ UNCHANGED <<opens, entries, opened, activeWs, ask, auto>>
    BY DEF runExpandedSearch
  <1>2. s \in SearchRecs /\ Ready(s.of, opens) /\ s.token # 0
    BY DEF FilesInv, OpenTypeOK
  <1>3. popup' \in PopupRecs /\ mergedHits' \in [Layers -> Nat] /\ PopupSound(popup', mergedHits', opens)
    <2>1. CASE Aborted(s)
      <3>1. UNCHANGED <<popup, mergedHits>>
        BY <2>1 DEF runExpandedSearch
      <3> QED BY <3>1, FilesParts
    <2>2. CASE ~Aborted(s)
      <3> DEFINE n == IF found THEN s.of ELSE 0
                 mh == [mergedHits EXCEPT ![s.layer] = n]
                 done == [popup.done EXCEPT ![s.layer] = n]
                 alone == ~(popup.token # 0) \/ (popup.alone /\ popup.of = s.of)
      <3>1. popup.token # 0 /\ popup.token = s.token
        BY <1>2, <2>2 DEF Aborted
      <3>2. mergedHits' = mh /\ showFileNotFoundPopup(s.of, "expanded", mh, done, 0)
        BY <2>2 DEF runExpandedSearch
      <3>3. popup \in PopupRecs /\ mergedHits \in [Layers -> Nat] /\ PopupSound(popup, mergedHits, opens)
        BY FilesParts
      <3>4. n \in Nat /\ n \in {0, s.of} /\ s.layer \in Layers /\ s.of \in Nat
        BY <1>2 DEF SearchRecs
      <3>5. mh \in [Layers -> Nat] /\ done \in [Layers -> Nat]
        <4> HIDE DEF n
        <4> QED BY <3>3, <3>4 DEF PopupRecs
      <3>6. alone \in BOOLEAN
        BY <3>3 DEF PopupRecs
      <3>7. alone => mh = done /\ done \in [Layers -> {0, s.of}]
        <4>1. ASSUME alone PROVE mergedHits = popup.done /\ popup.done \in [Layers -> {0, s.of}]
          BY <3>1, <3>3, <4>1 DEF PopupSound
        <4> HIDE DEF n, alone
        <4> QED BY <3>4, <4>1
      <3>8. popup' = [of |-> s.of, mode |-> "expanded", hits |-> mh, shows |-> popup.shows + 0, token |-> popup.token,
                      last |-> popup.last, alone |-> alone, done |-> done]
        <4> HIDE DEF mh, done
        <4> QED BY <3>1, <3>2 DEF showFileNotFoundPopup
      <3> HIDE DEF n, mh, done, alone
      <3>9. popup.shows + 0 = popup.shows /\ popup.shows \in Nat /\ popup.last \in Nat /\ popup.token \in Nat
        BY <3>3 DEF PopupRecs
      <3>10. popup' \in PopupRecs
        BY <3>4, <3>5, <3>6, <3>8, <3>9 DEF PopupRecs
      <3>11. PopupSound(popup', mh, opens)
        BY <1>2, <3>1, <3>3, <3>7, <3>8, <3>9 DEF PopupSound
      <3> QED BY <3>2, <3>5, <3>10, <3>11
    <2> QED BY <2>1, <2>2
  <1>4. Onward(opens', opens)
    BY <1>1, OnwardSame
  <1> QED BY <1>1, <1>3, <1>4, FilesParts, FilesStep

\* A new click; an absolute path is as good as resolved.
LEMMA OpenPathKeeps ==
    ASSUME FilesInv, NEW h \in OpenHosts, NEW ws \in OpenWss \cup {NoWs}, NEW sess \in OpenSessions \cup {NoSession},
           NEW path \in {"absolute", "relative", "home"}, openPath(h, ws, sess, path)
    PROVE  FilesInv'
  <1> DEFINE tgt == IF path = "absolute" THEN Target(ws) ELSE NoWs
             at == IF path = "absolute" THEN "stat" ELSE "resolve"
             q == [host |-> h, ws |-> ws, sess |-> sess, path |-> path, cands |-> <<>>, verified |-> 0,
                   target |-> tgt, at |-> at]
  <1>1. opens' = Append(opens, q) /\ UNCHANGED <<popup, mergedHits, searches, entries, opened, activeWs, ask, auto>>
    BY DEF openPath
  <1>2. tgt \in OpenWss \cup {NoWs} /\ at \in {"resolve", "stat", "cand", "done"} /\ at # "cand"
        /\ (at # "resolve" /\ ws # NoWs => tgt = ws)
    BY FilesParts DEF Target
  <1>3. <<>> \in Seq(Entries)
    OBVIOUS
  <1> HIDE DEF tgt, at
  <1>4. q \in OpenRecs /\ Placed(q)
    BY <1>2, <1>3 DEF OpenRecs, Placed
  <1> HIDE DEF q
  <1>5. /\ opens' \in Seq(OpenRecs) /\ Len(opens') = Len(opens) + 1 /\ opens'[Len(opens) + 1] = q
        /\ \A n \in 1..Len(opens) : opens'[n] = opens[n]
    BY <1>1, <1>4, FilesParts
  <1>6. Onward(opens', opens)
    <2>1. \A n \in 1..Len(opens') : n = Len(opens) + 1 \/ n \in 1..Len(opens)
      BY <1>5, FilesParts
    <2> QED BY <1>4, <1>5, <2>1, FilesParts DEF Onward
  <1>7. PopupSound(popup', mergedHits', opens')
    <2>1. \A n : Ready(n, opens) => Ready(n, opens')
      BY <1>5, FilesParts DEF Ready
    <2> QED BY <1>1, <2>1, FilesParts DEF PopupSound
  <1> QED BY <1>1, <1>6, <1>7, FilesParts, FilesStep

\* The click o with another target, candidates, count and state.
Moved(o, target_, cands, verified, at) ==
    [host |-> opens[o].host, ws |-> opens[o].ws, sess |-> opens[o].sess, path |-> opens[o].path, cands |-> cands,
     verified |-> verified, target |-> target_, at |-> at]

\* What the steps write, field by field.
Writes(s, o, tgt, cands, n, at) ==
    \/ s = [opens[o] EXCEPT !.at = at] /\ tgt = opens[o].target /\ cands = opens[o].cands /\ n = opens[o].verified
    \/ s = [opens[o] EXCEPT !.target = tgt, !.at = at] /\ cands = opens[o].cands /\ n = opens[o].verified
    \/ s = [opens[o] EXCEPT !.cands = cands, !.at = at] /\ tgt = opens[o].target /\ n = opens[o].verified
    \/ s = [opens[o] EXCEPT !.cands = cands, !.verified = n, !.at = at] /\ tgt = opens[o].target

LEMMA MovedFields ==
    ASSUME FilesInv, NEW o \in Ids, NEW tgt, NEW cands, NEW n, NEW at, NEW s, Writes(s, o, tgt, cands, n, at)
    PROVE  s = Moved(o, tgt, cands, n, at)
  <1> DEFINE c == opens[o]
  <1>1. c = [host |-> c.host, ws |-> c.ws, sess |-> c.sess, path |-> c.path, cands |-> c.cands, verified |-> c.verified,
             target |-> c.target, at |-> c.at]
    <2>1. c \in OpenRecs
      BY FilesParts DEF Ids
    <2> QED BY <2>1 DEF OpenRecs
  <1>2. c = opens[o]
    OBVIOUS
  <1> HIDE DEF c
  <1> QED BY <1>1, <1>2 DEF Moved, Writes

LEMMA MovedSet ==
    ASSUME FilesInv, NEW o \in Ids, NEW tgt \in OpenWss \cup {NoWs}, NEW cands \in Seq(Entries), NEW n \in Nat,
           NEW at \in {"stat", "cand", "done"}, opens[o].ws # NoWs => tgt = opens[o].ws, at = "cand" => cands # <<>>
    PROVE  ClickSet([opens EXCEPT ![o] = Moved(o, tgt, cands, n, at)], o, Moved(o, tgt, cands, n, at))
  <1>1. opens[o] \in OpenRecs /\ o \in 1..Len(opens)
    BY FilesParts DEF Ids
  <1>2. Moved(o, tgt, cands, n, at) \in OpenRecs
    BY <1>1 DEF OpenRecs, Moved
  <1> QED BY <1>1, <1>2 DEF ClickSet, Moved, Placed

LEMMA OwnTarget ==
    ASSUME FilesInv, NEW o \in Ids
    PROVE  /\ Target(opens[o].ws) \in OpenWss \cup {NoWs}
           /\ opens[o].ws # NoWs => Target(opens[o].ws) = opens[o].ws
           /\ opens[o].target \in OpenWss \cup {NoWs} /\ opens[o].cands \in Seq(Entries) /\ opens[o].verified \in Nat
           /\ opens[o].host \in OpenHosts /\ o \in 1..Len(opens) /\ o \in Nat
           /\ opens[o].at = "cand" => opens[o].cands # <<>>
           /\ opens[o].at # "resolve" => (opens[o].ws # NoWs => opens[o].target = opens[o].ws)
  <1>1. opens[o] \in OpenRecs /\ Placed(opens[o]) /\ o \in 1..Len(opens)
    BY FilesParts DEF Ids
  <1>2. o \in Nat
    BY <1>1
  <1> QED BY <1>1, <1>2, FilesParts DEF OpenRecs, Placed, Target

\* A path is resolved, or could not be.
LEMMA ResolveSteps ==
    ASSUME FilesInv, NEW o \in Ids, Resolved(o) \/ ResolveFailed(o)
    PROVE  FilesInv'
  <1> DEFINE T == Target(opens[o].ws)
  <1>1. UNCHANGED <<popup, mergedHits, searches, entries, activeWs, ask, auto>>
    BY DEF Resolved, ResolveFailed
  <1>2. PICK at_ \in {"stat", "done"} : opens' = [opens EXCEPT ![o] = [opens[o] EXCEPT !.target = T, !.at = at_]]
    BY FilesParts DEF Resolved, ResolveFailed, Ids
  <1> DEFINE r == Moved(o, T, opens[o].cands, opens[o].verified, at_)
  <1>3. opens' = [opens EXCEPT ![o] = r]
    <2>1. \A s : s = [opens[o] EXCEPT !.target = T, !.at = at_] => Writes(s, o, T, opens[o].cands, opens[o].verified, at_)
      BY DEF Writes
    <2>2. \A s : Writes(s, o, T, opens[o].cands, opens[o].verified, at_) => s = r
      BY MovedFields
    <2> QED BY <1>2, <2>1, <2>2
  <1>4. ClickSet([opens EXCEPT ![o] = r], o, r)
    BY MovedSet, OwnTarget
  <1> HIDE DEF r
  <1>5. Onward(opens', opens) /\ Ready(o, opens') /\ opens'[o] = r /\ PopupSound(popup', mergedHits', opens')
    BY <1>1, <1>3, <1>4, ClickOnward
  <1>6. \A t \in opened' : t \in opened \/ TabPlaced(t, opens')
    <2> DEFINE t == [of |-> o, ws |-> T, path |-> o]
    <2>1. opened' = opened \/ opened' = opened \cup {t}
      BY DEF Resolved, ResolveFailed
    <2>2. opens'[o].ws = opens[o].ws
      BY <1>5, OwnTarget DEF r, Moved
    <2>3. TabPlaced(t, opens')
      BY <1>5, <2>2, OwnTarget DEF TabPlaced, Ready
    <2> HIDE DEF t
    <2> QED BY <2>1, <2>3
  <1> QED BY <1>1, <1>5, <1>6, FilesParts, FilesStep

\* The file is there, or looking for it failed.
LEMMA EndSteps ==
    ASSUME FilesInv, NEW o \in Ids, FileFound(o) \/ StatFailed(o)
    PROVE  FilesInv'
  <1> DEFINE r == Moved(o, opens[o].target, opens[o].cands, opens[o].verified, "done")
  <1>1. /\ UNCHANGED <<popup, mergedHits, searches, entries, activeWs, ask, auto>>
        /\ opens' = [opens EXCEPT ![o] = [opens[o] EXCEPT !.at = "done"]] /\ opens[o].at # "resolve"
        /\ OpenTab(o, o) \/ UNCHANGED opened
    BY FilesParts DEF FileFound, StatFailed, Ids
  <1>2. opens' = [opens EXCEPT ![o] = r]
    <2>1. \A s : s = [opens[o] EXCEPT !.at = "done"] => Writes(s, o, opens[o].target, opens[o].cands, opens[o].verified, "done")
      BY DEF Writes
    <2>2. \A s : Writes(s, o, opens[o].target, opens[o].cands, opens[o].verified, "done") => s = r
      BY MovedFields
    <2> QED BY <1>1, <2>1, <2>2
  <1>3. ClickSet([opens EXCEPT ![o] = r], o, r)
    BY <1>1, MovedSet, OwnTarget
  <1> HIDE DEF r
  <1>4. Onward(opens', opens) /\ PopupSound(popup', mergedHits', opens')
    <2>1. Onward(opens', opens) /\ PopupSound(popup, mergedHits, opens')
      BY <1>2, <1>3, ClickOnward
    <2> QED BY <1>1, <2>1
  <1>5. \A t \in opened' : t \in opened \/ TabPlaced(t, opens')
    <2>1. Ready(o, opens)
      BY <1>1, OwnTarget DEF Ready
    <2>2. \A t \in opened' : t \in opened \/ TabPlaced(t, opens)
      BY <1>1, <2>1, OpenTabPlaced
    <2>3. \A t : TabPlaced(t, opens) => TabPlaced(t, opens')
      BY <1>4, FilesParts DEF TabPlaced, Onward
    <2> QED BY <2>2, <2>3
  <1> QED BY <1>1, <1>4, <1>5, FilesParts, FilesStep

\* The candidates are entries of the cache, in whatever order.
LEMMA Candidates ==
    ASSUME NEW list, list \in Seq(Entries), NEW sess
    PROVE  rankCandidates(list, sess) \in Seq(Entries)
  <1>1. Within(list, OfSession(list, sess)) \in Seq(Entries)
    BY WithinSet
  <1>2. Without(list, OfSession(list, sess)) \in Seq(Entries)
    BY WithoutSet
  <1> QED BY <1>1, <1>2 DEF rankCandidates

\* The file is not there.
LEMMA MissingKeeps ==
    ASSUME FilesInv, NEW o \in Ids, FileMissing(o)
    PROVE  FilesInv'
  <1> DEFINE cands == IF auto THEN rankCandidates(entries[opens[o].host], opens[o].sess) ELSE <<>>
             at == IF ask /\ cands # <<>> THEN "cand" ELSE "done"
             r == Moved(o, opens[o].target, cands, opens[o].verified, at)
  <1>1. /\ UNCHANGED <<searches, entries, opened, activeWs, ask, auto>> /\ opens[o].at # "resolve"
        /\ opens' = [opens EXCEPT ![o] = [opens[o] EXCEPT !.cands = cands, !.at = at]]
        /\ ShowMissing(o, "ask-expand") \/ UNCHANGED <<popup, mergedHits>>
    BY FilesParts DEF FileMissing, Ids
  <1>2. cands \in Seq(Entries)
    <2>1. entries[opens[o].host] \in Seq(Entries)
      BY OwnTarget, FilesParts
    <2>2. rankCandidates(entries[opens[o].host], opens[o].sess) \in Seq(Entries)
      BY <2>1, Candidates
    <2>3. <<>> \in Seq(Entries)
      OBVIOUS
    <2> QED BY <2>2, <2>3
  <1>3. at \in {"stat", "cand", "done"} /\ (at = "cand" => cands # <<>>)
    OBVIOUS
  <1> HIDE DEF cands, at
  <1>4. opens' = [opens EXCEPT ![o] = r]
    <2>1. \A s : s = [opens[o] EXCEPT !.cands = cands, !.at = at] => Writes(s, o, opens[o].target, cands, opens[o].verified, at)
      BY DEF Writes
    <2>2. \A s : Writes(s, o, opens[o].target, cands, opens[o].verified, at) => s = r
      BY MovedFields
    <2> QED BY <1>1, <2>1, <2>2
  <1>5. ClickSet([opens EXCEPT ![o] = r], o, r)
    BY <1>1, <1>2, <1>3, MovedSet, OwnTarget
  <1> HIDE DEF r
  <1>6. Onward(opens', opens) /\ Ready(o, opens') /\ PopupSound(popup, mergedHits, opens')
    BY <1>4, <1>5, ClickOnward
  <1>7. popup' \in PopupRecs /\ mergedHits' \in [Layers -> Nat] /\ PopupSound(popup', mergedHits', opens')
    <2>1. CASE ShowMissing(o, "ask-expand")
      BY <1>6, <2>1, OwnTarget, ShowMissingSound
    <2>2. CASE UNCHANGED <<popup, mergedHits>>
      BY <1>6, <2>2, FilesParts
    <2> QED BY <1>1, <2>1, <2>2
  <1> QED BY <1>1, <1>6, <1>7, FilesParts, FilesStep

\* A candidate is there or not.
LEMMA CandidateKeeps ==
    ASSUME FilesInv, NEW o \in Ids, NEW found \in BOOLEAN, CandidateAnswered(o, found)
    PROVE  FilesInv'
  <1> DEFINE n == opens[o].verified + (IF found THEN 1 ELSE 0)
             at == IF Len(opens[o].cands) = 1 THEN "done" ELSE "cand"
             cands == Tail(opens[o].cands)
             mode == IF n = 0 THEN "ask-expand" ELSE "layer1-multi"
             D == InDir(entries[opens[o].host], Head(opens[o].cands).dir)
             r == Moved(o, opens[o].target, cands, n, at)
  <1>1. opens[o].at = "cand" /\ UNCHANGED <<searches, activeWs, ask, auto>>
    BY DEF CandidateAnswered
  <1>2. opens' = [opens EXCEPT ![o] = [opens[o] EXCEPT !.cands = cands, !.verified = n, !.at = at]]
    BY DEF CandidateAnswered
  <1>3. UNCHANGED entries \/ entries' = [entries EXCEPT ![opens[o].host] = Without(@, D)]
    BY DEF CandidateAnswered, pruneStaleCandidate
  <1>4. OpenTab(o, o) \/ UNCHANGED opened
    BY DEF CandidateAnswered
  <1>5. ShowMissing(o, mode) \/ UNCHANGED <<popup, mergedHits>>
    BY DEF CandidateAnswered
  <1>6. n \in Nat /\ at \in {"stat", "cand", "done"} /\ mode \in {"ask-expand", "layer1-multi"}
    <2>1. (IF found THEN 1 ELSE 0) \in Nat
      OBVIOUS
    <2> QED BY <2>1, OwnTarget
  <1>7. cands \in Seq(Entries) /\ (at = "cand" => cands # <<>>)
    <2>1. opens[o].cands \in Seq(Entries) /\ opens[o].cands # <<>>
      BY <1>1, OwnTarget
    <2>2. cands \in Seq(Entries) /\ Len(opens[o].cands) \in Nat \ {0} /\ Len(cands) = Len(opens[o].cands) - 1
      BY <2>1
    <2>3. at = "cand" => Len(cands) # 0
      BY <2>2
    <2>4. Len(<<>>) = 0
      OBVIOUS
    <2> HIDE DEF at, cands
    <2> QED BY <2>2, <2>3, <2>4
  <1> HIDE DEF n, at, mode, D
  <1> HIDE DEF cands
  <1>8. opens' = [opens EXCEPT ![o] = r]
    <2>1. \A s : s = [opens[o] EXCEPT !.cands = cands, !.verified = n, !.at = at] => Writes(s, o, opens[o].target, cands, n, at)
      BY DEF Writes
    <2>2. \A s : Writes(s, o, opens[o].target, cands, n, at) => s = r
      BY MovedFields
    <2> QED BY <1>2, <2>1, <2>2
  <1>9. ClickSet([opens EXCEPT ![o] = r], o, r)
    BY <1>1, <1>6, <1>7, MovedSet, OwnTarget
  <1> HIDE DEF r
  <1>10. Onward(opens', opens) /\ Ready(o, opens') /\ PopupSound(popup, mergedHits, opens')
    BY <1>8, <1>9, ClickOnward
  <1>11. popup' \in PopupRecs /\ mergedHits' \in [Layers -> Nat] /\ PopupSound(popup', mergedHits', opens')
    <2>1. CASE ShowMissing(o, mode)
      BY <1>6, <1>10, <2>1, OwnTarget, ShowMissingSound
    <2>2. CASE UNCHANGED <<popup, mergedHits>>
      BY <1>10, <2>2, FilesParts
    <2> QED BY <1>5, <2>1, <2>2
  <1>12. entries' \in [OpenHosts -> Seq(Entries)] /\ \A h \in OpenHosts : CacheGood(entries'[h])
    <2>1. CASE UNCHANGED entries
      BY <2>1, FilesParts
    <2>2. CASE entries' = [entries EXCEPT ![opens[o].host] = Without(@, D)]
      <3> DEFINE list == Without(entries[opens[o].host], D)
      <3>1. CacheGood(list)
        BY OwnTarget, FilesParts, CacheWithout
      <3>2. entries' = [entries EXCEPT ![opens[o].host] = list]
        BY <2>2
      <3> HIDE DEF list
      <3> QED BY <3>1, <3>2, OwnTarget, CacheStep
    <2> QED BY <1>3, <2>1, <2>2
  <1>13. \A t \in opened' : t \in opened \/ TabPlaced(t, opens')
    <2>1. Ready(o, opens)
      BY <1>1, OwnTarget DEF Ready
    <2>2. \A t \in opened' : t \in opened \/ TabPlaced(t, opens)
      BY <1>4, <2>1, OpenTabPlaced
    <2>3. \A t : TabPlaced(t, opens) => TabPlaced(t, opens')
      BY <1>10, FilesParts DEF TabPlaced, Onward
    <2> QED BY <2>2, <2>3
  <1> QED BY <1>1, <1>10, <1>11, <1>12, <1>13, FilesParts, FilesStep

LEMMA FilesKeepInv ==
    ASSUME FilesInv, [OpenInput \/ OpenProgress]_openVars
    PROVE  FilesInv'
  <1>1. CASE OpenInput
    BY <1>1, OpenPathKeeps, CacheSteps, PopupSteps DEF OpenInput
  <1>2. CASE OpenProgress
    BY <1>2, ResolveSteps, EndSteps, MissingKeeps, CandidateKeeps, SearchKeeps DEF OpenProgress
  <1>3. CASE UNCHANGED openVars
    BY <1>3 DEF openVars, FilesInv, OpenTypeOK
  <1> QED BY <1>1, <1>2, <1>3

\* A file opens where it was clicked, a dismissed popup stays away, the hits
\* of its searches are merged and the path cache keeps its limit, for any
\* hosts, workspaces, directories and clicks (lib/file-open and the path
\* cache).
THEOREM FilesAlwaysSound == OpenSpec => []FilesSound
  <1>1. FilesInv => FilesSound
    <2>1. SUFFICES ASSUME FilesInv PROVE FilesSound
      OBVIOUS
    <2>2. OpensWhereClicked
      BY <2>1 DEF FilesInv, TabPlaced, OpensWhereClicked
    <2>3. StaysDismissed /\ SearchesMerge
      BY <2>1, FilesParts DEF PopupSound, StaysDismissed, SearchesMerge
    <2>4. CacheSound
      <3>1. \A h \in OpenHosts : DOMAIN entries[h] = 1..Len(entries[h])
        BY <2>1, FilesParts
      <3> QED BY <2>1, <3>1, FilesParts DEF CacheGood, CacheSound
    <2> QED BY <2>2, <2>3, <2>4 DEF FilesSound
  <1> QED BY <1>1, FilesStart, FilesKeepInv, PTL DEF OpenSpec

\* What a click of the shell starts ends where it was aimed, whichever of the
\* three components it is in and however their steps interleave.
THEOREM ClicksAlwaysSound == SlotsSpec /\ OpenSpec /\ NamesSpec => []ClicksSound
  <1>1. CommandsSound /\ FilesSound /\ NamesTrue => ClicksSound
    BY DEF ClicksSound
  <1> QED BY <1>1, CommandsAlwaysSound, FilesAlwaysSound, NamesAlwaysTrue, PTL
=============================================================================
