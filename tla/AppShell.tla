------------------------------ MODULE AppShell ------------------------------
(***************************************************************************)
(* The main process of the application: its windows and their renderers,   *)
(* deep links, tabs and workspaces handed to a new window, and the updater *)
(* of development builds.                                                  *)
(* Windows are numbered in the order they are created.                     *)
(***************************************************************************)
EXTENDS Integers, FiniteSets, Sequences, FiniteSetsExt, Lists

CONSTANTS Links,      \* deep links, each opened once by the user
          MaxWins, Parts   \* bound on windows; directories of the application

ASSUME AppAssumption == MaxWins \in Nat \ {0}

VARIABLES appReady, preReady,   \* before and after app.whenReady
          pendingLinks,         \* links no window could take yet
          rend,                 \* renderer of each window
          readyIds,             \* windows whose renderer has signalled ready
          focusedWin,           \* 0 for none
          gift,                 \* payload waiting for a new window's renderer
          sent, got,            \* deliveries of each link, of each gift
          upd,                  \* update under way
          install               \* version of each directory

appVars == <<appReady, preReady, pendingLinks, rend, readyIds, focusedWin, gift, sent, got, upd, install>>

W == 1..MaxWins
OpenWins(r) == {w \in W : r[w] \in {"loading", "up"}}

\* The record of everything a handler may change in one turn.
Shell == [rend |-> rend, ready |-> readyIds, focus |-> focusedWin, gift |-> gift,
          pend |-> pendingLinks, sent |-> sent, got |-> got]
SetShell(s) ==
    /\ rend' = s.rend /\ readyIds' = s.ready /\ focusedWin' = s.focus /\ gift' = s.gift
    /\ pendingLinks' = s.pend /\ sent' = s.sent /\ got' = s.got

AppInit ==
    /\ appReady = FALSE /\ preReady = <<>> /\ pendingLinks = <<>>
    /\ rend = [w \in W |-> "none"] /\ readyIds = {} /\ focusedWin = 0
    /\ gift = [w \in W |-> FALSE]
    /\ sent = [l \in Links |-> 0] /\ got = [w \in W |-> 0]
    /\ upd = [at |-> "none", mixed |-> FALSE] /\ install = [d \in Parts |-> "old"]

-----------------------------------------------------------------------------
(* WindowManager.                                                          *)

HasRoom(s) == \E w \in W : s.rend[w] = "none"
NewWin(s) == Min({w \in W : s.rend[w] = "none"})

createWindow(s, payload) ==
    LET w == NewWin(s) IN [s EXCEPT !.rend[w] = "loading", !.gift[w] = payload, !.focus = w]

\* The first window is shown and focused; without one, one is created.
showOrCreate(s) ==
    IF OpenWins(s.rend) # {} THEN [s EXCEPT !.focus = Min(OpenWins(s.rend))]
    ELSE createWindow(s, FALSE)

\* A tab or workspace torn off goes to a window of its own when that is
\* ready; a merge is sent to the renderer of an open window.
handleTearOff ==
    /\ appReady /\ OpenWins(rend) # {} /\ HasRoom(Shell)
    /\ SetShell(createWindow(Shell, TRUE))
    /\ UNCHANGED <<appReady, preReady, upd, install>>

CloseWindow(w) ==
    /\ w \in OpenWins(rend)
    /\ SetShell([Shell EXCEPT !.rend[w] = "closed", !.gift[w] = FALSE, !.ready = @ \ {w},
                              !.focus = IF @ = w THEN 0 ELSE @])
    /\ UNCHANGED <<appReady, preReady, upd, install>>

\* Reload by the page, by switching the source of the page, or after a crash.
ReloadWindow(w) ==
    /\ rend[w] = "up" /\ rend' = [rend EXCEPT ![w] = "loading"]
    /\ UNCHANGED <<appReady, preReady, pendingLinks, readyIds, focusedWin, gift, sent, got, upd, install>>

FocusWindow(w) ==
    /\ w \in OpenWins(rend) \cup {0} /\ focusedWin # w /\ focusedWin' = w
    /\ UNCHANGED <<appReady, preReady, pendingLinks, rend, readyIds, gift, sent, got, upd, install>>

-----------------------------------------------------------------------------
(* Deep links.                                                             *)

\* The focused window when it is ready, else the first ready one.
pickDeeplinkTarget(s) ==
    LET live == s.ready \cap OpenWins(s.rend)
    IN IF live = {} THEN 0 ELSE IF s.focus \in live THEN s.focus ELSE Min(live)

deliverDeeplink(s, l) ==
    IF pickDeeplinkTarget(s) = 0 THEN [s EXCEPT !.pend = Append(@, l)]
    ELSE [s EXCEPT !.sent[l] = @ + 1]

handleDeeplink(s, l) == deliverDeeplink(showOrCreate(s), l)

Known == ToSet(preReady) \cup ToSet(pendingLinks) \cup {l \in Links : sent[l] > 0}

\* open-url, or a second instance started with a link.
OpenLink(l) ==
    /\ l \notin Known
    /\ IF appReady THEN (OpenWins(rend) # {} \/ HasRoom(Shell)) /\ SetShell(handleDeeplink(Shell, l)) /\ UNCHANGED preReady
       ELSE preReady' = Append(preReady, l) /\ SetShell(Shell)
    /\ UNCHANGED <<appReady, upd, install>>

WhenReady ==
    /\ ~appReady /\ appReady' = TRUE /\ preReady' = <<>>
    /\ LET F[i \in 0..Len(preReady)] ==
               IF i = 0 THEN createWindow(Shell, FALSE) ELSE handleDeeplink(F[i - 1], preReady[i])
       IN SetShell(F[Len(preReady)])
    /\ UNCHANGED <<upd, install>>

\* Seeded fault: the links that waited are not taken off the list.
BugSpaReady(w) ==
    SetShell([Shell EXCEPT !.rend[w] = "up", !.ready = @ \cup {w},
        !.got[w] = IF gift[w] THEN @ + 1 ELSE @, !.gift[w] = FALSE,
        !.sent = [l \in Links |-> IF l \in ToSet(pendingLinks) THEN @[l] + 1 ELSE @[l]]])

\* A renderer signals that it listens: the window takes its payload, once,
\* and the links that waited for any window.
spaReady(w) ==
    SetShell([Shell EXCEPT !.rend[w] = "up", !.ready = @ \cup {w},
        !.got[w] = IF gift[w] THEN @ + 1 ELSE @, !.gift[w] = FALSE,
        !.sent = [l \in Links |-> IF l \in ToSet(pendingLinks) THEN @[l] + 1 ELSE @[l]],
        !.pend = <<>>])

RendererReady(w) ==
    /\ rend[w] = "loading" /\ spaReady(w)
    /\ UNCHANGED <<appReady, preReady, upd, install>>

-----------------------------------------------------------------------------
(* The updater.                                                            *)

\* dev:apply-update, from any window: one at a time.
ApplyUpdate ==
    /\ OpenWins(rend) # {} /\ upd.at = "none" /\ upd' = [upd EXCEPT !.at = "download"]
    /\ UNCHANGED <<appReady, preReady, pendingLinks, rend, readyIds, focusedWin, gift, sent, got, install>>

Downloaded(ok) ==
    /\ upd.at \in {"download", "extract"}
    /\ upd' = [upd EXCEPT !.at = IF ~ok THEN "none" ELSE IF upd.at = "download" THEN "extract" ELSE "apply"]
    /\ UNCHANGED <<appReady, preReady, pendingLinks, rend, readyIds, focusedWin, gift, sent, got, install>>

\* Seeded fault: only the directory that failed is put back.
BugRollback(done, failed, stuck) ==
    [d \in Parts |-> IF d \in done THEN "new" ELSE IF d = failed /\ d \in stuck THEN "gone" ELSE install[d]]

\* Every directory comes back from its backup, unless that fails too.
rollback(done, failed, stuck) ==
    [d \in Parts |-> IF d \notin stuck THEN install[d]
                     ELSE IF d \in done THEN "new" ELSE IF d = failed THEN "gone" ELSE install[d]]

\* The directories are swapped one after the other in one turn.  A failure,
\* at any of them, undoes the swap; the application restarts on success.
Swapped ==
    /\ upd.at = "apply" /\ install' = [d \in Parts |-> "new"]
    /\ upd' = [upd EXCEPT !.at = "none", !.mixed = FALSE]
    /\ appReady' = FALSE /\ preReady' = <<>>
    /\ SetShell([Shell EXCEPT !.rend = [w \in W |-> IF @[w] = "none" THEN "none" ELSE "closed"], !.ready = {},
                              !.focus = 0, !.pend = <<>>, !.gift = [w \in W |-> FALSE]])
    /\ HasRoom(Shell)

SwapFails(done, failed, stuck) ==
    /\ upd.at = "apply" /\ failed \notin done
    /\ install' = rollback(done, failed, stuck)
    /\ upd' = [upd EXCEPT !.at = "none", !.mixed = @ \/ stuck # {}]
    /\ UNCHANGED <<appReady, preReady, pendingLinks, rend, readyIds, focusedWin, gift, sent, got>>

AppInput ==
    \/ handleTearOff \/ ApplyUpdate
    \/ \E l \in Links : OpenLink(l)
    \/ \E w \in W : CloseWindow(w) \/ ReloadWindow(w)
    \/ \E w \in W \cup {0} : FocusWindow(w)

AppProgress ==
    \/ WhenReady \/ Swapped
    \/ \E w \in W : RendererReady(w)
    \/ \E ok \in BOOLEAN : Downloaded(ok)
    \/ \E done, stuck \in SUBSET Parts, failed \in Parts : SwapFails(done, failed, stuck)

AppSpec == AppInit /\ [][AppInput \/ AppProgress]_appVars

-----------------------------------------------------------------------------
(* Properties.                                                             *)

\* A deep link is sent to one window only, whichever windows are loading,
\* reload or close, and what is handed to a new window arrives once: a
\* reload does not replace the window's tabs again.
DeliveredOnce == (\A l \in Links : sent[l] <= 1) /\ (\A w \in W : got[w] <= 1)

\* A failed update leaves the application whole: all of its directories, of
\* one version, unless putting one back has failed as well.
InstallWhole ==
    upd.mixed \/ \E v \in {"old", "new"} : \A d \in Parts : install[d] = v
=============================================================================
