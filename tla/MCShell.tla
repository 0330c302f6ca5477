------------------------------- MODULE MCShell -------------------------------
(***************************************************************************)
(* Checks the shell around the panes: the tabs and workspaces of a window  *)
(* (WorkspaceShell), the browser views of the main process (BrowserViews), *)
(* windows, deep links and updates of the application (AppShell), the      *)
(* quick commands of hosts and workspaces (CommandSlots), the files that   *)
(* are clicked (FileOpen) and the names of the sessions (SessionNames).  A *)
(* behaviour is about one of them, the focus; steps counts the inputs of   *)
(* the user, the operating system and the daemon.  The tabs start empty or *)
(* as a window rehydrates them: two tabs, each at home or in one of two    *)
(* workspaces.                                                             *)
(***************************************************************************)
EXTENDS WorkspaceShell, BrowserViews, AppShell, CommandSlots, FileOpen, SessionNames

CONSTANTS t1, t2, t3, w1, w2, session, browser, settings1, settings2, newtab,
          MaxTabSteps, MaxViewSteps, MaxAppSteps, MaxSlotSteps,   \* bounds on the inputs
          MaxOpenSteps, MaxNameSteps

VARIABLES focus, steps

mcVars == <<shellVars, viewVars, appVars, slotVars, openVars, nameVars, focus, steps>>

MCSettingsOf(w) == IF w = w1 THEN settings1 ELSE settings2

MCOwner == [p \in {"p1", "p2", "m1"} |-> "A"] @@ ("p3" :> "B")

MCTab(c, locked) == [pinned |-> FALSE, locked |-> locked, leaves |-> <<c>>]

MCMembers(w, wsOf) == SelectSeq(<<t1, t2>>, LAMBDA t : wsOf[t] = w)

Rehydrated ==
    /\ \E wsOf \in [{t1, t2} -> {None, w1, w2}], locked \in BOOLEAN, act \in {t1, None} :
        LET ws(w) == [id |-> w, tabs |-> MCMembers(w, wsOf),
                      active |-> IF MCMembers(w, wsOf) = <<>> THEN None
                                 ELSE MCMembers(w, wsOf)[1]]
        IN ui = [tabs |-> (t1 :> MCTab(session, locked)) @@ (t2 :> MCTab(settings1, FALSE)),
                 order |-> <<t1, t2>>, active |-> act, visits |-> <<>>, closed |-> <<>>,
                 wss |-> <<ws(w1), ws(w2)>>, aws |-> wsOf[t1]]
    /\ drag = NoDrag /\ moving = [ws |-> None, tabs |-> {}] /\ migrate = None

FirstNames == CHOOSE f \in [NameCodes -> SessNames] : \A c, d \in NameCodes : c # d => f[c] # f[d]

MCInit ==
    /\ ViewsInit /\ AppInit /\ SlotsInit /\ OpenInit /\ NamesInit /\ steps = 0
    /\ \/ focus = "tabs" /\ (ShellInit \/ Rehydrated)
       \/ focus \in {"views", "app", "slots", "open", "names"} /\ ShellInit
    /\ focus # "slots" => activeHost = (CHOOSE h \in SlotHosts : TRUE) /\ wsTabs = <<>>
    /\ focus # "open" => ~ask
    /\ focus # "names" => server.name = FirstNames /\ \A p \in NamePanes : shown[p].gen = NoGen

Input(bound) == steps < bound /\ steps' = steps + 1

MCTabs ==
    /\ focus = "tabs" /\ UNCHANGED <<focus, viewVars, appVars, slotVars, openVars, nameVars>>
    /\ Input(MaxTabSteps) /\ ShellNext

MCViews ==
    /\ focus = "views" /\ UNCHANGED <<focus, shellVars, appVars, slotVars, openVars, nameVars>>
    /\ (Input(MaxViewSteps) /\ ViewsInput) \/ (ViewsProgress /\ UNCHANGED steps)

MCApp ==
    /\ focus = "app" /\ UNCHANGED <<focus, shellVars, viewVars, slotVars, openVars, nameVars>>
    /\ (Input(MaxAppSteps) /\ AppInput) \/ (AppProgress /\ UNCHANGED steps)

MCSlots ==
    /\ focus = "slots" /\ UNCHANGED <<focus, shellVars, viewVars, appVars, openVars, nameVars>>
    /\ (Input(MaxSlotSteps) /\ SlotsInput) \/ (SlotsProgress /\ UNCHANGED steps)

MCOpen ==
    /\ focus = "open" /\ UNCHANGED <<focus, shellVars, viewVars, appVars, slotVars, nameVars>>
    /\ (Input(MaxOpenSteps) /\ OpenInput) \/ (OpenProgress /\ UNCHANGED steps)

MCNames ==
    /\ focus = "names" /\ UNCHANGED <<focus, shellVars, viewVars, appVars, slotVars, openVars>>
    /\ (Input(MaxNameSteps) /\ NamesInput) \/ (NamesProgress /\ UNCHANGED steps)

MCNext == MCTabs \/ MCViews \/ MCApp \/ MCSlots \/ MCOpen \/ MCNames

MCSpec == MCInit /\ [][MCNext]_mcVars

\* What a click starts reaches what it was meant for, whatever changes while
\* the daemon is asked: a quick command its host and its place, a file its
\* workspace and its popup, a rename the panes of the session renamed.
ClicksSound == CommandsSound /\ FilesSound /\ NamesTrue
=============================================================================
