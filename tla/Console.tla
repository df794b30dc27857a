------------------------------- MODULE Console -------------------------------
(***************************************************************************)
(* The dashboard in the browser: its screens with their routing and        *)
(* loading, and the blocks of the settings screen.  The two share no state *)
(* but the address, so that a behaviour works with one of them; requests   *)
(* and timers of both are scheduled alike.                                 *)
(***************************************************************************)
EXTENDS Screens, Settings

VARIABLE desk    \* what the operator works with
console_vars == <<desk, screens_vars, settings_vars>>

\* What is not used starts in one way only.
Unused ==
    /\ desk # "screens" => current = (CHOOSE h \in Opened : TRUE).screen /\ ~scan
    /\ desk # "settings" => block = CHOOSE b \in Blocks : TRUE

Init == desk \in {"screens", "settings"} /\ ScreensInit /\ SettingsInit /\ Unused
InScreens == desk = "screens" /\ UNCHANGED <<desk, settings_vars>>
InSettings == desk = "settings" /\ UNCHANGED <<desk, screens_vars>>
Next == (InScreens /\ ScreensNext) \/ (InSettings /\ SettingsNext)
Spec == Init /\ [][Next]_console_vars

\* On the screens requests are answered or fail, timers fire and a scan ends;
\* in the settings timers run, and a poll is answered or fails.  The process
\* that is updated need not come back.
FairSpec ==
    /\ Spec
    /\ \A s \in Slots : WF_console_vars(InScreens /\ AnswerSome(s)) /\ WF_console_vars(InScreens /\ Settle(s))
    /\ WF_console_vars(InScreens /\ Tick) /\ WF_console_vars(InScreens /\ Poll)
    /\ WF_console_vars(InScreens /\ ScanEnds)
    /\ \A f \in FollowSlots : WF_console_vars(InSettings /\ Polled(f))
    /\ WF_console_vars(InSettings /\ \E f \in FollowSlots : Late(f) \/ Over(f))

-----------------------------------------------------------------------------
\* A live screen that stays in view, with no dialog open and no cable lifted,
\* catches up: although a click during a load is not loaded for, and requests
\* fail, its parts end up with the server's data for the parameters the operator
\* chose (refresh and the interval at its end).  A cable that is left hanging on
\* the containers screen holds back every screen, so that none of them does.
LiveCatchesUp == []<>(desk = "screens" /\ TickGuard => CaughtUp)

\* The screens hold: their variables have their types and one load of refresh()
\* runs while its flag is up, a page opened on the hash looks the same, and the
\* pills beside the scores say what the ban list below them says.
ScreensTrue == ScreensTypeOK /\ HashIsView /\ PillsMatchBans

\* The settings hold: their variables have their types, and what the screen says
\* is so, of its switches, fields and token, and of an update that it followed.
SettingsTrue == SettingsTypeOK /\ SettingsShown /\ VerdictTrue
===============================================================================
