----------------------------- MODULE Lifecycle -----------------------------
(***************************************************************************)
(* How the process ends: the four ways to ask for it (a signal, the tray's *)
(* Quit, the dashboard's Shutdown and Restart), the context, quitCh and    *)
(* its waiter, the tray's event loop that holds the main goroutine on      *)
(* macOS, the wait for the subsystems, the drain and the restart.          *)
(*                                                                         *)
(* A process may be started without a team (first run): then the dashboard *)
(* is its only subsystem.  Nothing is claimed of a process a panic ended.  *)
(*                                                                         *)
(* MainLoopProofs extends this module and MainLoop, so their names differ. *)
(***************************************************************************)
EXTENDS Integers, FiniteSets

CONSTANTS
  Requests,     \* shutdown and restart requests posted to the dashboard
  Subsystems,   \* the goroutines of a full start, apart from the dashboard
  Dashboard,
  None          \* nobody has cancelled the context

\* The goroutine behind sigCh and quitCh.
Waiter == "waiter"

ASSUME LifecycleAssumption ==
  /\ Dashboard \notin Subsystems
  /\ {None, Waiter} \cap Requests = {} /\ None # Waiter

VARIABLES
  macOS,     \* the tray must run on the main goroutine
  full,      \* a team is configured
  main,      \* "tray", "waiting", "draining", "deciding"
  outcome,   \* "running", "exited", "restarted", "failed", "panicked"
  running,   \* subsystems whose goroutine has not returned
  ctxDone,
  waiter,    \* "waiting", "cancel", "stop", "gone"
  sigCh,     \* a signal is buffered
  quitCh,    \* a token is buffered
  quitClosed,  \* close(quitCh) has happened
  tray,      \* "off", "on", "ended"
  trayStop,  \* systray.Quit: "no" call yet, "asked", or "lost"
  menu,      \* the menu's goroutine: "off", "on", "stopping", "gone"
  hook,      \* hook[r]: "none", "delay", "flag", "cancel", "send", "done"
  kind,      \* kind[r]: "shutdown" or "restart"
  restart,   \* restartRequested: "no", "yes", or "late" when set after ctxDone
  cause      \* history: who cancelled the context first

asked    == <<hook, kind>>
channels == <<sigCh, quitCh, quitClosed>>
icon     == <<tray, trayStop, menu>>
endVars == <<macOS, full, main, outcome, running, ctxDone, waiter, channels, icon, asked,
          restart, cause>>

EndTypeOK ==
  /\ {macOS, full, ctxDone, sigCh, quitCh, quitClosed} \subseteq BOOLEAN
  /\ main \in {"tray", "waiting", "draining", "deciding"}
  /\ outcome \in {"running", "exited", "restarted", "failed", "panicked"}
  /\ running \subseteq Subsystems \cup {Dashboard}
  /\ waiter \in {"waiting", "cancel", "stop", "gone"}
  /\ tray \in {"off", "on", "ended"} /\ trayStop \in {"no", "asked", "lost"}
  /\ menu \in {"off", "on", "stopping", "gone"}
  /\ hook \in [Requests -> {"none", "delay", "flag", "cancel", "send", "done"}]
  /\ kind \in [Requests -> {"shutdown", "restart"}]
  /\ restart \in {"no", "yes", "late"}
  /\ cause \in Requests \cup {None, Waiter}

EndInit ==
  /\ macOS \in BOOLEAN /\ full \in BOOLEAN
  /\ main = IF macOS THEN "tray" ELSE "waiting"
  /\ outcome = "running"
  /\ running = IF full THEN Subsystems \cup {Dashboard} ELSE {Dashboard}
  /\ ctxDone = FALSE /\ waiter = "waiting"
  /\ sigCh = FALSE /\ quitCh = FALSE /\ quitClosed = FALSE
  /\ tray = "off" /\ trayStop = "no" /\ menu = "off"
  /\ hook = [r \in Requests |-> "none"] /\ kind \in [Requests -> {"shutdown", "restart"}]
  /\ restart = "no" /\ cause = None

Alive == outcome = "running"

\* cancel(): only the first call has an effect.
CancelBy(who) ==
  /\ ctxDone' = TRUE
  /\ cause' = IF ctxDone THEN cause ELSE who

-----------------------------------------------------------------------------
(* The dashboard's two buttons *)

\* The answer is written and flushed; the hook waits 500 ms in a goroutine of
\* its own, whatever happens meanwhile.
Ask(r) ==
  /\ Alive /\ Dashboard \in running
  /\ hook[r] = "none"
  /\ hook' = [hook EXCEPT ![r] = "delay"]
  /\ UNCHANGED <<macOS, full, main, outcome, running, ctxDone, waiter, channels, icon,
                 kind, restart, cause>>

\* Mutant: the restart hook cancels before it sets the flag.
Fire_CancelsFirst(r) ==
  /\ Alive
  /\ hook[r] = "delay"
  /\ hook' = [hook EXCEPT ![r] = IF kind[r] = "restart" THEN "flag" ELSE "cancel"]
  /\ CancelBy(r)
  /\ UNCHANGED <<macOS, full, main, outcome, running, waiter, channels, icon, kind,
                 restart>>

Fire(r) ==
  /\ Alive
  /\ hook[r] = "delay"
  /\ hook' = [hook EXCEPT ![r] = IF kind[r] = "restart" THEN "flag" ELSE "cancel"]
  /\ UNCHANGED <<macOS, full, main, outcome, running, ctxDone, waiter, channels, icon,
                 kind, restart, cause>>

\* The write is ordered before the main goroutine's read by the cancellation,
\* unless somebody else has cancelled already: then the two race.
Flag(r) ==
  /\ Alive
  /\ hook[r] = "flag"
  /\ hook' = [hook EXCEPT ![r] = "cancel"]
  /\ restart' = IF ctxDone /\ restart # "yes" THEN "late" ELSE "yes"
  /\ UNCHANGED <<macOS, full, main, outcome, running, ctxDone, waiter, channels, icon,
                 kind, cause>>

HookCancels(r) ==
  /\ Alive
  /\ hook[r] = "cancel"
  /\ hook' = [hook EXCEPT ![r] = "send"]
  /\ CancelBy(r)
  /\ UNCHANGED <<macOS, full, main, outcome, running, waiter, channels, icon, kind,
                 restart>>

\* Mutant: the hook tells nobody but the context.
SendQuit_Skipped(r) ==
  /\ Alive
  /\ hook[r] = "send"
  /\ hook' = [hook EXCEPT ![r] = "done"]
  /\ UNCHANGED <<macOS, full, main, outcome, running, ctxDone, waiter, channels, icon,
                 kind, restart, cause>>

\* Mutant: the hook closes quitCh, as the tray does.
SendQuit_Closes(r) ==
  /\ Alive
  /\ hook[r] = "send"
  /\ hook' = [hook EXCEPT ![r] = "done"]
  /\ quitClosed' = TRUE
  /\ outcome' = IF quitClosed THEN "panicked" ELSE outcome
  /\ UNCHANGED <<macOS, full, main, running, ctxDone, waiter, sigCh, quitCh, icon, kind,
                 restart, cause>>

\* The select sends if the buffer has room; on a closed channel it panics.
SendQuit(r) ==
  /\ Alive
  /\ hook[r] = "send"
  /\ hook' = [hook EXCEPT ![r] = "done"]
  /\ quitCh' = (quitCh \/ ~quitClosed)
  /\ outcome' = IF quitClosed THEN "panicked" ELSE outcome
  /\ UNCHANGED <<macOS, full, main, running, ctxDone, waiter, sigCh, quitClosed, icon, kind,
                 restart, cause>>

Hook(r) == Fire(r) \/ Flag(r) \/ HookCancels(r) \/ SendQuit(r)

-----------------------------------------------------------------------------
(* Signals, the waiter, the tray *)

Interrupt ==
  /\ Alive /\ ~sigCh
  /\ sigCh' = TRUE
  /\ UNCHANGED <<macOS, full, main, outcome, running, ctxDone, waiter, quitCh, quitClosed,
                 icon, asked, restart, cause>>

\* The select over sigCh and quitCh; a closed channel is always ready.
Wake ==
  /\ Alive
  /\ waiter = "waiting"
  /\ \/ sigCh /\ sigCh' = FALSE /\ UNCHANGED quitCh
     \/ (quitCh \/ quitClosed) /\ quitCh' = FALSE /\ UNCHANGED sigCh
  /\ waiter' = "cancel"
  /\ UNCHANGED <<macOS, full, main, outcome, running, ctxDone, quitClosed, icon, asked,
                 restart, cause>>

WaiterCancels ==
  /\ Alive
  /\ waiter = "cancel"
  /\ waiter' = "stop"
  /\ CancelBy(Waiter)
  /\ UNCHANGED <<macOS, full, main, outcome, running, channels, icon, asked, restart>>

\* systray.Quit: its quitOnce lets only the first call through.  Before the tray
\* has registered itself, macOS sends that call to a nil owner, and Windows to
\* no window; the Unix tray keeps it.
StopTray ==
  IF trayStop # "no" THEN UNCHANGED trayStop
  ELSE trayStop' \in CASE tray # "off" -> {"asked"}
                      [] tray = "off" /\ macOS -> {"lost"}
                      [] OTHER -> {"asked", "lost"}

WaiterStopsTray ==
  /\ Alive
  /\ waiter = "stop"
  /\ waiter' = "gone"
  /\ StopTray
  /\ UNCHANGED <<macOS, full, main, outcome, running, ctxDone, channels, tray, menu, asked,
                 restart, cause>>

\* systray.Run registers the tray and calls onReady, which starts the menu's
\* goroutine.
TrayStarts ==
  /\ Alive
  /\ tray = "off"
  /\ tray' = "on" /\ menu' = "on"
  /\ UNCHANGED <<macOS, full, main, outcome, running, ctxDone, waiter, channels, trayStop,
                 asked, restart, cause>>

\* systray.Run returns, and with it the main goroutine's Start on macOS.
TrayEnds ==
  /\ Alive
  /\ tray = "on" /\ trayStop = "asked"
  /\ tray' = "ended"
  /\ main' = IF main = "tray" THEN "waiting" ELSE main
  /\ UNCHANGED <<macOS, full, outcome, running, ctxDone, waiter, channels, trayStop, menu,
                 asked, restart, cause>>

ClickQuit ==
  /\ Alive
  /\ menu = "on" /\ tray = "on"
  /\ menu' = "stopping"
  /\ quitClosed' = TRUE
  /\ UNCHANGED <<macOS, full, main, outcome, running, ctxDone, waiter, sigCh, quitCh, tray,
                 trayStop, asked, restart, cause>>

MenuStopsTray ==
  /\ Alive
  /\ menu = "stopping"
  /\ menu' = "gone"
  /\ StopTray
  /\ UNCHANGED <<macOS, full, main, outcome, running, ctxDone, waiter, channels, tray,
                 asked, restart, cause>>

-----------------------------------------------------------------------------
(* Subsystems and the end of main *)

\* A goroutine of the wait group returns.  The dashboard also does so when
\* its port is taken, and then while others still listen to the context.
SubsystemEnds(s) ==
  /\ Alive
  /\ s \in running /\ (ctxDone \/ s = Dashboard)
  /\ running' = running \ {s}
  /\ UNCHANGED <<macOS, full, main, outcome, ctxDone, waiter, channels, icon, asked,
                 restart, cause>>

\* wg.Wait; without an uploader there is nothing to drain.
Waited ==
  /\ Alive
  /\ main = "waiting" /\ running = {}
  /\ main' = IF full THEN "draining" ELSE "deciding"
  /\ UNCHANGED <<macOS, full, outcome, running, ctxDone, waiter, channels, icon, asked,
                 restart, cause>>

Drained ==
  /\ Alive
  /\ main = "draining"
  /\ main' = "deciding"
  /\ UNCHANGED <<macOS, full, outcome, running, ctxDone, waiter, channels, icon, asked,
                 restart, cause>>

\* RestartSelf replaces the process or fails.
Decide ==
  /\ Alive
  /\ main = "deciding"
  /\ \/ restart # "no" /\ outcome' \in {"restarted", "failed"}
     \/ restart # "yes" /\ outcome' = "exited"
  /\ UNCHANGED <<macOS, full, main, running, ctxDone, waiter, channels, icon, asked,
                 restart, cause>>

-----------------------------------------------------------------------------

EndNext ==
  \/ \E r \in Requests : Ask(r) \/ Fire(r) \/ Flag(r) \/ HookCancels(r) \/ SendQuit(r)
  \/ Interrupt \/ Wake \/ WaiterCancels \/ WaiterStopsTray
  \/ TrayStarts \/ TrayEnds \/ ClickQuit \/ MenuStopsTray
  \/ \E s \in Subsystems \cup {Dashboard} : SubsystemEnds(s)
  \/ Waited \/ Drained \/ Decide

EndSpec == EndInit /\ [][EndNext]_endVars

\* Goroutines run, subsystems obey the context, the drain has a deadline.
\* Nobody has to press a button, and no port has to be taken.
Fairness ==
  /\ \A r \in Requests : WF_endVars(Hook(r))
  /\ WF_endVars(Wake \/ WaiterCancels \/ WaiterStopsTray)
  /\ WF_endVars(TrayStarts) /\ WF_endVars(TrayEnds) /\ WF_endVars(MenuStopsTray)
  /\ \A s \in Subsystems \cup {Dashboard} : WF_endVars(ctxDone /\ SubsystemEnds(s))
  /\ WF_endVars(Waited \/ Drained \/ Decide)

EndFairSpec == EndSpec /\ Fairness

-----------------------------------------------------------------------------
(* Properties *)

\* When the Restart button is what ends the process, the process is replaced,
\* or the attempt to replace it failed; it never just exits
\* (main.go:465-473, 569-578).
RestartHonoured ==
  outcome = "exited" => ~\E r \in Requests : cause = r /\ kind[r] = "restart"

\* Buttons of the dashboard and signals, in any number and at any time, never
\* panic on quitCh; that takes a click on the tray's Quit (tray.go:103-108,
\* main.go:460-463).
PanicNeedsQuit == outcome = "panicked" => menu \in {"stopping", "gone"}

Asked == sigCh \/ quitClosed \/ \E r \in Requests : hook[r] # "none"

\* The main goroutine is, or will be, in an event loop that nothing can end any
\* more, and everything else has come to an end.
Stranded == macOS /\ main = "tray" /\ trayStop = "lost" /\ running = {}

\* Any request to end the process ends it, on macOS too, where the main
\* goroutine first has to come back from the tray (main.go:522-551): a token for
\* the waiter may find the buffer full, the two ways to stop the tray share one
\* quitOnce.  The one exception is a stop that comes before the tray has
\* registered itself on macOS, and even that ends all subsystems.
EventuallyEnds == Asked ~> ~Alive \/ Stranded

\* main.go:539, of the tray on macOS: "blocks until Stop() is called".  So that
\* every request ends the process.  The code does not keep to it: a Stop before
\* the tray has registered itself is lost, and with it every later one.
StopUnblocks == Asked ~> ~Alive
=============================================================================
