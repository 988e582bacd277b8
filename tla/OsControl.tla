------------------------------ MODULE OsControl ------------------------------
(***************************************************************************)
(* services/os_control_service.py, the browser and GUI controllers, and    *)
(* the two ways to the shell: the route of an admin and the agent's tool,  *)
(* which alone asks for the risk tier.  The routes run on the threads of a *)
(* pool; the service makes one browser controller on first use, and a      *)
(* controller launches one browser on first use, both without a lock.      *)
(*                                                                         *)
(* External: an object of Playwright's synchronous interface serves only   *)
(* the thread that started it, and a thread that has one running cannot    *)
(* start another; pyautogui moves the one pointer of the desktop and then  *)
(* acts where the pointer is.                                              *)
(***************************************************************************)
EXTENDS Integers, FiniteSets

CONSTANTS Threads, Places, Null,
          Commands,    \* what a command says to the classifier: [patterns, reads]
          MaxActions,  \* bound: actions
          MaxFaults    \* bound: launches that fail

\* RiskTier
HARD_CONFIRM == 3
EXPLICIT == 4

OsAssumption == MaxActions \in Nat /\ Null \notin Nat

\* Actions by number, which also names the controller and the browser that an
\* action makes.
Action == 1 .. MaxActions

VARIABLES service,      \* OSControlService._browser: a controller, or Null
          controller,   \* the objects of each controller, by the launch they are of
          maker,        \* history: controllers made -> the thread that made them
          running,      \* drivers that run: launch -> its thread
          launched,     \* launches whose browser process runs
          pointer,      \* the desktop's pointer
          action,       \* the action of each thread
          ran,          \* history: commands that ran without anybody being asked
          failed,       \* history: launches that failed
          met,          \* history: launches that another one of their controller overlapped
          missed,       \* history: a GUI action that met no other took effect elsewhere
          actions, faults

vars == <<service, controller, maker, running, launched, pointer, action, ran,
          failed, met, missed, actions, faults>>

Idle == [pc |-> "idle"]

NewController == [playwright |-> Null, browser |-> Null, page |-> Null, initialized |-> FALSE]

Init ==
    /\ service = Null
    /\ controller = [c \in Action |-> NewController]
    /\ maker = [c \in {} |-> Null]
    /\ running = [l \in {} |-> Null]
    /\ launched = {}
    /\ pointer \in Places
    /\ action = [t \in Threads |-> Idle]
    /\ ran = {} /\ failed = {} /\ met = {} /\ missed = FALSE
    /\ actions = 0 /\ faults = 0

At(t, pc) == action[t].pc = pc

Goes(t, pc) == action' = [action EXCEPT ![t].pc = pc]

Ends(t) == action' = [action EXCEPT ![t] = Idle]

Begins(t) ==
    /\ action[t] = Idle /\ actions < MaxActions
    /\ actions' = actions + 1

Launching(c) == {t \in Threads : action[t].pc \in {"start", "launch", "page"} /\ action[t].of = c}

desktop == <<pointer, missed>>
browsers == <<controller, running, launched>>

----------------------------------------------------------------------------
\* The browser

\* The property "browser" of the service looks whether there is a controller, ...
BrowserAction(t) ==
    /\ Begins(t)
    /\ action' = [action EXCEPT ![t] = [pc |-> IF service = Null THEN "create" ELSE "fetch",
                                        launch |-> actions + 1, of |-> Null]]
    /\ UNCHANGED <<service, maker, browsers, desktop, ran, failed, met, faults>>

\* ... makes one, in the place of one that another thread has made since, ...
CreateController(t) ==
    /\ At(t, "create")
    /\ service' = action[t].launch
    /\ maker' = [c \in DOMAIN maker \cup {action[t].launch} |->
                    IF c = action[t].launch THEN t ELSE maker[c]]
    /\ Goes(t, "fetch")
    /\ UNCHANGED <<browsers, desktop, ran, failed, met, actions, faults>>

\* ... and reads it again to return it.
FetchController(t) ==
    /\ At(t, "fetch")
    /\ action' = [action EXCEPT ![t].pc = "check", ![t].of = service]
    /\ UNCHANGED <<service, maker, browsers, desktop, ran, failed, met, actions, faults>>

\* As if every action launched a browser, for comparison.
NeedsAlways(c) == TRUE

\* _ensure_browser: nothing to do once it has a page.
NeedsBrowser(c) == ~controller[c].initialized \/ controller[c].page = Null

EnsureBrowser(t) ==
    LET c == action[t].of  others == Launching(c) IN
    /\ At(t, "check")
    /\ IF NeedsBrowser(c)
       THEN /\ Goes(t, "start")
            /\ met' = IF others = {} THEN met
                      ELSE met \cup {action[o].launch : o \in others \cup {t}}
       ELSE Goes(t, "act") /\ UNCHANGED met
    /\ UNCHANGED <<service, maker, browsers, desktop, ran, failed, actions, faults>>

Runs(t) == \E l \in DOMAIN running : running[l] = t

StartPlaywright(t) ==
    LET l == action[t].launch IN
    /\ At(t, "start")
    /\ ~Runs(t)
    /\ controller' = [controller EXCEPT ![action[t].of].playwright = l]
    /\ running' = [x \in DOMAIN running \cup {l} |-> IF x = l THEN t ELSE running[x]]
    /\ Goes(t, "launch")
    /\ UNCHANGED <<service, maker, launched, desktop, ran, failed, met, actions, faults>>

\* An object of the controller that another thread has put there serves nobody else.
Mine(t, object) == running[object] = t

LaunchChromium(t) ==
    LET l == action[t].launch  c == action[t].of IN
    /\ At(t, "launch") /\ Mine(t, controller[c].playwright)
    /\ controller' = [controller EXCEPT ![c].browser = l]
    /\ launched' = launched \cup {l}
    /\ Goes(t, "page")
    /\ UNCHANGED <<service, maker, running, desktop, ran, failed, met, actions, faults>>

NewPage(t) ==
    LET c == action[t].of IN
    /\ At(t, "page") /\ Mine(t, controller[c].browser)
    /\ controller' = [controller EXCEPT ![c] = [@ EXCEPT !.page = controller[c].browser, !.initialized = TRUE]]
    /\ Goes(t, "act")
    /\ UNCHANGED <<service, maker, running, launched, desktop, ran, failed, met, actions, faults>>

\* An error answer: what has been started stays.  It comes from outside, from
\* a driver that this thread already runs, or from the object of another thread.
LaunchFails(t) ==
    LET c == action[t].of IN
    /\ action[t].pc \in {"start", "launch", "page"}
    /\ \/ faults < MaxFaults /\ faults' = faults + 1
       \/ /\ \/ At(t, "start") /\ Runs(t)
             \/ At(t, "launch") /\ ~Mine(t, controller[c].playwright)
             \/ At(t, "page") /\ ~Mine(t, controller[c].browser)
          /\ UNCHANGED faults
    /\ failed' = failed \cup {action[t].launch}
    /\ Ends(t)
    /\ UNCHANGED <<service, maker, browsers, desktop, ran, met, actions>>

\* The handler drives the page, or answers with an error.
Act(t) ==
    /\ At(t, "act")
    /\ Ends(t)
    /\ UNCHANGED <<service, maker, browsers, desktop, ran, failed, met, actions, faults>>

----------------------------------------------------------------------------
\* The desktop

GuiActive == {t \in Threads : action[t].pc \in {"move", "press"}}

\* A GUI action meets those that are going on, and they meet it.
GuiAction(t, place) ==
    /\ Begins(t)
    /\ action' = [u \in Threads |->
                     IF u = t THEN [pc |-> "move", place |-> place, met |-> GuiActive # {}]
                     ELSE IF u \in GuiActive THEN [action[u] EXCEPT !.met = TRUE] ELSE action[u]]
    /\ UNCHANGED <<service, maker, browsers, desktop, ran, failed, met, faults>>

MovePointer(t) ==
    /\ At(t, "move")
    /\ pointer' = action[t].place
    /\ Goes(t, "press")
    /\ UNCHANGED <<service, maker, browsers, missed, ran, failed, met, actions, faults>>

PressThere(t) ==
    /\ At(t, "press")
    /\ missed' = (missed \/ (~action[t].met /\ pointer # action[t].place))
    /\ Ends(t)
    /\ UNCHANGED <<service, maker, browsers, pointer, ran, failed, met, actions, faults>>

----------------------------------------------------------------------------
\* The shell

Highest(S) == CHOOSE n \in S : \A m \in S : m <= n

\* classify_shell_command_risk: a pattern decides, then a reading prefix.
Risk(c) == IF c.patterns # {} THEN Highest(c.patterns)
           ELSE IF c.reads THEN HARD_CONFIRM ELSE EXPLICIT

Asks(c) == Risk(c) >= HARD_CONFIRM

Shell(t) ==
    /\ Begins(t)
    /\ UNCHANGED <<service, maker, browsers, desktop, action, failed, met, faults>>

\* The agent's tool.  The command runs only if nobody has to be asked.  Else the
\* tool interrupts its graph, and _invoke_sub_agent catches the interrupt like
\* any exception: the question reaches no user, and the command is not run.
ExecuteShellCommand(t, c) ==
    /\ Shell(t)
    /\ ran' = IF Asks(c) THEN ran ELSE ran \cup {c}

\* POST /os/shell, for an admin: the tier is noted in the result and the log.
\* How the command finds its session is modelled in PtySessions.
ExecuteShell(t, c) ==
    /\ Shell(t)
    /\ ran' = ran \cup {c}

Next ==
    \E t \in Threads :
      \/ BrowserAction(t) \/ CreateController(t) \/ FetchController(t) \/ EnsureBrowser(t)
      \/ StartPlaywright(t) \/ LaunchChromium(t) \/ NewPage(t) \/ LaunchFails(t) \/ Act(t)
      \/ \E place \in Places : GuiAction(t, place)
      \/ MovePointer(t) \/ PressThere(t)
      \/ \E c \in Commands : ExecuteShellCommand(t, c) \/ ExecuteShell(t, c)

Spec == Init /\ [][Next]_vars

----------------------------------------------------------------------------
InProgress == {action[t].launch : t \in {t \in Threads : action[t].pc = "page"}}

TypeOK ==
    /\ service \in DOMAIN maker \cup {Null} /\ DOMAIN maker \subseteq Action
    /\ \A c \in Action : {controller[c].browser, controller[c].page} \subseteq launched \cup {Null}
    /\ launched \subseteq DOMAIN running /\ DOMAIN running \subseteq Action

\* The service makes a controller, and a controller its browser, on first use,
\* on any thread and unlocked (os_control_service.py:107-111,
\* browser_controller.py:37-59).  However first uses overlap, launches fail and
\* controllers take each other's place, no thread makes a second controller or
\* runs a second driver, so that both are limited by the threads of the pool.
\* A browser process that is no controller's page was left by a launch that
\* failed or that another launch of its controller overlapped; the objects of a
\* controller whose page comes from no such overlap belong together.  A GUI
\* action that met no other takes effect where it was asked to.
ControlsAccounted ==
    /\ TypeOK
    /\ \A c, d \in DOMAIN maker : maker[c] = maker[d] => c = d
    /\ \A l, k \in DOMAIN running : running[l] = running[k] => l = k
    /\ \A l \in launched \ (failed \cup met \cup InProgress) : \E c \in DOMAIN maker : controller[c].page = l
    /\ \A c \in DOMAIN maker :
          LET b == controller[c] IN
          b.page # Null /\ b.page \notin met => b.browser = b.page /\ b.playwright = b.page /\ b.initialized
    /\ ~missed
=============================================================================
