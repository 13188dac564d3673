---------------------------- MODULE SelfUpdate ----------------------------
(***************************************************************************)
(* The update button: each click is a request that talks to the Docker     *)
(* daemon over its socket, call by call, and at the end starts a detached  *)
(* container that rebuilds the stack the app itself runs in.  The          *)
(* container carries a fixed name, so the daemon holds at most one.        *)
(***************************************************************************)
EXTENDS Naturals, FiniteSets

CONSTANTS
  Clicks,       \* requests to POST /update/apply
  MaxMade       \* Bound: containers ever created

ASSUME UpdateAssumption == MaxMade \in Nat

VARIABLES
  applyOn,      \* app_settings.update_apply_enabled
  box,          \* the container named kangalis-updater: id (0 for none) and state
  made,         \* containers created so far
  click,        \* the requests
  beside,       \* history: the requests in flight when the present container was started
  killed        \* history: requests that removed a running container

updateVars == <<applyOn, box, made, click, beside, killed>>

NoBox     == [id |-> 0, state |-> "none"]
IdleClick == [at |-> "idle", old |-> 0, own |-> 0, blind |-> FALSE]
InFlight  == {r \in Clicks : click[r].at # "idle"}

Keep == UNCHANGED <<applyOn, made, beside, killed>>
Quit(r) == click' = [click EXCEPT ![r] = IdleClick]

\* The opt-in is read first; the app's own container, its compose labels and its project name
\* follow, and any of them may turn the click away.
Apply(r) ==
  /\ click[r].at = "idle" /\ applyOn
  /\ click' = [click EXCEPT ![r].at = "look"] /\ UNCHANGED box /\ Keep

SaveApply(on) == applyOn' = on /\ UNCHANGED <<box, made, click, beside, killed>>

\* A mistake to catch: a running updater is not looked for.
RefusedNever(r) == r \notin Clicks

\* _find_updater: a running one refuses the click; a failing call looks like none.
Refused(r) == box.state = "running"

Look(r) ==
  /\ click[r].at = "look"
  /\ \/ Refused(r) /\ Quit(r)
     \/ /\ ~Refused(r)
        /\ click' = [click EXCEPT ![r].at = IF box.id # 0 THEN "rmold" ELSE "rmname",
                                  ![r].old = box.id]
     \/ click' = [click EXCEPT ![r].at = "rmname", ![r].blind = TRUE]
     \/ Quit(r)
  /\ UNCHANGED box /\ Keep

\* _remove_container with force: a running container is stopped as well; errors are swallowed.
Removed(r) ==
  /\ box' = NoBox
  /\ killed' = IF box.state = "running" THEN killed \cup {r} ELSE killed
  /\ beside' = {}

RemoveOld(r) ==
  /\ click[r].at = "rmold"
  /\ click' = [click EXCEPT ![r].at = "rmname"]
  /\ \/ box.id = click[r].old /\ Removed(r)
     \/ UNCHANGED <<box, killed, beside>>
  /\ UNCHANGED <<applyOn, made>>

RemoveName(r) ==
  /\ click[r].at = "rmname"
  /\ click' = [click EXCEPT ![r].at = "image"]
  /\ \/ box.id # 0 /\ Removed(r)
     \/ UNCHANGED <<box, killed, beside>>
  /\ UNCHANGED <<applyOn, made>>

\* The image is there or is pulled, for up to five minutes; without it the click ends.
Image(r) ==
  /\ click[r].at = "image"
  /\ \/ click' = [click EXCEPT ![r].at = "create"]
     \/ Quit(r)
  /\ UNCHANGED box /\ Keep

\* The daemon refuses a taken name with 409.
Create(r) ==
  /\ click[r].at = "create"
  /\ \/ /\ box.id = 0 /\ made < MaxMade
        /\ made' = made + 1 /\ box' = [id |-> made + 1, state |-> "created"]
        /\ click' = [click EXCEPT ![r].at = "start", ![r].own = made + 1]
     \/ Quit(r) /\ UNCHANGED <<box, made>>
  /\ UNCHANGED <<applyOn, beside, killed>>

Start(r) ==
  /\ click[r].at = "start"
  /\ \/ /\ box.id = click[r].own /\ box' = [box EXCEPT !.state = "running"]
        /\ beside' = InFlight \ {r}
     \/ UNCHANGED <<box, beside>>
  /\ Quit(r) /\ UNCHANGED <<applyOn, made, killed>>

\* The container ends, well or badly; "up -d" restarts the app, whose requests are lost.
Exit ==
  /\ box.state = "running" /\ box' = [box EXCEPT !.state = "exited"]
  /\ UNCHANGED click /\ Keep

AppRestarts ==
  /\ box.state = "running" /\ InFlight # {}
  /\ click' = [r \in Clicks |-> IdleClick]
  /\ UNCHANGED box /\ Keep

UpdateInit ==
  /\ applyOn = FALSE /\ box = NoBox /\ made = 0
  /\ click = [r \in Clicks |-> IdleClick] /\ beside = {} /\ killed = {}

UpdateNext ==
  \/ \E on \in BOOLEAN : SaveApply(on)
  \/ \E r \in Clicks :
        \/ Apply(r) \/ Look(r) \/ RemoveOld(r) \/ RemoveName(r) \/ Image(r) \/ Create(r) \/ Start(r)
  \/ Exit \/ AppRestarts

UpdateSpec == UpdateInit /\ [][UpdateNext]_updateVars

----------------------------------------------------------------------------
UpdateTypeOK ==
  /\ applyOn \in BOOLEAN /\ made \in 0..MaxMade
  /\ box \in [id : 0..MaxMade, state : {"none", "created", "running", "exited"}]
  /\ \A r \in Clicks : click[r].at \in {"idle", "look", "rmold", "rmname", "image", "create", "start"}
  /\ beside \subseteq Clicks /\ killed \subseteq Clicks

\* A running update is cut short only by a click that was already on its way when the update
\* started, or whose look at the daemon failed: one that comes later finds it running and is
\* refused (core/self_update.py:199-202).
RunningKept ==
  [][\A r \in killed' \ killed : r \in beside \/ click[r].blind]_updateVars

=============================================================================
