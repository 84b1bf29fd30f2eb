---------------------------- MODULE StateMachine ----------------------------
(***************************************************************************)
(* LiveStateMachine of state/state_machine.py, as operators on its state   *)
(*                                                                         *)
(*   [state, sub, left]                                                    *)
(*                                                                         *)
(* where left is the time until _cooldown_until (0 once it has passed).    *)
(* The bot owns the only instance and calls it without awaiting, so each   *)
(* method is one operator: old state to new state.                         *)
(***************************************************************************)
EXTENDS Integers

CooldownStates ==
    {"COOLDOWN_FILL", "COOLDOWN_CANCEL", "COOLDOWN_SELF_TRADE", "COOLDOWN_PRICE_SPIKE"}

BotStates ==
    {"INIT", "IDLE", "RUNNING", "EMERGENCY", "SHUTDOWN", "RECONNECT"} \cup CooldownStates

SubStates == {"none", "PLACING", "WAITING"}

MutNoWayBackToRunning(state) ==
    CASE state = "INIT" -> {"IDLE"}
      [] state = "IDLE" -> {"RUNNING", "EMERGENCY", "SHUTDOWN"}
      [] state = "RUNNING" ->
             {"IDLE", "EMERGENCY", "RECONNECT", "SHUTDOWN"} \cup CooldownStates
      [] state \in CooldownStates \cup {"RECONNECT", "EMERGENCY"} -> {"IDLE", "SHUTDOWN"}
      [] state = "SHUTDOWN" -> {}

\* _VALID_TRANSITIONS
ValidTransitions(state) ==
    CASE state = "INIT" -> {"IDLE"}
      [] state = "IDLE" -> {"RUNNING", "EMERGENCY", "SHUTDOWN"}
      [] state = "RUNNING" ->
             {"IDLE", "EMERGENCY", "RECONNECT", "SHUTDOWN"} \cup CooldownStates
      [] state \in CooldownStates \cup {"RECONNECT"} ->
             {"IDLE", "RUNNING", "EMERGENCY", "SHUTDOWN"}
      [] state = "EMERGENCY" -> {"IDLE", "SHUTDOWN"}
      [] state = "SHUTDOWN" -> {}

InitialState == [state |-> "INIT", sub |-> "none", left |-> 0]

\* transition(), for a target the table allows (it raises for any other).
Transition(sm, target) ==
    IF target = sm.state THEN sm
    ELSE [state |-> target,
          sub   |-> IF target = "RUNNING" THEN sm.sub ELSE "none",
          left  |-> IF target \in CooldownStates THEN sm.left ELSE 0]

MutEnterCooldownAdds(sm, kind, duration) ==
    IF sm.state \in {"EMERGENCY", "SHUTDOWN"} THEN sm
    ELSE [Transition(sm, kind) EXCEPT !.left = @ + duration]

\* _enter_cooldown(), ignored once trading has been stopped.
EnterCooldown(sm, kind, duration) ==
    IF sm.state \in {"EMERGENCY", "SHUTDOWN"} THEN sm
    ELSE [Transition(sm, kind) EXCEPT !.left = duration]

\* set_sub_state()
SetSubState(sm, target) ==
    IF sm.state = "RUNNING" THEN [sm EXCEPT !.sub = target] ELSE sm

\* can_place()
CanPlace(sm) ==
    \/ sm.state \in {"IDLE", "RUNNING"}
    \/ sm.state \in CooldownStates /\ sm.left = 0
=============================================================================
