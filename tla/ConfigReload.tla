---------------------------- MODULE ConfigReload ----------------------------
(***************************************************************************)
(* The configuration file, the watcher that polls it (config/watcher.py),  *)
(* the guard that holds dangerous changes until they are confirmed         *)
(* (config/guard.py), and the two ways they are used: a long-lived caller  *)
(* of the library, and gate-admin (scripts/gate_admin.py), of which every  *)
(* command is a process of its own with a watcher and a guard of its own.  *)
(*                                                                         *)
(* Somebody edits the file at any moment, also between two system calls of *)
(* the watcher, and the file's mtime is whatever the editor leaves.  A     *)
(* file is a "mapping" from the known keys (NoValue: absent or null),      *)
(* "unreadable" (half written, or no mapping), or "missing".               *)
(***************************************************************************)
EXTENDS Integers, SequencesExt

CONSTANTS
    ConfigKeys,     \* the keys that are followed
    ReloadLevel,    \* _LEVEL_MAP with its default: 1 hot, 2 confirm, 3 restart
    Files,          \* what the file may hold: [kind, keys]
    Expiry,         \* guard: auto_expire_sec
    MaxMtime,       \* bound: modification times
    MaxEdits,       \* bound: edits of the file
    MaxTokens,      \* bound: batches submitted
    MaxClock        \* bound: the monotonic clock

ASSUME ConfigAssumption ==
    /\ IsFiniteSet(ConfigKeys) /\ Expiry \in Nat
    /\ Files \subseteq [kind : {"mapping", "unreadable", "missing"}, keys : [ConfigKeys -> Nat]]

VARIABLES
    user,       \* "caller" of the library or "admin"; never changes
    file,       \* [kind, keys, mtime]
    edits,
    watcher,    \* [mtime: _last_mtime, snapshot, pending: _pending_confirm]
    latest,     \* history: the latest mtime the file has had
    pc,         \* none: no process; read: __init__ before its stat; ready;
                \* stated: poll() before it reads; done: gate-admin has polled
    guard,      \* _pending: [token, changes, at], NoBatch when there is none
    clock,      \* time.monotonic()
    settled,    \* history: the snapshot at the last start, confirm or reject
    hidden,     \* history: the file was edited where a poll cannot see it
    shown,      \* history: the batches submitted, by token
    accepted    \* history: the batches confirmed

fileVars == <<file, edits, latest>>

configVars == <<user, fileVars, watcher, pc, guard, clock, settled, hidden, shown, accepted>>

NoValue == 0
NoKeys == [k \in ConfigKeys |-> NoValue]
NoBatch == [token |-> 0, changes |-> << >>, at |-> 0]
NoWatcher == [mtime |-> 0, snapshot |-> NoKeys, pending |-> << >>]

ConfigInit ==
    /\ user \in {"caller", "admin"}
    /\ \E f \in Files : file = [kind |-> f.kind, keys |-> f.keys, mtime |-> 1]
    /\ edits = 0
    /\ latest = 1
    /\ watcher = NoWatcher
    /\ pc = "none"
    /\ guard = NoBatch
    /\ clock = 0
    /\ settled = NoKeys
    /\ hidden = FALSE
    /\ shown = << >>
    /\ accepted = << >>

-----------------------------------------------------------------------------
(* The environment.                                                        *)

(* An edit may keep the mtime (same granule of the clock) or put it back.  *)
Edit ==
    /\ edits < MaxEdits
    /\ edits' = edits + 1
    /\ \E f \in Files, m \in 1..MaxMtime :
        /\ f.keys # file.keys \/ f.kind # file.kind
        /\ file' = [kind |-> f.kind, keys |-> f.keys, mtime |-> m]
        /\ latest' = Max({latest, m})
        /\ hidden' = (hidden \/ pc = "read" \/ m <= latest)
    /\ UNCHANGED <<user, watcher, pc, guard, clock, settled, shown, accepted>>

Tock ==
    /\ clock < MaxClock
    /\ clock' = clock + 1
    /\ UNCHANGED <<user, fileVars, watcher, pc, guard, settled, hidden,
                   shown, accepted>>

-----------------------------------------------------------------------------
(* The watcher.                                                            *)

(* __init__, up to the end of the first _load_raw(): `if raw' is false of  *)
(* an unreadable file and of an empty mapping, and then nothing is noted.  *)
Create ==
    /\ pc = "none"
    /\ IF file.kind = "mapping" /\ file.keys # NoKeys
       THEN /\ watcher' = [NoWatcher EXCEPT !.snapshot = file.keys]
            /\ pc' = "read"
       ELSE watcher' = NoWatcher /\ pc' = "ready"
    /\ settled' = watcher'.snapshot
    /\ hidden' = FALSE
    /\ UNCHANGED <<user, fileVars, guard, clock, shown, accepted>>

(* The rest of _load_snapshot(): the time of the file, after its content. *)
NoteFirstMtime ==
    /\ pc = "read"
    /\ watcher' = [watcher EXCEPT
                     !.mtime = IF file.kind = "missing" THEN 0 ELSE file.mtime]
    /\ pc' = "ready"
    /\ UNCHANGED <<user, fileVars, guard, clock, settled, hidden, shown, accepted>>

MutPollNotesClock ==
    /\ pc = "ready"
    /\ file.kind # "missing"
    /\ file.mtime > watcher.mtime
    /\ watcher' = [watcher EXCEPT !.mtime = latest + 1]
    /\ pc' = "stated"
    /\ UNCHANGED <<user, fileVars, guard, clock, settled, hidden, shown, accepted>>

(* poll() up to the assignment of _last_mtime. *)
PollStat ==
    /\ pc = "ready"
    /\ file.kind # "missing"
    /\ file.mtime > watcher.mtime
    /\ watcher' = [watcher EXCEPT !.mtime = file.mtime]
    /\ pc' = "stated"
    /\ UNCHANGED <<user, fileVars, guard, clock, settled, hidden, shown, accepted>>

Change(k, old, new) == [key |-> k, old |-> old, new |-> new]

(* _diff() and the level-2 part of _dispatch(): one change per key whose   *)
(* value differs, in a fixed order of the keys.                            *)
DangerousChanges(old, new) ==
    LET differing == {k \in ConfigKeys : old[k] # new[k] /\ ReloadLevel[k] = 2}
        order == SetToSeq(differing)
    IN  [i \in DOMAIN order |-> Change(order[i], old[order[i]], new[order[i]])]

MutQueueReplaced(pending, changes) == changes
Queued(pending, changes) == pending \o changes

ReadInto(w, keys) ==
    [w EXCEPT !.snapshot = keys,
              !.pending = Queued(@, DangerousChanges(w.snapshot, keys))]

(* poll() that returns early. *)
PollNothing ==
    /\ user = "caller"
    /\ pc = "ready"
    /\ file.mtime <= watcher.mtime \/ file.kind = "missing"
    /\ UNCHANGED configVars

(* The rest of poll(). *)
PollRead ==
    /\ pc = "stated"
    /\ watcher' = IF file.kind = "mapping" THEN ReadInto(watcher, file.keys)
                                           ELSE watcher
    /\ pc' = IF user = "admin" THEN "done" ELSE "ready"
    /\ hidden' = FALSE
    /\ UNCHANGED <<user, fileVars, guard, clock, settled, shown, accepted>>

(* watcher.confirm() and watcher.reject(), which forget what is pending. *)
Settled(w) == [w EXCEPT !.pending = << >>]

Settle ==
    /\ user = "caller"
    /\ pc = "ready"
    /\ watcher.pending # << >>
    /\ watcher' = Settled(watcher)
    /\ settled' = watcher.snapshot
    /\ UNCHANGED <<user, fileVars, pc, guard, clock, hidden, shown, accepted>>

-----------------------------------------------------------------------------
(* The guard.                                                              *)

(* secrets.token_hex(6) is taken to be new each time. *)
MutTokenPerProcess == 1
NewToken == Len(shown) + 1

NewBatch(changes) == [token |-> NewToken, changes |-> changes, at |-> clock]

(* _expire_if_needed() *)
Unexpired(batch) == IF clock - batch.at >= Expiry THEN NoBatch ELSE batch

(* submit(): a batch that is waiting is replaced. *)
Submit ==
    /\ user = "caller"
    /\ watcher.pending # << >>
    /\ Len(shown) < MaxTokens
    /\ guard' = NewBatch(watcher.pending)
    /\ shown' = Append(shown, guard')
    /\ UNCHANGED <<user, fileVars, watcher, pc, clock, settled, hidden, accepted>>

(* confirm(token) *)
GuardConfirm(token) ==
    /\ user = "caller"
    /\ guard # NoBatch
    /\ LET batch == Unexpired(guard)
       IN  IF batch # NoBatch /\ batch.token = token
           THEN guard' = NoBatch /\ accepted' = Append(accepted, batch)
           ELSE guard' = batch /\ UNCHANGED accepted
    /\ UNCHANGED <<user, fileVars, watcher, pc, clock, settled, hidden, shown>>

(* reject(token); has_pending with a token that is not the batch's. *)
GuardReject(token) ==
    /\ user = "caller"
    /\ guard # NoBatch
    /\ LET batch == Unexpired(guard)
       IN  guard' = IF batch.token = token THEN NoBatch ELSE batch
    /\ UNCHANGED <<user, fileVars, watcher, pc, clock, settled, hidden, shown,
                   accepted>>

-----------------------------------------------------------------------------
(* gate-admin: a command builds a watcher, polls it once and exits.        *)

Exit ==
    /\ user = "admin"
    /\ \/ pc = "done"
       \/ pc = "ready" /\ (file.mtime <= watcher.mtime \/ file.kind = "missing")
    /\ pc' = "none"
    /\ watcher' = NoWatcher
    /\ settled' = NoKeys
    /\ hidden' = FALSE

(* status and pending, and the others when nothing is pending *)
AdminLook ==
    /\ Exit
    /\ UNCHANGED <<user, fileVars, guard, clock, shown, accepted>>

(* confirm <token>: the token the operator types was logged by an earlier  *)
(* command; the batch is new, and the guard goes with the process.         *)
AdminConfirm(token) ==
    /\ Exit
    /\ watcher.pending # << >>
    /\ Len(shown) < MaxTokens
    /\ LET batch == NewBatch(watcher.pending)
       IN  /\ shown' = Append(shown, batch)
           /\ accepted' = IF batch.token = token THEN Append(accepted, batch)
                                                 ELSE accepted
    /\ UNCHANGED <<user, fileVars, guard, clock>>

(* reject <token>: nothing of it outlives the process either. *)
AdminReject ==
    /\ Exit
    /\ watcher.pending # << >>
    /\ Len(shown) < MaxTokens
    /\ shown' = Append(shown, NewBatch(watcher.pending))
    /\ UNCHANGED <<user, fileVars, guard, clock, accepted>>

-----------------------------------------------------------------------------

Caller ==
    \/ Settle
    \/ Submit
    \/ \E token \in DOMAIN shown : GuardConfirm(token) \/ GuardReject(token)

Admin ==
    \/ AdminLook \/ AdminReject
    \/ \E token \in DOMAIN shown \cup {0} : AdminConfirm(token)

ConfigNext ==
    \/ Edit \/ Tock
    \/ Create \/ NoteFirstMtime \/ PollStat \/ PollRead \/ PollNothing
    \/ Caller \/ Admin

ConfigSpec == ConfigInit /\ [][ConfigNext]_configVars

-----------------------------------------------------------------------------

(* A poll that would find nothing new is right: what the watcher holds is  *)
(* what the file says, unless the file was edited without a later mtime or *)
(* between the first read and its stat (watcher.py:133-160 notes the time  *)
(* before it reads, __init__ the other way round).                         *)
NoEditMissed ==
    /\ pc = "ready"
    /\ file.kind = "mapping"
    /\ file.mtime <= watcher.mtime
    /\ ~hidden
    => watcher.snapshot = file.keys

\* The value of a key after the first n pending changes.
Reached(k, n) ==
    LET changes == {i \in 1..n : watcher.pending[i].key = k}
    IN  IF changes = {} THEN settled[k] ELSE watcher.pending[Max(changes)].new

(* No dangerous value slips in unseen: the pending changes of every        *)
(* level-2 key lead, one from the other, from the value last settled to    *)
(* the value the watcher takes for current (watcher.py:185-224).           *)
NothingDangerousSlips ==
    /\ \A i \in DOMAIN watcher.pending :
          watcher.pending[i].old = Reached(watcher.pending[i].key, i - 1)
    /\ \A k \in ConfigKeys :
          ReloadLevel[k] = 2 => watcher.snapshot[k] = Reached(k, Len(watcher.pending))

(* What is confirmed is the batch shown last, as it was shown, once, and   *)
(* before it expired (guard.py:69-104).  It is a promise to a caller that  *)
(* keeps its guard: gate-admin's confirm makes one of its own, which draws *)
(* a new token, and so confirms nothing, whatever gate_admin.py:11 says.   *)
ConfirmedAsShown ==
    [][accepted' # accepted =>
         LET batch == Last(accepted')
         IN  /\ batch.token = Len(shown)
             /\ batch = shown[batch.token]
             /\ clock < batch.at + Expiry
             /\ batch \notin ToSet(accepted)]_configVars
=============================================================================
