----------------------------- MODULE Resolution -----------------------------
(***************************************************************************)
(* The review and the resolution of one sweep suggestion.                  *)
(*                                                                         *)
(* A reviewer accepts or rejects a suggestion (a Redis hash); accepting it *)
(* calls SweepResolutionService.resolve(), which checks the row, takes a   *)
(* Redis lock with a token and a TTL, checks the row again, dispatches     *)
(* every action of its payload to a handler of the application, promotes   *)
(* the outcome and writes it back to the row.  Several requests may do so  *)
(* at once.  Each step between two awaits is an action.                    *)
(*                                                                         *)
(* resolve() returns the promise of resolveLoaded() from its try block     *)
(* without awaiting it, so its finally block, which releases the lock,     *)
(* runs beside the dispatch and not after it: a call that has passed the   *)
(* second check has two threads, its place in pc and its release.          *)
(***************************************************************************)
EXTENDS Naturals

CONSTANTS Requests,    \* requests that review or resolve the suggestion
          Nobody,      \* the lock key is absent
          NumActions,  \* actions of the resolution payload
          Selections,  \* requests that may carry selections
          MaxTrouble   \* bound: expiries of a lock whose holder still runs,
                       \* failed Redis calls and crashes, together

ASSUME NobodyAssumption == Nobody \notin Requests
ASSUME ActionsAssumption == NumActions \in Nat \ {0}
ASSUME LimitsAssumption == Selections \subseteq Requests /\ MaxTrouble \in Nat

VARIABLES
  accepted,    \* the reviewer's verdict, "unset" before the first review
  status,      \* resolutionStatus of the row
  withdrawn,   \* history: an accepting verdict was overwritten by a rejection
  lock,        \* token in the Redis key of the resolution lock
  pc,          \* where each call is
  releasing,   \* calls whose finally block has not yet released the lock
  selecting,   \* calls that carry selections (the 2-arg form of resolve)
  action,      \* the action a call is about to dispatch
  failed,      \* calls with a handler error
  asked,       \* calls with a handler that needs a selection
  affected,    \* calls with a handler that reported affected rows
  landed,      \* actions some of whose rows have been written
  promoted,    \* calls that have run the promotion adapter
  early,       \* expiries so far of a lock whose holder was still running
  faults       \* failures so far

rowVars == <<accepted, status, withdrawn>>
tallyVars == <<action, failed, asked, affected, landed>>
boundVars == <<early, faults>>
resolutionVars == <<rowVars, lock, pc, releasing, selecting, tallyVars,
                    promoted, boundVars>>

Actions == 1..NumActions
Terminal == {"success", "partial"}
Status == {"pending", "pending_selection", "failed"} \cup Terminal
PC == {"idle", "check", "lock", "recheck", "dispatch", "promote", "persist",
       "end"}

ResolutionTypeOK ==
  /\ accepted \in {"unset", "true", "false"}
  /\ status \in Status
  /\ withdrawn \in BOOLEAN
  /\ lock \in Requests \cup {Nobody}
  /\ pc \in [Requests -> PC]
  /\ releasing \in SUBSET Requests
  /\ selecting \in SUBSET Requests
  /\ action \in [Requests -> 1..(NumActions + 1)]
  /\ failed \in SUBSET Requests
  /\ asked \in SUBSET Requests
  /\ affected \in SUBSET Requests
  /\ landed \in SUBSET Actions
  /\ promoted \in SUBSET Requests
  /\ early \in Nat
  /\ faults \in Nat

ResolutionInit ==
  /\ accepted = "unset"
  /\ status = "pending"
  /\ withdrawn = FALSE
  /\ lock = Nobody
  /\ pc = [c \in Requests |-> "idle"]
  /\ releasing = {}
  /\ selecting \in SUBSET Selections
  /\ action = [c \in Requests |-> 1]
  /\ failed = {}
  /\ asked = {}
  /\ affected = {}
  /\ landed = {}
  /\ promoted = {}
  /\ early = 0
  /\ faults = 0

Goto(c, label) == pc' = [pc EXCEPT ![c] = label]

-----------------------------------------------------------------------------
(* SweepSuggestionsService.review() *)

\* The verdict is written whatever the row already holds; accepting goes on
\* to resolve(), without selections.
Review(c, accept) ==
  /\ pc[c] = "idle"
  /\ c \notin selecting
  /\ accepted' = IF accept THEN "true" ELSE "false"
  /\ withdrawn' = (withdrawn \/ (accepted = "true" /\ ~accept))
  /\ Goto(c, IF accept THEN "check" ELSE "end")
  /\ UNCHANGED <<status, lock, releasing, selecting, tallyVars, promoted,
                 boundVars>>

\* resolve() called again without a review, to supply selections.
Resubmit(c) ==
  /\ pc[c] = "idle"
  /\ c \in selecting
  /\ Goto(c, "check")
  /\ UNCHANGED <<rowVars, lock, releasing, selecting, tallyVars, promoted,
                 boundVars>>

-----------------------------------------------------------------------------
(* resolve() *)

\* Mutant of Preflight: only a rejection stops the resolution.
PreflightUnlessRejected == accepted # "false" /\ status \notin Terminal

\* preflightResolutionRow() lets the call go on.
Preflight == accepted = "true" /\ status \notin Terminal

Check(c) ==
  /\ pc[c] = "check"
  /\ Goto(c, IF Preflight THEN "lock" ELSE "end")
  /\ UNCHANGED <<rowVars, lock, releasing, selecting, tallyVars, promoted,
                 boundVars>>

\* SET key token PX 30000 NX; a call that loses reports pending_selection to
\* its caller and leaves the row alone.
ClaimLock(c) ==
  /\ pc[c] = "lock"
  /\ lock' = IF lock = Nobody THEN c ELSE lock
  /\ Goto(c, IF lock = Nobody THEN "recheck" ELSE "end")
  /\ UNCHANGED <<rowVars, releasing, selecting, tallyVars, promoted,
                 boundVars>>

\* The second look at the row.  Either way the try block is left at once.
Recheck(c) ==
  /\ pc[c] = "recheck"
  /\ Goto(c, IF Preflight THEN "dispatch" ELSE "end")
  /\ releasing' = releasing \cup {c}
  /\ UNCHANGED <<rowVars, lock, selecting, tallyVars, promoted, boundVars>>

\* Mutant of Release: DEL without comparing the token.
ReleaseAny(c) ==
  /\ c \in releasing
  /\ releasing' = releasing \ {c}
  /\ lock' = Nobody
  /\ UNCHANGED <<rowVars, pc, selecting, tallyVars, promoted, boundVars>>

\* The Lua script deletes the key only if it still holds the token.
Release(c) ==
  /\ c \in releasing
  /\ releasing' = releasing \ {c}
  /\ lock' = IF lock = c THEN Nobody ELSE lock
  /\ UNCHANGED <<rowVars, pc, selecting, tallyVars, promoted, boundVars>>

-----------------------------------------------------------------------------
(* resolveLoaded() *)

\* What one handler may do and answer:
\*   applied  rows written and reported
\*   empty    ok, and nothing written
\*   error    an error and no rows; also an action without a handler
\*   torn     an error although some rows were written
\*   ask      more than one match: nothing written, a selection is needed
Answers == {"applied", "empty", "error", "torn", "ask"}

Dispatch(c) ==
  /\ pc[c] = "dispatch"
  /\ action[c] \in Actions
  /\ \E answer \in Answers :
       /\ landed' = IF answer \in {"applied", "torn"}
                    THEN landed \cup {action[c]} ELSE landed
       /\ affected' = IF answer = "applied" THEN affected \cup {c} ELSE affected
       /\ failed' = IF answer \in {"error", "torn"} THEN failed \cup {c} ELSE failed
       /\ asked' = IF answer = "ask" THEN asked \cup {c} ELSE asked
  /\ action' = [action EXCEPT ![c] = @ + 1]
  /\ UNCHANGED <<rowVars, lock, pc, releasing, selecting, promoted, boundVars>>

NeedsSelection(c) == c \in asked /\ c \notin selecting

\* The status the tallies of the loop amount to.
Outcome(c) == CASE NeedsSelection(c) -> "pending_selection"
                [] ~NeedsSelection(c) /\ c \notin failed -> "success"
                [] ~NeedsSelection(c) /\ c \in failed \cap affected -> "partial"
                [] ~NeedsSelection(c) /\ c \in failed \ affected -> "failed"

\* After the last action: success and partial are promoted first.
Tally(c) ==
  /\ pc[c] = "dispatch"
  /\ action[c] \notin Actions
  /\ Goto(c, IF Outcome(c) \in Terminal THEN "promote" ELSE "persist")
  /\ UNCHANGED <<rowVars, lock, releasing, selecting, tallyVars, promoted,
                 boundVars>>

\* promotion.promote(); its errors are not fatal.
Promote(c) ==
  /\ pc[c] = "promote"
  /\ promoted' = promoted \cup {c}
  /\ Goto(c, "persist")
  /\ UNCHANGED <<rowVars, lock, releasing, selecting, tallyVars, boundVars>>

\* Mutant of Persist: a pending selection is only returned, not stored.
PersistFinalOnly(c) ==
  /\ pc[c] = "persist"
  /\ status' = IF NeedsSelection(c) THEN status ELSE Outcome(c)
  /\ Goto(c, "end")
  /\ UNCHANGED <<accepted, withdrawn, lock, releasing, selecting, tallyVars,
                 promoted, boundVars>>

\* updateResolution() overwrites whatever the row holds.
Persist(c) ==
  /\ pc[c] = "persist"
  /\ status' = Outcome(c)
  /\ Goto(c, "end")
  /\ UNCHANGED <<accepted, withdrawn, lock, releasing, selecting, tallyVars,
                 promoted, boundVars>>

-----------------------------------------------------------------------------
(* The lock's TTL, and failures *)

Holding(c) == pc[c] = "recheck" \/ c \in releasing

\* Mutant of LockExpires: the key is set without PX.
LockNeverExpires == FALSE /\ UNCHANGED resolutionVars

\* The key expires: of a holder that is gone, or, within the bound, of one that
\* takes more than 30 seconds.
LockExpires ==
  /\ lock # Nobody
  /\ Holding(lock) => early + faults < MaxTrouble
  /\ early' = IF Holding(lock) THEN early + 1 ELSE early
  /\ lock' = Nobody
  /\ UNCHANGED <<rowVars, pc, releasing, selecting, tallyVars, promoted,
                 faults>>

Fault ==
  /\ early + faults < MaxTrouble
  /\ faults' = faults + 1

\* A Redis call of resolve() rejects; at "recheck" the finally still runs.
CallFails(c) ==
  /\ Fault
  /\ pc[c] \in {"check", "lock", "recheck", "persist"}
  /\ Goto(c, "end")
  /\ releasing' = IF pc[c] = "recheck" THEN releasing \cup {c} ELSE releasing
  /\ UNCHANGED <<rowVars, lock, selecting, tallyVars, promoted, early>>

\* The script that releases the lock rejects.
ReleaseFails(c) ==
  /\ Fault
  /\ c \in releasing
  /\ releasing' = releasing \ {c}
  /\ UNCHANGED <<rowVars, lock, pc, selecting, tallyVars, promoted, early>>

\* The process that runs the call dies.
Crash(c) ==
  /\ Fault
  /\ pc[c] \notin {"idle", "end"} \/ c \in releasing
  /\ Goto(c, "end")
  /\ releasing' = releasing \ {c}
  /\ UNCHANGED <<rowVars, lock, selecting, tallyVars, promoted, early>>

-----------------------------------------------------------------------------
Request(c) == Review(c, TRUE) \/ Review(c, FALSE) \/ Resubmit(c)

\* The steps of resolve() and resolveLoaded().
Resolve(c) ==
  \/ Check(c) \/ ClaimLock(c) \/ Recheck(c) \/ Dispatch(c) \/ Tally(c)
  \/ Promote(c) \/ Persist(c)

ResolutionNext ==
  \/ \E c \in Requests :
       Request(c) \/ Resolve(c) \/ Release(c) \/ CallFails(c)
         \/ ReleaseFails(c) \/ Crash(c)
  \/ LockExpires

ResolutionSpec == ResolutionInit /\ [][ResolutionNext]_resolutionVars

\* Node runs every continuation and Redis expires every key in the end; no
\* request has to come.
Fairness ==
  /\ \A c \in Requests :
       WF_resolutionVars(Resolve(c)) /\ WF_resolutionVars(Release(c))
  /\ WF_resolutionVars(LockExpires)

ResolutionFairSpec == ResolutionSpec /\ Fairness

-----------------------------------------------------------------------------
(* Properties *)

\* While no lock has expired under its holder, only one call is between the
\* claim and the release, and the key holds its token.
HolderOwnsLock ==
  early = 0 => \A c \in Requests : Holding(c) => lock = c

\* The key leaves a holder only through that holder's own release or its TTL:
\* a call whose lock has expired never releases the lock of the next one.
OnlyOwnerReleases ==
  [][\A c \in Requests :
       lock = c /\ lock' # c => \/ c \in releasing /\ c \notin releasing'
                                \/ LockExpires]_resolutionVars

\* No row of the catalogue is touched for a suggestion nobody has reviewed.
NothingBeforeReview == landed # {} => accepted # "unset"

\* A terminal outcome has been through the promotion adapter before it is
\* stored, whichever of several racing calls stores it, and whatever crashes.
TerminalWasPromoted == status \in Terminal => promoted # {}

\* The lock of a call that fails, crashes or never releases is freed.
LockIsFreed == \A c \in Requests : (lock = c) ~> (lock # c)

\* Unless something fails, a suggestion whose acceptance stands gets an outcome,
\* even when the call that accepted it loses the lock to another.  A rejection in
\* between may make the call that holds the lock give up after the calls that
\* accept the row again have lost it: then the row waits for another request.
AcceptedIsResolved ==
  (accepted = "true")
    ~> (status # "pending" \/ accepted = "false" \/ withdrawn \/ faults > 0)

-----------------------------------------------------------------------------
(* What the documentation says of the program; see the README *)

\* CHANGELOG.md: "a Redis resolution lock so concurrent resolution attempts
\* do not double-dispatch actions".
DispatchIsExclusive ==
  \A c, d \in Requests : pc[c] = "dispatch" /\ pc[d] = "dispatch" => c = d
=============================================================================
