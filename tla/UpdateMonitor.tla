---------------------------- MODULE UpdateMonitor ----------------------------
(***************************************************************************)
(* The update monitor: docker/updates/monitor.py with store.py, sources.py, *)
(* notifiers.py, summarize.py, audit.py, versions.py, scheduler.py and     *)
(* api.py.                                                                 *)
(*                                                                         *)
(* A check walks the components: it resolves the version in use, asks the  *)
(* registry for the newest release and the advisories against the version  *)
(* in use, and announces what has not been announced to every notifier.    *)
(* Every call to the registry, the database, the LLM and a notifier is a   *)
(* step that can fail, and the process may stop between any two. Checks    *)
(* come from the scheduler's thread and from requests; releases, pins and  *)
(* advisories change meanwhile.                                            *)
(***************************************************************************)
EXTENDS Integers, Sequences, FiniteSets

CONSTANTS
    Components,   \* the tracked components, in the order a check takes them
    Pypi,         \* those on PyPI, which lists advisories; the others are images
    Unreliable,   \* those whose registry may fail for ever
    Notifiers,    \* the configured notifiers, in the order of the fan-out
    Versions,     \* versions registries may publish
    InitialLive,  \* what the registries offer at first: functions from components
    InitialPins,  \* what the deployment runs at first
    Advisories,   \* ids of security advisories
    MaxNotes,     \* bound on editions of our audit notes
    FaultKinds,   \* the faults that can happen, at most MaxFaults of them
    MaxFaults,
    MaxChanges    \* bound on what registries, owners and deployments change

(***************************************************************************)
(* A version is its sort key (versions.py, Version._key): major, minor,    *)
(* patch, extra, the rank and number of its pre-release, post. Finals have *)
(* the rank 99.                                                            *)
(***************************************************************************)
Key == 1..7

Component == {Components[i] : i \in DOMAIN Components}
Callers == {"schedule", "manual"}
Nobody == "nobody"
NoVersion == <<>>        \* not found, or not release-like
MaybeVersion == Versions \cup {NoVersion}

ASSUME ConstantsAssumption ==
    /\ Components \in Seq(STRING) /\ Notifiers \in Seq(STRING)
    /\ Versions \subseteq [Key -> Nat]
    /\ InitialLive \subseteq [Component -> SUBSET Versions]
    /\ InitialPins \subseteq [Component -> MaybeVersion]
    /\ "release" \notin Advisories   \* kinds are "release" and "security:<id>"
    /\ MaxNotes \in Nat \ {0} /\ MaxFaults \in Nat /\ MaxChanges \in Nat

Kinds == {"release"} \cup Advisories
Alerts == Component \X Versions \X Kinds
NoAlert == <<>>

\* What a summary was written from: our audit notes and the version in use.
Contexts == (1..MaxNotes) \X MaybeVersion
Absent == <<>>
Unsummarised == <<0>>

VARIABLES
    live,      \* the versions each registry offers, without the yanked ones
    listed,    \* the advisories <<component, version, id>> listed
    pin,       \* the version of each component this deployment runs
    notes,     \* the edition of our audit notes
    latest,    \* components.latest_version
    rows,      \* table releases: for each, no row, or the context of its summary
    alerts,    \* table alerts
    lastCheck, \* meta.last_check: "never", "running" or "done"
    phase,     \* the process: "up", "stopping" or "down"
    lock,      \* who holds UpdateMonitor._lock
    recent,    \* was there a manual check within the minimal interval?
    at,        \* where each caller is in its check
    reached,   \* the alerts some notifier accepted (history)
    faults,
    changes

world == <<live, listed, pin, notes>>
database == <<latest, rows, alerts, lastCheck>>
process == <<phase, lock, recent, at>>
vars == <<world, database, process, reached, faults, changes>>

-----------------------------------------------------------------------------
(* Versions *)

Before(v, w) == \E i \in Key : v[i] < w[i] /\ \A j \in 1..(i - 1) : v[j] = w[j]

IsFinal(v) == v[5] = 99

\* The newest final version, as a set of at most one.
Newest(vs) ==
    {v \in vs : IsFinal(v) /\ \A w \in vs : IsFinal(w) => ~Before(v, w)}

\* classify: is `new` an update of `current`? Nothing is, of an unknown one.
IsUpdate(current, new) == current # NoVersion /\ Before(current, new)

-----------------------------------------------------------------------------
(* The parts of a check *)

Idle == [pc |-> "idle", i |-> 1, pin |-> NoVersion, latest |-> NoVersion,
         ctx |-> <<0, NoVersion>>, left |-> {}, alert |-> NoAlert, n |-> 1, heard |-> {}]

At(k, pc) == phase # "down" /\ at[k].pc = pc

GoTo(k, pc) == at' = [at EXCEPT ![k].pc = pc]

Current(k) == Components[at[k].i]

NextComponent(k) == at' = [at EXCEPT ![k] = [Idle EXCEPT !.pc = "resolve", !.i = at[k].i + 1]]

Leave(k) == at' = [at EXCEPT ![k] = Idle] /\ lock' = Nobody

Fault(kind) == kind \in FaultKinds /\ faults < MaxFaults /\ faults' = faults + 1

\* The registry of the current component does not answer, or answers nonsense.
NoAnswer(k) ==
    \/ Current(k) \in Unreliable /\ UNCHANGED faults
    \/ Fault("registry")

\* (variant) The latest release known never goes back: a yank is not seen.
KeepNewest(c, v) ==
    latest' = [latest EXCEPT ![c] = IF v = NoVersion \/ (@ # NoVersion /\ Before(v, @)) THEN @ ELSE v]

\* record_check: a failed check keeps the last known release.
RecordCheck(c, v) == latest' = [latest EXCEPT ![c] = IF v = NoVersion THEN @ ELSE v]

\* check: the lock is not waited for.
Acquire(k) == lock = Nobody /\ lock' = k /\ at' = [at EXCEPT ![k] = [Idle EXCEPT !.pc = "begin"]]

\* _loop: an interval has passed. A check that is already running is skipped.
ScheduledCheck ==
    /\ phase = "up" /\ at["schedule"].pc = "idle"
    /\ Acquire("schedule")
    /\ UNCHANGED <<world, database, phase, recent, reached, faults, changes>>

\* check_updates: refused soon after another one, which a refusal for the
\* lock counts as.
ManualCheck ==
    /\ phase = "up" /\ at["manual"].pc = "idle" /\ ~recent
    /\ recent' = TRUE
    /\ \/ Acquire("manual")
       \/ lock # Nobody /\ UNCHANGED <<lock, at>>
    /\ UNCHANGED <<world, database, phase, reached, faults, changes>>

IntervalPasses ==
    /\ recent /\ recent' = FALSE
    /\ UNCHANGED <<world, database, phase, lock, at, reached, faults, changes>>

Begin(k) ==
    /\ At(k, "begin")
    /\ lastCheck' = "running"
    /\ GoTo(k, "resolve")
    /\ UNCHANGED <<world, latest, rows, alerts, phase, lock, recent, reached, faults, changes>>

Finish(k) ==
    /\ At(k, "resolve") /\ at[k].i > Len(Components)
    /\ lastCheck' = "done"
    /\ Leave(k)
    /\ UNCHANGED <<world, latest, rows, alerts, phase, recent, reached, faults, changes>>

ResolvePin(k) ==
    /\ At(k, "resolve") /\ at[k].i <= Len(Components)
    /\ at' = [at EXCEPT ![k].pc = "fetch", ![k].pin = pin[Current(k)]]
    /\ UNCHANGED <<world, database, phase, lock, recent, reached, faults, changes>>

\* fetch_pypi, fetch_dockerhub: the newest final release.
Fetch(k) ==
    /\ At(k, "fetch")
    /\ \E v \in Newest(live[Current(k)]) :
           at' = [at EXCEPT ![k].pc = "advise", ![k].latest = v]
    /\ UNCHANGED <<world, database, phase, lock, recent, reached, faults, changes>>

FetchFails(k) ==
    /\ At(k, "fetch")
    /\ \/ Newest(live[Current(k)]) = {} /\ UNCHANGED faults
       \/ NoAnswer(k)
    /\ GoTo(k, "failed")
    /\ UNCHANGED <<world, database, phase, lock, recent, reached, changes>>

\* The advisories on the version in use are a request of their own: one that
\* fails counts as none.
Advise(k) ==
    /\ At(k, "advise")
    /\ \/ /\ at' = [at EXCEPT ![k].pc = "record",
                    ![k].left = {a \in listed : a[1] = Current(k) /\ a[2] = at[k].pin}]
          /\ UNCHANGED faults
       \/ NoAnswer(k) /\ GoTo(k, "record")
    /\ UNCHANGED <<world, database, phase, lock, recent, reached, changes>>

\* (variant) The release is announced without a row in releases.
RecordOnly(k) ==
    /\ At(k, "record")
    /\ RecordCheck(Current(k), at[k].latest)
    /\ IF IsUpdate(at[k].pin, at[k].latest)
       THEN at' = [at EXCEPT ![k].pc = "look", ![k].alert = <<Current(k), at[k].latest, "release">>]
       ELSE GoTo(k, "next")
    /\ UNCHANGED <<world, rows, alerts, lastCheck, phase, lock, recent, reached, faults, changes>>

\* A release newer than the version in use is noted and then announced.
Record(k) ==
    /\ At(k, "record")
    /\ RecordCheck(Current(k), at[k].latest)
    /\ IF IsUpdate(at[k].pin, at[k].latest)
       THEN at' = [at EXCEPT ![k].pc = "upsert", ![k].alert = <<Current(k), at[k].latest, "release">>]
       ELSE GoTo(k, "next")
    /\ UNCHANGED <<world, rows, alerts, lastCheck, phase, lock, recent, reached, faults, changes>>

\* (variant) The first failure ends the check.
FailureEndsCheck(k) ==
    /\ At(k, "failed")
    /\ RecordCheck(Current(k), NoVersion)
    /\ Leave(k)
    /\ UNCHANGED <<world, rows, alerts, lastCheck, phase, recent, reached, faults, changes>>

RecordFailure(k) ==
    /\ At(k, "failed")
    /\ RecordCheck(Current(k), NoVersion)
    /\ NextComponent(k)
    /\ UNCHANGED <<world, rows, alerts, lastCheck, phase, lock, recent, reached, faults, changes>>

UpsertRelease(k) ==
    /\ At(k, "upsert")
    /\ rows' = [rows EXCEPT ![Current(k)][at[k].latest] = IF @ = Absent THEN Unsummarised ELSE @]
    /\ GoTo(k, "look")
    /\ UNCHANGED <<world, latest, alerts, lastCheck, phase, lock, recent, reached, faults, changes>>

\* (variant) A refreshed summary is announced too.
RefreshAnnounces(k) ==
    LET a == at[k].alert IN
    /\ At(k, "look")
    /\ GoTo(k, IF a[3] = "release" THEN "summary" ELSE IF a \in alerts THEN "next" ELSE "send")
    /\ UNCHANGED <<world, database, phase, lock, recent, reached, faults, changes>>

\* has_alert: what was announced is not announced again; of a release that
\* was, only the summary is refreshed.
HasAlert(k) ==
    LET a == at[k].alert IN
    /\ At(k, "look")
    /\ at' = [at EXCEPT
           ![k].pc = IF a[3] = "release" THEN "summary" ELSE IF a \in alerts THEN "next" ELSE "send",
           ![k].alert = IF a \in alerts THEN NoAlert ELSE a]
    /\ UNCHANGED <<world, database, phase, lock, recent, reached, faults, changes>>

AfterSummary(k) == IF at[k].alert = NoAlert THEN "next" ELSE "send"

\* _summary: a summary written from the same notes and pin is used again.
ReadSummary(k) ==
    LET ctx == <<notes, at[k].pin>> IN
    /\ At(k, "summary")
    /\ at' = [at EXCEPT ![k].ctx = ctx,
           ![k].pc = IF rows[Current(k)][at[k].latest] = ctx THEN AfterSummary(k) ELSE "ask"]
    /\ UNCHANGED <<world, database, phase, lock, recent, reached, faults, changes>>

\* summarize: a text, or nothing (no LLM, unreachable, no answer).
AskLLM(k) ==
    /\ At(k, "ask")
    /\ \/ GoTo(k, "keep")
       \/ GoTo(k, AfterSummary(k))
    /\ UNCHANGED <<world, database, phase, lock, recent, reached, faults, changes>>

\* set_summary is an UPDATE: it keeps nothing when there is no row.
SetSummary(k) ==
    /\ At(k, "keep")
    /\ rows' = [rows EXCEPT ![Current(k)][at[k].latest] = IF @ = Absent THEN Absent ELSE at[k].ctx]
    /\ GoTo(k, AfterSummary(k))
    /\ UNCHANGED <<world, latest, alerts, lastCheck, phase, lock, recent, reached, faults, changes>>

\* fan_out, one notifier at a time: accepted; refused; or accepted and the
\* answer lost, which counts as an error.
Send(k) ==
    LET n == at[k].n
        arrives == reached' = reached \cup {at[k].alert}
    IN
    /\ At(k, "send") /\ n <= Len(Notifiers)
    /\ \/ arrives /\ UNCHANGED faults /\ at' = [at EXCEPT ![k].n = n + 1, ![k].heard = @ \cup {n}]
       \/ /\ Fault("notify")
          /\ arrives \/ UNCHANGED reached
          /\ at' = [at EXCEPT ![k].n = n + 1]
    /\ UNCHANGED <<world, database, phase, lock, recent, changes>>

\* (variant) Recorded whatever the notifiers said.
DeliverAnyway(k) ==
    /\ At(k, "send") /\ at[k].n > Len(Notifiers)
    /\ alerts' = alerts \cup {at[k].alert}
    /\ GoTo(k, "next")
    /\ UNCHANGED <<world, latest, rows, lastCheck, phase, lock, recent, reached, faults, changes>>

\* _deliver, add_alert: recorded when a notifier accepted it, or there is none.
Deliver(k) ==
    /\ At(k, "send") /\ at[k].n > Len(Notifiers)
    /\ alerts' = IF Notifiers # <<>> /\ at[k].heard = {} THEN alerts ELSE alerts \cup {at[k].alert}
    /\ GoTo(k, "next")
    /\ UNCHANGED <<world, latest, rows, lastCheck, phase, lock, recent, reached, faults, changes>>

\* The next advisory, or the next component.
NextAdvisory(k) ==
    /\ At(k, "next")
    /\ IF at[k].left = {} THEN NextComponent(k)
       ELSE \E a \in at[k].left :
                at' = [at EXCEPT ![k].pc = "look", ![k].alert = a, ![k].left = @ \ {a},
                                 ![k].n = 1, ![k].heard = {}]
    /\ UNCHANGED <<world, database, phase, lock, recent, reached, faults, changes>>

-----------------------------------------------------------------------------
(* What goes wrong *)

\* The database raises: within a component the next one is taken; in the
\* record of a failed fetch, or of the check itself, the check ends there.
StoreFails(k) ==
    /\ phase # "down" /\ Fault("store")
    /\ \/ /\ at[k].pc \in {"record", "upsert", "look", "summary", "keep", "send"}
          /\ at[k].pc = "send" => at[k].n > Len(Notifiers) /\ (Notifiers = <<>> \/ at[k].heard # {})
          /\ NextComponent(k) /\ UNCHANGED lock
       \/ /\ at[k].pc \in {"begin", "failed"} \/ (at[k].pc = "resolve" /\ at[k].i > Len(Components))
          /\ Leave(k)
    /\ UNCHANGED <<world, database, phase, recent, reached, changes>>

\* The process is gone, and with it the lock and whatever a check was doing.
Gone ==
    /\ phase' = "down"
    /\ lock' = Nobody
    /\ recent' = FALSE
    /\ at' = [k \in Callers |-> Idle]
    /\ UNCHANGED <<world, database, reached, changes>>

Crash == phase # "down" /\ Fault("crash") /\ Gone

\* stop_scheduler: no check is started any more.
Stop ==
    /\ phase = "up" /\ Fault("stop")
    /\ phase' = "stopping"
    /\ UNCHANGED <<world, database, lock, recent, at, reached, changes>>

\* A check in flight is waited for up to a timeout; its thread is a daemon.
Exit == phase = "stopping" /\ Gone /\ UNCHANGED faults

Start ==
    /\ phase = "down" /\ phase' = "up"
    /\ UNCHANGED <<world, database, lock, recent, at, reached, faults, changes>>

-----------------------------------------------------------------------------
(* The world around it *)

\* Registries publish, yank and list; a deployment changes the version in
\* use; the owner edits the audit notes.
Change ==
    /\ changes < MaxChanges /\ changes' = changes + 1
    /\ \E c \in Component, v \in Versions :
           \/ live' = [live EXCEPT ![c] = @ \cup {v}] /\ UNCHANGED <<listed, pin, notes>>
           \/ live' = [live EXCEPT ![c] = @ \ {v}] /\ UNCHANGED <<listed, pin, notes>>
           \/ pin' = [pin EXCEPT ![c] = v] /\ UNCHANGED <<live, listed, notes>>
           \/ \E a \in Advisories :
                  /\ c \in Pypi
                  /\ listed' \in {listed \cup {<<c, v, a>>}, listed \ {<<c, v, a>>}}
                  /\ UNCHANGED <<live, pin, notes>>
           \/ notes < MaxNotes /\ notes' = notes + 1 /\ UNCHANGED <<live, listed, pin>>
    /\ UNCHANGED <<database, process, reached, faults>>

-----------------------------------------------------------------------------
Init ==
    /\ live \in InitialLive
    /\ pin \in InitialPins
    /\ listed = {}
    /\ notes = 1
    /\ latest = [c \in Component |-> NoVersion]
    /\ rows = [c \in Component |-> [v \in Versions |-> Absent]]
    /\ alerts = {}
    /\ lastCheck = "never"
    /\ phase = "up" /\ lock = Nobody /\ recent = FALSE
    /\ at = [k \in Callers |-> Idle]
    /\ reached = {}
    /\ faults = 0 /\ changes = 0

Step(k) ==
    \/ Begin(k) \/ Finish(k) \/ ResolvePin(k)
    \/ Fetch(k) \/ FetchFails(k) \/ Advise(k) \/ Record(k) \/ RecordFailure(k)
    \/ UpsertRelease(k) \/ HasAlert(k) \/ ReadSummary(k) \/ AskLLM(k) \/ SetSummary(k)
    \/ Send(k) \/ Deliver(k) \/ NextAdvisory(k) \/ StoreFails(k)

Next ==
    \/ ScheduledCheck \/ ManualCheck \/ IntervalPasses
    \/ \E k \in Callers : Step(k)
    \/ Crash \/ Stop \/ Exit \/ Start
    \/ Change

Spec == Init /\ [][Next]_vars

\* The thread of the scheduler comes back after every interval, threads run,
\* and the container is restarted by docker (restart: unless-stopped).
FairSpec ==
    /\ Spec
    /\ WF_vars(ScheduledCheck)
    /\ \A k \in Callers : WF_vars(Step(k))
    /\ WF_vars(Exit) /\ WF_vars(Start)

-----------------------------------------------------------------------------
(* Properties *)

PCs == {"idle", "begin", "resolve", "fetch", "advise", "record", "failed", "upsert", "look",
        "summary", "ask", "keep", "send", "next"}

Place == [pc : PCs, i : 1..(Len(Components) + 1), pin : MaybeVersion, latest : MaybeVersion,
          ctx : (0..MaxNotes) \X MaybeVersion, left : SUBSET (Component \X Versions \X Advisories), alert : Alerts \cup {NoAlert},
          n : 1..(Len(Notifiers) + 1), heard : SUBSET (1..Len(Notifiers))]

\* The variables hold values of their types: a summary only from a real
\* context, an alert only about a published version.
TypeOK ==
    /\ live \in [Component -> SUBSET Versions]
    /\ listed \in SUBSET (Component \X Versions \X Advisories)
    /\ pin \in [Component -> MaybeVersion]
    /\ notes \in 1..MaxNotes
    /\ latest \in [Component -> MaybeVersion]
    /\ rows \in [Component -> [Versions -> Contexts \cup {Absent, Unsummarised}]]
    /\ alerts \in SUBSET Alerts
    /\ lastCheck \in {"never", "running", "done"}
    /\ phase \in {"up", "stopping", "down"}
    /\ lock \in Callers \cup {Nobody}
    /\ recent \in BOOLEAN
    /\ at \in [Callers -> Place]
    /\ reached \in SUBSET Alerts
    /\ faults \in 0..MaxFaults /\ changes \in 0..MaxChanges

\* What was announced is never sent again: from the look at the table to the
\* last notifier no other check, of the schedule or of a request, can have
\* announced the same (monitor.py:197, 222-227; "alert once" of store.py).
NeverSentAgain == \A k \in Callers : at[k].pc = "send" => at[k].alert \notin alerts

\* An alert counts as announced only if some notifier accepted it, then or in
\* an earlier attempt, unless none is configured (monitor.py:223-226).
AnnouncedWasHeard == Notifiers # <<>> => alerts \subseteq reached

\* The LLM is asked only for a summary the table does not hold for these notes
\* and this pin, and its text has a row to be kept in: once a summary is kept, no
\* retry pays for it again.  One that was paid for and could not be kept
\* (set_summary failed, or a crash before it) is paid for again
\* (monitor.py:151-163, 213-227).
NeverPaysTwice ==
    \A k \in Callers :
        at[k].pc \in {"ask", "keep"} => rows[Current(k)][at[k].latest] \notin {Absent, at[k].ctx}

\* A component whose registry stays down hides no other, and no failure of
\* the database, a notifier or the process is final: once releases, pins and
\* advisories rest, every update and every advisory is announced.
Reliable == Component \ Unreliable

Due(c) ==
    {<<c, v, "release">> : v \in {w \in Newest(live[c]) : IsUpdate(pin[c], w)}}
    \cup {a \in listed : a[1] = c /\ a[2] = pin[c] /\ Newest(live[c]) # {}}

EveryUpdateIsAnnounced == <>[](\A c \in Reliable : Due(c) \subseteq alerts)

\* What GET /engine/updates shows comes to agree with the registry, even
\* after a yank and through failed checks.
LatestCatchesUp == <>[](\A c \in Reliable : \A v \in Newest(live[c]) : latest[c] = v)

=============================================================================
