---------------------------- MODULE AgentRegistry ----------------------------
(***************************************************************************)
(* The daemon's registry of agent sessions (agents/registry.rs) with its   *)
(* callers: lifecycle events and tool reports from hooks, questions the    *)
(* agents ask, the 15 s liveness tick, and the restart that reads          *)
(* agents.json (daemon/runtime/mod.rs).  A stop persists first; what a     *)
(* crash loses, the heartbeats since the last change, is left out.         *)
(*                                                                         *)
(* One agent family.  Titles, paths, launch ids, numbers and what a tool   *)
(* is called are left out.  Hooks report without a timestamp, so the       *)
(* daemon's clock dates every event.  Each operation holds the registry's  *)
(* mutex; a handler that calls two of them may be overtaken in between.    *)
(***************************************************************************)
EXTENDS Naturals, Sequences, FiniteSets, SequencesExt

CONSTANTS Sessions, Pids,
          Callers,       \* the sessions that ask questions
          MaxEnded,      \* MAX_ENDED
          TtlSecs,       \* TTL_SECS
          BackstopSecs,  \* WORKING_BACKSTOP_SECS
          MaxNow,        \* bound: the clock
          MaxRestarts,   \* bound: restarts of the daemon
          Nobody

\* AgentRecord; since = 0 stands for no interval.
Record == [session : Sessions, pid : Pids \cup {Nobody}, started : Nat, last : Nat,
           counted : Nat, since : Nat, state : {"working", "idle", "ended"}]

ASSUME RegistryAssumption ==
    /\ {MaxEnded, TtlSecs, BackstopSecs, MaxNow, MaxRestarts} \subseteq Nat
    /\ IsFiniteSet(Sessions) /\ Callers \subseteq Sessions
    /\ Nobody \notin Sessions \cup Pids \cup Record

VARIABLES
    now,        \* the clock
    dead,       \* processes that ended
    active,     \* the active record of a session, Nobody when it has none
    ended,      \* ended records, the newest last
    asking,     \* sessions of the questions in flight
    askers,     \* processes of the questions in flight
    resolving,  \* questions whose caller's process is still being looked up
    restarts

registryVars == <<now, dead, active, ended, asking, askers, resolving, restarts>>
callers == <<asking, askers, resolving>>
world == <<now, dead, restarts>>

RegistryInit ==
    /\ now = 1
    /\ dead = {}
    /\ active = [s \in Sessions |-> Nobody]
    /\ ended = <<>>
    /\ asking = {} /\ askers = {} /\ resolving = {}
    /\ restarts = 0

IsActive(s) == active[s] # Nobody
-----------------------------------------------------------------------------
(***************************************************************************)
(* Records                                                                 *)
(***************************************************************************)

Fresh(s, p) ==
    [session |-> s, pid |-> p, started |-> now, last |-> now, counted |-> 0, since |-> 0,
     state |-> "idle"]

\* start_active, stop_active.
StartActive(r) == [r EXCEPT !.since = IF @ = 0 THEN now ELSE @]

\* Mutant: the interval stays open.
MutStopActive(r, end) ==
    IF r.since = 0 THEN r
    ELSE [r EXCEPT !.counted = @ + (IF end > r.since THEN end - r.since ELSE 0)]

StopActive(r, end) ==
    IF r.since = 0 THEN r
    ELSE [r EXCEPT !.counted = @ + (IF end > r.since THEN end - r.since ELSE 0), !.since = 0]

Work(r) == [StartActive(r) EXCEPT !.state = "working"]
Rest(r, end) == [StopActive(r, end) EXCEPT !.state = "idle"]
\* The last activity of an ended record is not read again.
Over(r, end) == [StopActive(r, end) EXCEPT !.state = "ended", !.last = 0]
Touch(r, p) == [r EXCEPT !.last = now, !.pid = IF @ = Nobody THEN p ELSE @]

\* push_ended: the oldest of too many ended records goes.
Newest(q) == IF Len(q) <= MaxEnded THEN q ELSE SubSeq(q, Len(q) - MaxEnded + 1, Len(q))
PushEnded(q, r) == Newest(Append(q, r))

\* push_ended of each record that drain_where took out.
EndAll(q, records) == Newest(q \o SetToSeq(records))

Sums(w) ==
    LET sum[i \in 0..Len(w)] == IF i = 0 THEN 0 ELSE sum[i - 1] + w[i]
    IN  sum
SumOf(w) == Sums(w)[Len(w)]
-----------------------------------------------------------------------------
(***************************************************************************)
(* Lifecycle events                                                        *)
(***************************************************************************)

\* The other sessions on the process of an event: a process runs one at a time.
Rotated(s, p) == {x \in Sessions \ {s} : IsActive(x) /\ p # Nobody /\ active[x].pid = p}

\* The record an event finds, revives or creates, among the ended records q.
Revivable(s, q) == {i \in DOMAIN q : q[i].session = s}
Found(s, p, q) ==
    IF IsActive(s) THEN [active[s] EXCEPT !.last = now, !.pid = IF p = Nobody THEN @ ELSE p]
    ELSE IF Revivable(s, q) = {} THEN Fresh(s, p)
    ELSE [q[Min(Revivable(s, q))] EXCEPT !.state = "idle", !.since = 0, !.last = now,
                                         !.pid = IF p = Nobody THEN @ ELSE p]

\* apply_event.
ApplyEvent(s, event, p) ==
    LET out == Rotated(s, p)
        q == EndAll(ended, {Over(active[x], now) : x \in out})
        revived == ~IsActive(s) /\ Revivable(s, q) # {}
        rest == IF revived THEN RemoveAt(q, Min(Revivable(s, q))) ELSE q
        r == Found(s, p, q)
        done == CASE event = "session-start" -> r
                  [] event \in {"turn-start", "activity"} -> Work(r)
                  [] event = "turn-end" -> Rest(r, now)
                  [] event = "session-end" -> Over(r, now)
        over == event = "session-end"
    IN  /\ active' = [x \in Sessions |->
                        IF x = s THEN (IF over THEN Nobody ELSE done)
                        ELSE IF x \in out THEN Nobody ELSE active[x]]
        /\ ended' = IF over THEN PushEnded(rest, done) ELSE rest

\* A hook's report.
Event(s, event, p) ==
    /\ p \notin dead
    /\ ApplyEvent(s, event, p)
    /\ UNCHANGED <<callers, world>>

\* set_current_tool, the second half of a report about a tool: other events may have
\* come since the first.
SetTool(s, p) ==
    /\ p \notin dead
    /\ active' = [active EXCEPT ![s] = IF IsActive(s) THEN Work(Touch(@, p)) ELSE @]
    /\ UNCHANGED <<ended, callers, world>>

\* The person corrects a session that looks busy.
ForceIdle(s) ==
    /\ IsActive(s) /\ active[s].state = "working"
    /\ active' = [active EXCEPT ![s] = [Rest(@, @.last) EXCEPT !.last = now]]
    /\ UNCHANGED <<ended, callers, world>>
-----------------------------------------------------------------------------
(***************************************************************************)
(* Questions                                                               *)
(***************************************************************************)

\* upsert_working: a session without an active record gets a new one, an ended record
\* of its own or not.
UpsertWorking(s, p) ==
    /\ active' = [active EXCEPT ![s] =
                    IF IsActive(s) THEN Work(Touch(@, p)) ELSE Work(Fresh(s, p))]
    /\ UNCHANGED ended

\* touch_activity.
TouchActivity(s, p) ==
    /\ active' = [active EXCEPT ![s] = IF IsActive(s) THEN Touch(@, p) ELSE @]
    /\ UNCHANGED ended

\* handle_submit for a caller with a session, with auto activation on or off; its
\* process is looked up in the background.
Ask(s) ==
    /\ s \in Callers \ asking
    /\ asking' = asking \cup {s}
    /\ resolving' = resolving \cup {s}
    /\ UpsertWorking(s, Nobody) \/ TouchActivity(s, Nobody)
    /\ UNCHANGED <<askers, world>>

\* spawn_agent_resolve: the answer may come after the question, or the session, is over.
Resolve(s, p) ==
    /\ s \in resolving
    /\ p \notin dead
    /\ resolving' = resolving \ {s}
    /\ askers' = IF s \in asking THEN askers \cup {p} ELSE askers
    /\ UpsertWorking(s, p) \/ TouchActivity(s, p)
    /\ UNCHANGED <<asking, world>>

\* The question of a caller known by its process alone: touch_activity_by_pid.
AskByPid(p) ==
    /\ p \notin dead \cup askers
    /\ askers' = askers \cup {p}
    /\ active' = [s \in Sessions |->
                    IF IsActive(s) /\ active[s].pid = p THEN Touch(active[s], p) ELSE active[s]]
    /\ UNCHANGED <<ended, asking, resolving, world>>

\* Questions are answered, or their callers leave.
QuestionsEnd(ss, ps) ==
    /\ ss \cup ps # {}
    /\ ss \subseteq asking /\ ps \subseteq askers
    /\ asking' = asking \ ss
    /\ askers' = askers \ ps
    /\ UNCHANGED <<active, ended, resolving, world>>
-----------------------------------------------------------------------------
(***************************************************************************)
(* The liveness tick and the restart                                       *)
(***************************************************************************)

Asked(s) == s \in asking \/ (IsActive(s) /\ active[s].pid \in askers)

\* Who the tick ends, and who it finds idle, when a record's last activity is "last".
Died(s) == active[s].pid \in dead
Silent(s, last) == active[s].pid = Nobody /\ now - last > TtlSecs
Stuck(s, last) == active[s].state = "working" /\ now - last > BackstopSecs

\* The passes in order: refresh what waits for an answer, end the dead, end the silent
\* without a process, and take the stuck for idle, their time counted to their last
\* activity.
Sweep(last) ==
    LET found == {s \in Sessions : IsActive(s)}
        died == {s \in found : Died(s)}
        silent == {s \in found \ died : Silent(s, last[s])}
        stuck == {s \in found \ (died \cup silent) : Stuck(s, last[s])}
        over == died \cup silent
    IN  /\ active' = [s \in Sessions |->
              IF s \notin found \/ s \in over THEN Nobody
              ELSE IF s \in stuck THEN [Rest(active[s], last[s]) EXCEPT !.last = last[s]]
              ELSE [active[s] EXCEPT !.last = last[s]]]
        /\ ended' = EndAll(EndAll(ended, {Over(active[s], now) : s \in died}),
                           {Over(active[s], last[s]) : s \in silent})

\* Mutant: the waiting agents are refreshed after the sweep.
MutLastActivity(s) == IF IsActive(s) THEN active[s].last ELSE 0

\* refresh_by_pids, refresh_by_session_ids.
LastActivity(s) == IF ~IsActive(s) THEN 0 ELSE IF Asked(s) THEN now ELSE active[s].last

LivenessTick ==
    /\ Sweep([s \in Sessions |-> LastActivity(s)])
    /\ UNCHANGED <<callers, world>>

\* The time counted by the ended records of a session, and when they started.
Counted(s, q) == SumOf([i \in DOMAIN q |-> IF q[i].session = s THEN q[i].counted ELSE 0])
Started(s, q) == {q[i].started : i \in {j \in DOMAIN q : q[j].session = s}}

\* Mutant: a twin's time is added and the twin stays.
MutMergeTwins(found, q) ==
    [active |-> [s \in Sessions |->
        IF found[s] = Nobody THEN Nobody ELSE [found[s] EXCEPT !.counted = @ + Counted(s, q)]],
     ended |-> q]

\* The ended records after the loop's first i turns: the first of twins takes their time
\* and their start.
Kept(found, q) ==
    LET merged[i \in 0..Len(q)] ==
          IF i = 0 THEN <<>>
          ELSE IF found[q[i].session] # Nobody \/ \E j \in 1..i - 1 : q[j].session = q[i].session
               THEN merged[i - 1]
          ELSE Append(merged[i - 1], [q[i] EXCEPT !.counted = Counted(q[i].session, q),
                                                  !.started = Min(Started(q[i].session, q))])
    IN  merged

\* merge_ended_twins: one record a session, an active one before its ended twins.
MergeTwins(found, q) ==
    [active |-> [s \in Sessions |->
        IF found[s] = Nobody THEN Nobody
        ELSE [found[s] EXCEPT !.counted = @ + Counted(s, q),
                              !.started = Min({@} \cup Started(s, q))]],
     ended |-> Kept(found, q)[Len(q)]]

\* The daemon persists and stops, and another loads: a record that was working goes on,
\* and one whose process died meanwhile has ended.
RestartDaemon ==
    LET found == {s \in Sessions : IsActive(s)}
        restored == [s \in found |-> IF active[s].state = "working" THEN StartActive(active[s])
                                     ELSE StopActive(active[s], active[s].last)]
        died == {s \in found : Died(s)}
        merged == MergeTwins([s \in Sessions |-> IF s \in found \ died THEN restored[s] ELSE Nobody],
                             Newest(SetToSeq({Over(restored[s], now) : s \in died}) \o ended))
    IN  /\ restarts < MaxRestarts
        /\ restarts' = restarts + 1
        /\ active' = merged.active /\ ended' = merged.ended
        /\ asking' = {} /\ askers' = {} /\ resolving' = {}
        /\ UNCHANGED <<now, dead>>

Second ==
    /\ now < MaxNow
    /\ now' = now + 1
    /\ UNCHANGED <<active, ended, callers, dead, restarts>>

ProcessEnds(p) ==
    /\ p \notin dead
    /\ dead' = dead \cup {p}
    /\ UNCHANGED <<active, ended, callers, now, restarts>>

Events == {"session-start", "turn-start", "activity", "turn-end", "session-end"}

RegistryNext ==
    \/ \E s \in Sessions, event \in Events, p \in Pids \cup {Nobody} : Event(s, event, p)
    \/ \E s \in Sessions, p \in Pids \cup {Nobody} : SetTool(s, p)
    \/ \E s \in Sessions : ForceIdle(s) \/ Ask(s) \/ \E p \in Pids : Resolve(s, p)
    \/ \E p \in Pids : AskByPid(p) \/ ProcessEnds(p)
    \/ \E ss \in SUBSET asking, ps \in SUBSET askers : QuestionsEnd(ss, ps)
    \/ LivenessTick \/ RestartDaemon \/ Second

RegistrySpec == RegistryInit /\ [][RegistryNext]_registryVars
-----------------------------------------------------------------------------
(***************************************************************************)
(* Properties                                                              *)
(***************************************************************************)

\* Across all the operations that set a state or open or close an interval: time is
\* being counted for exactly the sessions that are shown as working.
WorkingIsTimed ==
    /\ \A s \in Sessions : IsActive(s) =>
        /\ active[s].state \in {"working", "idle"}
        /\ active[s].state = "working" <=> active[s].since # 0
    /\ \A i \in DOMAIN ended : ended[i].state = "ended" /\ ended[i].since = 0

\* The active time shown for a session, over all its records, is no more than the time
\* since it started: no interval is counted twice, a restart and the merging of twins
\* included.
Running(s) == IF IsActive(s) /\ active[s].since # 0 THEN now - active[s].since ELSE 0
Starts(s) == Started(s, ended) \cup (IF IsActive(s) THEN {active[s].started} ELSE {})
NoTimeCountedTwice ==
    \A s \in Sessions : Starts(s) # {} =>
        Counted(s, ended) + (IF IsActive(s) THEN active[s].counted ELSE 0) + Running(s)
            <= now - Min(Starts(s))

\* The tick never takes an agent that waits for a person's answer for idle, and ends it
\* only with its process.
WaitingAgentStaysWorking ==
    [][LivenessTick => \A s \in Sessions : Asked(s) /\ IsActive(s) /\ ~Died(s) =>
            active'[s] # Nobody /\ active'[s].state = active[s].state]_registryVars
=============================================================================
