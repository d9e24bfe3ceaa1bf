---------------------------- MODULE PermissionRules ----------------------------
(***************************************************************************)
(* What "allow and remember" leaves behind (permission_rules.rs): rules of *)
(* a session and rules for all sessions in codex_rules.json, each dropped  *)
(* 30 days after its last use, with the daemon's callers: the checks       *)
(* before a confirmation is shown (daemon/runtime/mod.rs), the save of a   *)
(* winning choice (daemon/request.rs), and a person's resets.              *)
(*                                                                         *)
(* Threads of the daemon run the operations.  Each takes the lock file,    *)
(* loads, changes and writes; the writes may fail, and most callers do not *)
(* look.  What a path, host or command covers is a constant here, and so   *)
(* is what the hook put into the request: the check for symbolic links and *)
(* the write of the agent's own configuration are left out.                *)
(*                                                                         *)
(* A key is stored once in a namespace, so the list of its rules is kept   *)
(* as the last use of each key, 0 for a key without a rule.  The order of  *)
(* the list decides one thing alone, which of several rules that cover a   *)
(* thing is refreshed; here it is any of them.                             *)
(***************************************************************************)
EXTENDS Naturals, FiniteSets

CONSTANTS Threads,
          Owners,      \* sessions that ask
          Global,      \* the namespace of all sessions
          Things,      \* what is asked for: paths, hosts, commands, tools
          Tools,       \* those that are MCP tools
          Keys,        \* rules that cover things
          Disk,        \* FileDisk, one of them
          Covers,      \* what each of them covers
          Relaxed, Yolo,
          Jobs,        \* what the threads may be asked to do
          SessionCap,  \* SESSION_RULE_CAP
          StoreCap,    \* STORE_RULE_CAP
          RuleTtl,     \* RULE_TTL_MS
          MaxTime      \* bound: the clock

Modes == {Relaxed, Yolo}
Grants == Keys \cup Modes
Spaces == Owners \cup {Global}

Checks == [op : {"check", "relaxed", "yolo"}, space : Owners, things : SUBSET Things,
           eligible : BOOLEAN]
Saves == [op : {"save"}, space : Spaces, keys : {ks \in SUBSET Grants : IsFiniteSet(ks)}]
Resets == [op : {"disable"}, space : Owners] \cup [op : {"reset"}, space : Spaces]

ASSUME RulesAssumption ==
    /\ Global \notin Owners /\ Keys \cap Modes = {} /\ Relaxed # Yolo
    /\ Covers \in [Keys -> SUBSET Things]
    /\ Jobs \subseteq Checks \cup Saves \cup Resets
    /\ \A job \in Jobs : job.op \notin {"relaxed", "yolo"}
    /\ {SessionCap, StoreCap, RuleTtl, MaxTime} \subseteq Nat

VARIABLES
    clock,
    file,      \* codex_rules.json: the last use of each rule of a namespace
    holder,    \* the thread that holds the lock file, as a set
    task,      \* what a thread is doing
    loaded,    \* the rules it read
    at,        \* and when
    lastUse    \* history: when a grant in force was last used, 0 for none

rulesVars == <<clock, file, holder, task, loaded, at, lastUse>>

Nothing == [s \in Spaces |-> [k \in Grants |-> 0]]
Idle == [op |-> "idle"]

RulesInit ==
    /\ clock = 1
    /\ file = Nothing
    /\ holder = {}
    /\ task = [t \in Threads |-> Idle]
    /\ loaded = [t \in Threads |-> Nothing]
    /\ at = [t \in Threads |-> 0]
    /\ lastUse = Nothing

Has(own, k) == own[k] > 0
-----------------------------------------------------------------------------
(***************************************************************************)
(* Matching                                                                *)
(***************************************************************************)

\* The rules that cover x: a grant of the whole disk goes before the others.
Covering(own, x) ==
    LET all == {k \in Keys : Has(own, k) /\ x \in Covers[k]}
    IN  IF Disk \in all THEN {Disk} ELSE all

\* query_hits: a rule for each thing; no rules when one of them is not covered.
Hits(own, things) ==
    IF things = {} THEN {}
    ELSE {{pick[x] : x \in things} :
             pick \in {p \in [things -> Keys] : \A x \in things : p[x] \in Covering(own, x)}}
-----------------------------------------------------------------------------
(***************************************************************************)
(* Operations                                                              *)
(***************************************************************************)

\* A request for a permission, a choice to remember that won, or a reset comes.
Start(t, job) ==
    /\ task[t] = Idle
    /\ task' = [task EXCEPT ![t] = job]
    /\ UNCHANGED <<clock, file, holder, loaded, at, lastUse>>

\* Mutant: a rule is kept for one unit of time too long.
MutPrune(rules, now) ==
    [s \in Spaces |-> [k \in Grants |-> IF now - rules[s][k] <= RuleTtl + 1 THEN rules[s][k] ELSE 0]]

\* prune_expired.
Prune(rules, now) ==
    [s \in Spaces |-> [k \in Grants |-> IF now - rules[s][k] <= RuleTtl THEN rules[s][k] ELSE 0]]

\* load_at; a reset does not prune.
Load(t) ==
    /\ holder' = holder \cup {t}
    /\ loaded' = [loaded EXCEPT ![t] = IF task[t].op \in {"disable", "reset"} THEN file
                                       ELSE Prune(file, clock)]
    /\ at' = [at EXCEPT ![t] = clock]
    /\ UNCHANGED <<clock, file, task, lastUse>>

\* Mutant: a reset does not take the lock.
MutLock(t) ==
    /\ task[t].op \notin {"idle", "allow"} /\ t \notin holder
    /\ holder = {} \/ task[t].op = "reset"
    /\ Load(t)

\* lock_at waits for the lock file.
Lock(t) ==
    /\ task[t].op \notin {"idle", "allow"} /\ t \notin holder
    /\ holder = {}
    /\ Load(t)

\* The rules for ks in the namespace s were used at "now", or go when it is 0.
Mark(rules, s, ks, now) ==
    [rules EXCEPT ![s] = [k \in Grants |-> IF k \in ks THEN now ELSE rules[s][k]]]

\* store_at of what was read with some rules marked, which may fail.
Store(t, s, ks, now) ==
    \/ file' = Mark(loaded[t], s, ks, now) /\ lastUse' = Mark(lastUse, s, ks, now)
    \/ UNCHANGED <<file, lastUse>>

\* The lock is dropped and the thread goes on with "next".
Unlock(t, next) ==
    /\ holder' = holder \ {t}
    /\ task' = [task EXCEPT ![t] = next]
    /\ loaded' = [loaded EXCEPT ![t] = Nothing]
    /\ at' = [at EXCEPT ![t] = 0]
    /\ UNCHANGED clock

\* A hit in the rules of s: they are used now, and the request is allowed.
Allow(t, s, hits) ==
    /\ Store(t, s, hits, at[t])
    /\ Unlock(t, [op |-> "allow"])

\* A miss: what is left of the rules is written, and the next check is made.
Miss(t, next) ==
    /\ Store(t, task[t].space, {}, 0)
    /\ Unlock(t, next)

\* check_auto_allow: the rules of the session, then for a tool those of all sessions;
\* on a miss the modes are asked.
Check(t) ==
    LET job == task[t]
        own == Hits(loaded[t][job.space], job.things)
        shared == IF job.things \subseteq Tools THEN Hits(loaded[t][Global], job.things) ELSE {}
    IN  /\ job.op = "check" /\ t \in holder
        /\ \/ \E hits \in own : Allow(t, job.space, hits)
           \/ own = {} /\ \E hits \in shared : Allow(t, Global, hits)
           \/ /\ own = {} /\ shared = {}
              /\ Miss(t, [job EXCEPT !.op = IF job.eligible THEN "relaxed" ELSE "yolo"])

\* check_session_flag_at, the relaxed mode before the yolo mode; without either a person
\* is asked.
CheckFlag(t) ==
    LET job == task[t]
        mode == IF job.op = "relaxed" THEN Relaxed ELSE Yolo
    IN  /\ job.op \in {"relaxed", "yolo"} /\ t \in holder
        /\ IF Has(loaded[t][job.space], mode)
           THEN Allow(t, job.space, {mode})
           ELSE Miss(t, IF job.op = "relaxed" THEN [job EXCEPT !.op = "yolo"] ELSE Idle)

\* ConfirmFinal is written.
Reply(t) ==
    /\ task[t].op = "allow"
    /\ task' = [task EXCEPT ![t] = Idle]
    /\ UNCHANGED <<clock, file, holder, loaded, at, lastUse>>

\* total_rules; how many rules a namespace has.
Total(rules) == Cardinality({x \in Spaces \X Grants : Has(rules[x[1]], x[2])})
Count(own) == Cardinality({k \in Grants : Has(own, k)})

\* Mutant: the room is that of one rule.
MutRoom(rules, s, n) ==
    /\ s # Global => Count(rules[s]) < SessionCap
    /\ Total(rules) < StoreCap

\* The two caps.
Room(rules, s, n) ==
    /\ s # Global => Count(rules[s]) + n <= SessionCap
    /\ Total(rules) + n <= StoreCap

\* Mutant: a full session loses its oldest rules.
MutSave(t) ==
    LET job == task[t]
        own == loaded[t][job.space]
        new == {k \in job.keys : ~Has(own, k)}
        kept == IF Room(loaded[t], job.space, Cardinality(new)) THEN own
                ELSE [k \in Grants |-> IF \E j \in Grants : own[k] < own[j] THEN 0 ELSE own[k]]
    IN  /\ job.op = "save" /\ t \in holder
        /\ Unlock(t, Idle)
        /\ file' = Mark([loaded[t] EXCEPT ![job.space] = kept], job.space, new, at[t])
        /\ lastUse' = Mark(lastUse, job.space, new, at[t])

\* save_rules_at: all of the new rules or none; what is there stays as it is.
Save(t) ==
    LET job == task[t]
        new == {k \in job.keys : ~Has(loaded[t][job.space], k)}
    IN  /\ job.op = "save" /\ t \in holder
        /\ Unlock(t, Idle)
        /\ IF new # {} /\ Room(loaded[t], job.space, Cardinality(new))
           THEN Store(t, job.space, new, at[t])
           ELSE UNCHANGED <<file, lastUse>>

\* disable_yolo_at, reset_session_at and reset_global_at write when something goes.
Withdraw(t) ==
    LET job == task[t]
        goes == IF job.op = "disable" THEN {Yolo} ELSE Grants
    IN  /\ job.op \in {"disable", "reset"} /\ t \in holder
        /\ Unlock(t, Idle)
        /\ IF \E k \in goes : Has(loaded[t][job.space], k)
           THEN Store(t, job.space, goes, 0)
           ELSE UNCHANGED <<file, lastUse>>

\* The daemon dies: a file half written never becomes the store.
Kill ==
    /\ \E t \in Threads : task[t] # Idle
    /\ holder' = {}
    /\ task' = [t \in Threads |-> Idle]
    /\ loaded' = [t \in Threads |-> Nothing]
    /\ at' = [t \in Threads |-> 0]
    /\ UNCHANGED <<clock, file, lastUse>>

Day ==
    /\ clock < MaxTime
    /\ clock' = clock + 1
    /\ UNCHANGED <<file, holder, task, loaded, at, lastUse>>

RulesNext ==
    \/ \E t \in Threads :
        \/ \E job \in Jobs : Start(t, job)
        \/ Lock(t) \/ Check(t) \/ CheckFlag(t) \/ Reply(t) \/ Save(t) \/ Withdraw(t)
    \/ Kill \/ Day

RulesSpec == RulesInit /\ [][RulesNext]_rulesVars
-----------------------------------------------------------------------------
(***************************************************************************)
(* Properties                                                              *)
(***************************************************************************)

\* A grant that was withdrawn does not come back, whatever checks, saves and resets work
\* on copies of the store: each stored rule is a grant in force and knows its last use.
NoGrantReturns ==
    \A s \in Spaces, k \in Grants : Has(file[s], k) => file[s][k] = lastUse[s][k]

\* A person's grant stays until it is withdrawn or was not used for the retention time:
\* no other operation, and no cap, takes it away.
NoGrantIsLost ==
    \A s \in Spaces, k \in Grants :
        lastUse[s][k] > 0 /\ clock - lastUse[s][k] <= RuleTtl => Has(file[s], k)

\* However saves and other operations overlap, the store stays within its caps.
StoreWithinCaps ==
    /\ Total(file) <= StoreCap
    /\ \A s \in Owners : Count(file[s]) <= SessionCap

\* Nothing is allowed without a person but by grants in force when the rules were read:
\* of the session, of all sessions for a tool, or by a mode the request may use.
InForce(s, k, t) == lastUse[s][k] > 0 /\ at[t] - lastUse[s][k] <= RuleTtl
Granted(job, t) ==
    \/ InForce(job.space, Yolo, t)
    \/ job.eligible /\ InForce(job.space, Relaxed, t)
    \/ \A x \in job.things : \E k \in Keys :
         /\ x \in Covers[k]
         /\ InForce(job.space, k, t) \/ (x \in Tools /\ InForce(Global, k, t))
AllowedByGrants ==
    [][\A t \in Threads : task[t].op \in {"check", "relaxed", "yolo"} /\ task'[t].op = "allow" =>
         Granted(task[t], t)]_rulesVars
=============================================================================
