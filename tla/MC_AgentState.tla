----------------------------- MODULE MC_AgentState -----------------------------
(***************************************************************************)
(* Instances of what the daemon keeps about agents: their interjections,   *)
(* their records and the grants of their sessions.  The three stores have  *)
(* no operation in common, so a behaviour of this module is one of one of  *)
(* them, and the other two stay as they began.                             *)
(***************************************************************************)
EXTENDS Interject, AgentRegistry, PermissionRules, TLC

CONSTANTS a1, h1, h2, m1, m2, im, s1, s2, p1,
          sess, everyone, fileA, aDisk, aTool, fa, fb, tool, relaxed, yolo, t1, t2

VARIABLE part

\* Both hooks belong to the session.
HooksOf == h1 :> a1 @@ h2 :> a1

CoversOf == fileA :> {fa} @@ aDisk :> {fa, fb} @@ aTool :> {tool}
JobsOf ==
    [op : {"check"}, space : {sess}, things : {{fa, fb}, {tool}}, eligible : BOOLEAN]
    \cup [op : {"save"}, space : {sess}, keys : {{fileA}, {aDisk, aTool}, {yolo}, {relaxed}}]
    \cup [op : {"save"}, space : {everyone}, keys : {{aTool}}]
    \cup [op : {"disable"}, space : {sess}]
    \cup [op : {"reset"}, space : {sess, everyone}]

allVars == <<part, interjectVars, registryVars, rulesVars>>

Init ==
    /\ part \in {"interjections", "records", "grants"}
    /\ InterjectInit /\ RegistryInit /\ RulesInit

Next ==
    /\ UNCHANGED part
    /\ \/ part = "interjections" /\ InterjectNext /\ UNCHANGED <<registryVars, rulesVars>>
       \/ part = "records" /\ RegistryNext /\ UNCHANGED <<interjectVars, rulesVars>>
       \/ part = "grants" /\ RulesNext /\ UNCHANGED <<interjectVars, registryVars>>

\* The daemon's ticker runs and its tick comes to an end.
Ticking(step) == part = "interjections" /\ step /\ UNCHANGED <<part, registryVars, rulesVars>>

Spec == Init /\ [][Next]_allVars /\ WF_allVars(Ticking(Tick)) /\ WF_allVars(Ticking(Retain))
=============================================================================
