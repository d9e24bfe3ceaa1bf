--------------------------- MODULE Interject_proofs ---------------------------
(***************************************************************************)
(* For any number of sessions, hooks, windows, messages and channels, and  *)
(* any interleaving of persons, hooks, session ends and restarts: a hook   *)
(* is held only by a window that will let it go, no message is lost        *)
(* between the queue and a hook, and receipts are owed for what waits.     *)
(*                                                                         *)
(* The argument goes along the life of a message: NewIsNowhere before it   *)
(* is sent, then the queue, then a connection, which carries nothing       *)
(* until it is handed the queue (HandsAreEmpty).                           *)
(***************************************************************************)
EXTENDS Interject, TLAPS

InterjectType ==
    /\ queue \in [Agents -> Seq(Messages)]
    /\ receipts \in [Agents -> SUBSET Channels]
    /\ windows \in [Agents -> Nat]
    /\ waiters \in [Agents -> SUBSET Hooks]
    /\ stored \in [queue : [Agents -> Seq(Messages)], receipts : [Agents -> SUBSET Channels]]
    /\ hook \in [Hooks -> States]
    /\ gone \in [Hooks -> BOOLEAN]
    /\ carried \in [Hooks -> Seq(Messages)]
    /\ owed \in [Hooks -> SUBSET Channels]
    /\ origin \in [Messages -> Channels \cup {None}]
    /\ fate \in [Messages -> Fates]

\* A connection carries nothing until a delivery is handed to it.
HandsAreEmpty == \A h \in Hooks : hook[h] \in {"idle", "polling", "held"} => carried[h] = <<>>

\* A message that nobody sent is in no queue, in no file and on no connection.
NewIsNowhere ==
    \A m \in Messages : fate[m] = "new" =>
        /\ \A a \in Agents : m \notin Elements(queue[a]) \cup Elements(stored.queue[a])
        /\ \A h \in Hooks : m \notin Elements(carried[h])

\* Who keeps a message that waits: a queue, or a connection that may yet write it or
\* hung up on it.
Keeps(h, m) ==
    /\ m \in Elements(carried[h])
    /\ hook[h] \in {"answering", "told"} \/ gone[h] = TRUE
SentIsKept ==
    \A m \in Messages : fate[m] = "sent" =>
        (\E a \in Agents : m \in Elements(queue[a])) \/ (\E h \in Hooks : Keeps(h, m))

IInv == InterjectType /\ HeldByAWindow /\ HandsAreEmpty /\ NewIsNowhere /\ SentIsKept
-----------------------------------------------------------------------------
\* What is in a sequence of messages.
LEMMA ElementsOf ==
    /\ Elements(<<>>) = {}
    /\ \A m : Elements(<<m>>) = {m}
    /\ \A q \in Seq(Messages), m \in Messages : Elements(Append(q, m)) = Elements(q) \cup {m}
    /\ \A q, r \in Seq(Messages) : Elements(q \o r) = Elements(q) \cup Elements(r)
    /\ \A q \in Seq(Messages) : Elements(q) \subseteq Messages /\ (q # <<>> => Elements(q) # {})
  <1>1. Elements(<<>>) = {} /\ \A m : Elements(<<m>>) = {m}
    BY DEF Elements
  <1>2. ASSUME NEW q \in Seq(Messages), NEW m \in Messages
        PROVE  Elements(Append(q, m)) = Elements(q) \cup {m}
    <2>1. Len(q) \in Nat /\ DOMAIN q = 1..Len(q) /\ DOMAIN Append(q, m) = 1..(Len(q) + 1)
      OBVIOUS
    <2>2. \A i \in 1..Len(q) : Append(q, m)[i] = q[i]
      OBVIOUS
    <2>3. Append(q, m)[Len(q) + 1] = m
      OBVIOUS
    <2>4. 1..(Len(q) + 1) = 1..Len(q) \cup {Len(q) + 1}
      BY <2>1
    <2>5. QED
      BY <2>1, <2>2, <2>3, <2>4 DEF Elements
  <1>3. ASSUME NEW q \in Seq(Messages), NEW r \in Seq(Messages)
        PROVE  Elements(q \o r) = Elements(q) \cup Elements(r)
    <2>1. Len(q) \in Nat /\ Len(r) \in Nat /\ Len(q \o r) = Len(q) + Len(r)
      OBVIOUS
    <2>2. \A i \in 1..Len(q) : (q \o r)[i] = q[i] /\ i \in 1..Len(q \o r)
      BY <2>1
    <2>3. \A i \in 1..Len(r) : (q \o r)[Len(q) + i] = r[i] /\ Len(q) + i \in 1..Len(q \o r)
      BY <2>1
    <2>4. \A i \in 1..Len(q \o r) : i \in 1..Len(q) \/ i - Len(q) \in 1..Len(r)
      BY <2>1
    <2>5. \A i \in 1..Len(q \o r) :
            i \in 1..Len(q) \/ ((i - Len(q)) \in 1..Len(r) /\ (q \o r)[i] = r[i - Len(q)])
      BY <2>1, <2>4
    <2>6. q \o r \in Seq(Messages)
      OBVIOUS
    <2>7. Elements(q \o r) = {(q \o r)[i] : i \in 1..Len(q \o r)}
      BY <2>6 DEF Elements
    <2>8. Elements(q) = {q[i] : i \in 1..Len(q)} /\ Elements(r) = {r[i] : i \in 1..Len(r)}
      BY DEF Elements
    <2>9. QED
      BY <2>2, <2>3, <2>5, <2>7, <2>8
  <1>4. ASSUME NEW q \in Seq(Messages)
        PROVE  Elements(q) \subseteq Messages /\ (q # <<>> => Elements(q) # {})
    <2>1. DOMAIN q = 1..Len(q) /\ \A i \in 1..Len(q) : q[i] \in Messages
      OBVIOUS
    <2>2. q # <<>> => 1 \in 1..Len(q)
      OBVIOUS
    <2>3. QED
      BY <2>1, <2>2 DEF Elements
  <1>5. QED
    BY <1>1, <1>2, <1>3, <1>4

\* The start.
LEMMA InitIInv == InterjectInit => IInv
  BY ElementsOf DEF InterjectInit, IInv, InterjectType, HeldByAWindow, HandsAreEmpty, NewIsNowhere,
       SentIsKept, States, Fates
-----------------------------------------------------------------------------
(***************************************************************************)
(* Handing the queue over                                                  *)
(***************************************************************************)

\* A new queue goes to one held hook, which had nothing and goes on, or stays.
LEMMA TryDeliverGives ==
    ASSUME IInv, NEW a \in Agents, NEW q \in Seq(Messages), NEW channels \in SUBSET Channels,
           TryDeliver(a, q, channels)
    PROVE  /\ waiters' \in [Agents -> SUBSET Hooks] /\ hook' \in [Hooks -> States]
           /\ \A h \in Hooks : hook'[h] # hook[h] => hook[h] = "held" /\ hook'[h] = "told"
           /\ HeldByAWindow'
           /\ \/ /\ queue' = [queue EXCEPT ![a] = <<>>]
                 /\ receipts' = [receipts EXCEPT ![a] = {}]
                 /\ \E h \in Hooks : /\ hook[h] = "held" /\ hook'[h] = "told"
                                     /\ carried' = [carried EXCEPT ![h] = q]
              \/ /\ queue' = [queue EXCEPT ![a] = q]
                 /\ receipts' = [receipts EXCEPT ![a] = channels]
                 /\ UNCHANGED <<hook, carried>>
  <1> USE InterjectAssumption DEF IInv, InterjectType, HeldByAWindow, States
  <1>1. CASE \E h \in Open(a) : Tell(a, {h}, q) /\ q # <<>>
               /\ queue' = [queue EXCEPT ![a] = <<>>] /\ receipts' = [receipts EXCEPT ![a] = {}]
    <2>1. PICK h \in Open(a) : Tell(a, {h}, q)
      BY <1>1
    <2>2. h \in Hooks /\ hook[h] = "held" /\ hook'[h] = "told"
      BY <2>1 DEF Open, Tell
    <2>3. /\ waiters' \in [Agents -> SUBSET Hooks] /\ hook' \in [Hooks -> States]
          /\ \A g \in Hooks : hook'[g] # hook[g] => hook[g] = "held" /\ hook'[g] = "told"
      BY <2>1 DEF Open, Tell
    <2>4. HeldByAWindow'
      BY <2>1 DEF Open, Tell, TryDeliver
    <2>5. carried' = [carried EXCEPT ![h] = q]
      BY <2>1 DEF Tell
    <2>6. QED
      BY <1>1, <2>2, <2>3, <2>4, <2>5
  <1>2. CASE /\ waiters' = [waiters EXCEPT ![a] = Open(a)]
             /\ queue' = [queue EXCEPT ![a] = q]
             /\ receipts' = [receipts EXCEPT ![a] = channels]
             /\ UNCHANGED <<hook, carried>>
    <2>1. HeldByAWindow'
      BY <1>2 DEF Open, TryDeliver
    <2>2. QED
      BY <1>2, <2>1 DEF Open
  <1>3. QED
    BY <1>1, <1>2 DEF TryDeliver

\* With the last window every held hook of the session is told to go on.
LEMMA TellFrees ==
    ASSUME IInv, NEW a \in Agents, Tell(a, {}, <<>>)
    PROVE  /\ waiters' \in [Agents -> SUBSET Hooks] /\ hook' \in [Hooks -> States]
           /\ \A h \in Hooks : hook'[h] # hook[h] => hook[h] = "held" /\ hook'[h] = "told"
           /\ \A h \in Hooks : hook'[h] = "held" =>
                  AgentOf[h] # a /\ windows[AgentOf[h]] > 0 /\ h \in waiters'[AgentOf[h]]
           /\ carried' = carried
  BY InterjectAssumption DEF IInv, InterjectType, HeldByAWindow, States, Open, Tell
-----------------------------------------------------------------------------
(***************************************************************************)
(* Every action                                                            *)
(***************************************************************************)

\* A submission withdraws what was queued.
LEMMA SubmitStep ==
    ASSUME IInv, NEW a \in Agents, NEW m \in Messages, Submit(a, m) PROVE IInv'
  <1>1. TryDeliver(a, <<m>>, {}) /\ <<m>> \in Seq(Messages) /\ Elements(<<m>>) = {m}
    BY ElementsOf DEF Submit
  <1>2. /\ waiters' \in [Agents -> SUBSET Hooks] /\ hook' \in [Hooks -> States]
        /\ \A h \in Hooks : hook'[h] # hook[h] => hook[h] = "held" /\ hook'[h] = "told"
        /\ HeldByAWindow'
        /\ \/ /\ queue' = [queue EXCEPT ![a] = <<>>]
              /\ receipts' = [receipts EXCEPT ![a] = {}]
              /\ \E h \in Hooks : /\ hook[h] = "held" /\ hook'[h] = "told"
                                  /\ carried' = [carried EXCEPT ![h] = <<m>>]
           \/ /\ queue' = [queue EXCEPT ![a] = <<m>>]
              /\ receipts' = [receipts EXCEPT ![a] = {}]
              /\ UNCHANGED <<hook, carried>>
    <2>1. {} \in SUBSET Channels
      OBVIOUS
    <2>2. QED
      BY <1>1, <2>1, TryDeliverGives
  <1>3. /\ fate' = [x \in Messages |-> IF x = m THEN "sent"
                                       ELSE IF x \in Elements(queue[a]) THEN "withdrawn" ELSE fate[x]]
        /\ fate[m] = "new"
        /\ stored' = [queue |-> queue', receipts |-> receipts']
        /\ UNCHANGED <<windows, gone, owed, origin>>
    BY DEF Submit, Fated, Persist, TryDeliver, sessions
  <1>4. InterjectType'
    <2>1. queue' \in [Agents -> Seq(Messages)] /\ receipts' \in [Agents -> SUBSET Channels]
      <3>1. /\ queue' \in {[queue EXCEPT ![a] = <<>>], [queue EXCEPT ![a] = <<m>>]}
            /\ receipts' = [receipts EXCEPT ![a] = {}]
        BY <1>2
      <3>2. <<>> \in Seq(Messages)
        OBVIOUS
      <3>3. queue' \in [Agents -> Seq(Messages)]
        BY <1>1, <3>1, <3>2 DEF IInv, InterjectType
      <3>4. QED
        BY <3>1, <3>3 DEF IInv, InterjectType
    <2>2. carried' \in [Hooks -> Seq(Messages)]
      BY <1>1, <1>2 DEF IInv, InterjectType
    <2>3. fate' \in [Messages -> Fates]
      BY <1>3 DEF IInv, InterjectType, Fates
    <2>4. QED
      BY <1>2, <1>3, <2>1, <2>2, <2>3 DEF IInv, InterjectType
  <1>5. HandsAreEmpty'
    BY <1>2 DEF IInv, InterjectType, HandsAreEmpty
  <1>6. NewIsNowhere'
    BY <1>1, <1>2, <1>3, ElementsOf DEF IInv, InterjectType, NewIsNowhere
  <1>7. SentIsKept'
    BY <1>1, <1>2, <1>3, ElementsOf
       DEF IInv, InterjectType, HandsAreEmpty, SentIsKept, Keeps
  <1>8. QED
    BY <1>2, <1>4, <1>5, <1>6, <1>7 DEF IInv

\* A message from a channel goes behind what is queued.
LEMMA AppendStep ==
    ASSUME IInv, NEW a \in Agents, NEW m \in Messages, NEW c \in Channels \cup {None},
           AppendFrom(a, m, c)
    PROVE  IInv'
  <1> DEFINE q == Append(queue[a], m)
             channels == receipts[a] \cup ({c} \ {None})
  <1>1. /\ TryDeliver(a, q, channels) /\ q \in Seq(Messages) /\ channels \in SUBSET Channels
        /\ Elements(q) = Elements(queue[a]) \cup {m}
    BY ElementsOf DEF AppendFrom, IInv, InterjectType
  <1>2. PICK r \in Seq(Messages), cs \in SUBSET Channels :
            r = q /\ cs = channels /\ Elements(r) = Elements(queue[a]) \cup {m}
    BY <1>1
  <1> HIDE DEF q, channels
  <1>3. /\ waiters' \in [Agents -> SUBSET Hooks] /\ hook' \in [Hooks -> States]
        /\ \A h \in Hooks : hook'[h] # hook[h] => hook[h] = "held" /\ hook'[h] = "told"
        /\ HeldByAWindow'
        /\ \/ /\ queue' = [queue EXCEPT ![a] = <<>>]
              /\ receipts' = [receipts EXCEPT ![a] = {}]
              /\ \E h \in Hooks : /\ hook[h] = "held" /\ hook'[h] = "told"
                                  /\ carried' = [carried EXCEPT ![h] = r]
           \/ /\ queue' = [queue EXCEPT ![a] = r]
              /\ receipts' = [receipts EXCEPT ![a] = cs]
              /\ UNCHANGED <<hook, carried>>
    BY <1>1, <1>2, TryDeliverGives
  <1>4. /\ fate' = [fate EXCEPT ![m] = "sent"] /\ fate[m] = "new"
        /\ origin' = [origin EXCEPT ![m] = c]
        /\ stored' = [queue |-> queue', receipts |-> receipts']
        /\ UNCHANGED <<windows, gone, owed>>
    BY DEF AppendFrom, Persist, TryDeliver
  <1>5. InterjectType'
    <2>1. queue' \in [Agents -> Seq(Messages)] /\ receipts' \in [Agents -> SUBSET Channels]
      <3>1. /\ queue' \in {[queue EXCEPT ![a] = <<>>], [queue EXCEPT ![a] = r]}
            /\ receipts' \in {[receipts EXCEPT ![a] = {}], [receipts EXCEPT ![a] = cs]}
        BY <1>3
      <3>2. <<>> \in Seq(Messages)
        OBVIOUS
      <3>3. queue' \in [Agents -> Seq(Messages)]
        BY <3>1, <3>2 DEF IInv, InterjectType
      <3>4. QED
        BY <3>1, <3>3 DEF IInv, InterjectType
    <2>2. carried' \in [Hooks -> Seq(Messages)]
      BY <1>3 DEF IInv, InterjectType
    <2>3. fate' \in [Messages -> Fates] /\ origin' \in [Messages -> Channels \cup {None}]
      BY <1>4 DEF IInv, InterjectType, Fates
    <2>4. QED
      BY <1>3, <1>4, <2>1, <2>2, <2>3 DEF IInv, InterjectType
  <1>6. HandsAreEmpty'
    BY <1>3 DEF IInv, InterjectType, HandsAreEmpty
  <1>7. NewIsNowhere'
    BY <1>2, <1>3, <1>4, ElementsOf DEF IInv, InterjectType, NewIsNowhere
  <1>8. SentIsKept'
    <2>1. \A x \in Elements(queue[a]) \cup {m} :
            (\E b \in Agents : x \in Elements(queue'[b])) \/ (\E h \in Hooks : Keeps(h, x)')
      BY <1>2, <1>3, <1>4 DEF IInv, InterjectType, Keeps
    <2>2. \A b \in Agents \ {a} : queue'[b] = queue[b]
      BY <1>3 DEF IInv, InterjectType
    <2>3. \A h \in Hooks, x \in Messages : Keeps(h, x) => Keeps(h, x)'
      BY <1>3, <1>4, ElementsOf DEF IInv, InterjectType, HandsAreEmpty, Keeps
    <2>4. \A x \in Messages \ {m} : fate'[x] = fate[x]
      BY <1>4 DEF IInv, InterjectType
    <2>5. QED
      BY <2>1, <2>2, <2>3, <2>4 DEF IInv, SentIsKept
  <1>9. QED
    BY <1>3, <1>5, <1>6, <1>7, <1>8 DEF IInv

\* The person empties the queue.
LEMMA ClearStep ==
    ASSUME IInv, NEW a \in Agents, Clear(a) PROVE IInv'
  <1>1. InterjectType'
    BY DEF Clear, connection, Persist, Fated, IInv, InterjectType, Fates
  <1>2. HeldByAWindow' /\ HandsAreEmpty'
    BY DEF Clear, connection, IInv, HeldByAWindow, HandsAreEmpty
  <1>3. NewIsNowhere'
    BY ElementsOf DEF Clear, connection, Persist, Fated, IInv, InterjectType, NewIsNowhere
  <1>4. SentIsKept'
    BY ElementsOf DEF Clear, connection, Fated, IInv, InterjectType, SentIsKept, Keeps
  <1>5. QED
    BY <1>1, <1>2, <1>3, <1>4 DEF IInv

\* Windows open and close; the close of the last frees every held hook.
LEMMA WindowStep ==
    ASSUME IInv, NEW a \in Agents, OpenWindow(a) \/ CloseWindow(a) PROVE IInv'
  <1>1. CASE OpenWindow(a)
    <2>1. /\ windows' = [windows EXCEPT ![a] = @ + 1]
          /\ UNCHANGED <<queue, receipts, waiters, stored, hook, gone, carried, owed, origin, fate>>
      BY <1>1 DEF OpenWindow, connection, history
    <2>2. InterjectType'
      BY <2>1 DEF IInv, InterjectType
    <2>3. HeldByAWindow'
      BY <2>1, InterjectAssumption DEF IInv, InterjectType, HeldByAWindow
    <2>4. (HandsAreEmpty /\ NewIsNowhere /\ SentIsKept)'
      BY <2>1 DEF IInv, HandsAreEmpty, NewIsNowhere, SentIsKept, Keeps
    <2>5. QED
      BY <2>2, <2>3, <2>4 DEF IInv
  <1>2. CASE CloseWindow(a) /\ windows[a] > 1
    <2>1. /\ windows' = [windows EXCEPT ![a] = @ - 1]
          /\ UNCHANGED <<queue, receipts, waiters, stored, hook, gone, carried, owed, origin, fate>>
      BY <1>2 DEF CloseWindow, history, IInv, InterjectType
    <2>2. InterjectType'
      BY <1>2, <2>1 DEF IInv, InterjectType
    <2>3. HeldByAWindow'
      BY <1>2, <2>1, InterjectAssumption DEF IInv, InterjectType, HeldByAWindow
    <2>4. (HandsAreEmpty /\ NewIsNowhere /\ SentIsKept)'
      BY <2>1 DEF IInv, HandsAreEmpty, NewIsNowhere, SentIsKept, Keeps
    <2>5. QED
      BY <2>2, <2>3, <2>4 DEF IInv
  <1>3. CASE CloseWindow(a) /\ Tell(a, {}, <<>>)
    <2>1. /\ waiters' \in [Agents -> SUBSET Hooks] /\ hook' \in [Hooks -> States]
          /\ \A h \in Hooks : hook'[h] # hook[h] => hook[h] = "held" /\ hook'[h] = "told"
          /\ \A h \in Hooks : hook'[h] = "held" =>
                 AgentOf[h] # a /\ windows[AgentOf[h]] > 0 /\ h \in waiters'[AgentOf[h]]
          /\ carried' = carried
      BY <1>3, TellFrees
    <2>2. windows' = [windows EXCEPT ![a] = @ - 1] /\ windows[a] > 0
      BY <1>3 DEF CloseWindow
    <2>3. UNCHANGED <<queue, receipts, stored, gone, owed, origin, fate>>
      BY <1>3 DEF CloseWindow, history
    <2>4. InterjectType'
      BY <2>1, <2>2, <2>3 DEF IInv, InterjectType
    <2>5. HeldByAWindow'
      BY <2>1, <2>2, InterjectAssumption DEF IInv, InterjectType, HeldByAWindow
    <2>6. (HandsAreEmpty /\ NewIsNowhere /\ SentIsKept)'
      BY <2>1, <2>3, ElementsOf DEF IInv, InterjectType, HandsAreEmpty, NewIsNowhere,
           SentIsKept, Keeps
    <2>7. QED
      BY <2>4, <2>5, <2>6 DEF IInv
  <1>4. QED
    BY <1>1, <1>2, <1>3 DEF CloseWindow

\* A hook reports and may give up.
LEMMA ReportStep ==
    ASSUME IInv, NEW h \in Hooks, Report(h) \/ GiveUp(h) PROVE IInv'
  <1>1. /\ hook' \in {hook, [hook EXCEPT ![h] = "polling"]}
        /\ gone' \in {gone, [gone EXCEPT ![h] = TRUE]}
        /\ hook' = hook \/ hook[h] = "idle"
        /\ UNCHANGED <<queue, receipts, windows, waiters, stored, carried, owed, origin, fate>>
    BY DEF Report, GiveUp, entry, history
  <1>2. InterjectType'
    BY <1>1 DEF IInv, InterjectType, States
  <1>3. (HeldByAWindow /\ HandsAreEmpty /\ NewIsNowhere)'
    BY <1>1 DEF IInv, InterjectType, HeldByAWindow, HandsAreEmpty, NewIsNowhere
  <1>4. SentIsKept'
    BY <1>1 DEF IInv, InterjectType, SentIsKept, Keeps
  <1>5. QED
    BY <1>2, <1>3, <1>4 DEF IInv

\* It is handed the queue.
LEMMA PollMessageStep ==
    ASSUME IInv, NEW h \in Hooks, PollMessage(h) PROVE IInv'
  <1>1. PICK a \in Agents : a = AgentOf[h]
    BY InterjectAssumption
  <1>2. InterjectType'
    BY <1>1 DEF PollMessage, history, IInv, InterjectType, States
  <1>3. HeldByAWindow' /\ HandsAreEmpty'
    BY DEF PollMessage, IInv, InterjectType, HeldByAWindow, HandsAreEmpty
  <1>4. NewIsNowhere'
    BY <1>1, ElementsOf DEF PollMessage, history, IInv, InterjectType, NewIsNowhere
  <1>5. SentIsKept'
    BY <1>1, ElementsOf DEF PollMessage, history, IInv, InterjectType, HandsAreEmpty,
         SentIsKept, Keeps
  <1>6. QED
    BY <1>2, <1>3, <1>4, <1>5 DEF IInv

\* It is held by an open window, or goes on.
LEMMA PollOtherStep ==
    ASSUME IInv, NEW h \in Hooks, PollHold(h) \/ PollNone(h) PROVE IInv'
  <1>1. PICK a \in Agents : a = AgentOf[h]
    BY InterjectAssumption
  <1>2. CASE PollHold(h)
    BY <1>1, <1>2, InterjectAssumption DEF PollHold, history, Open, IInv, InterjectType, States,
         HeldByAWindow, HandsAreEmpty, NewIsNowhere, SentIsKept, Keeps
  <1>3. CASE PollNone(h)
    BY <1>3 DEF PollNone, entry, history, IInv, InterjectType, States, HeldByAWindow, HandsAreEmpty,
         NewIsNowhere, SentIsKept, Keeps
  <1>4. QED
    BY <1>2, <1>3

\* What a hook carries goes back to the queue.
LEMMA RequeueGives ==
    ASSUME IInv, NEW a \in Agents, NEW q \in Seq(Messages), NEW channels \in SUBSET Channels,
           Requeue(a, q, channels)
    PROVE  /\ queue' = [queue EXCEPT ![a] = q \o @]
           /\ queue' \in [Agents -> Seq(Messages)]
           /\ receipts' \in [Agents -> SUBSET Channels]
           /\ stored' \in [queue : [Agents -> Seq(Messages)], receipts : [Agents -> SUBSET Channels]]
           /\ stored'.queue \in {stored.queue, queue'}
           /\ Elements(queue'[a]) = Elements(q) \cup Elements(queue[a])
           /\ \A b \in Agents \ {a} : queue'[b] = queue[b]
  <1>1. queue[a] \in Seq(Messages) /\ queue' = [queue EXCEPT ![a] = q \o @]
    BY DEF Requeue, IInv, InterjectType
  <1>2. q \o queue[a] \in Seq(Messages)
    BY <1>1
  <1>3. queue' \in [Agents -> Seq(Messages)] /\ queue'[a] = q \o queue[a]
    BY <1>1, <1>2 DEF IInv, InterjectType
  <1>4. receipts' \in [Agents -> SUBSET Channels]
    BY DEF Requeue, IInv, InterjectType
  <1>5. stored' = stored \/ stored' = [queue |-> queue', receipts |-> receipts']
    BY DEF Requeue, Persist
  <1>6. Elements(queue'[a]) = Elements(q) \cup Elements(queue[a])
    BY <1>1, <1>3, ElementsOf
  <1>7. /\ stored' \in [queue : [Agents -> Seq(Messages)], receipts : [Agents -> SUBSET Channels]]
        /\ stored'.queue \in {stored.queue, queue'}
    BY <1>3, <1>4, <1>5 DEF IInv, InterjectType
  <1>8. \A b \in Agents \ {a} : queue'[b] = queue[b]
    BY <1>1 DEF IInv, InterjectType
  <1>9. QED
    BY <1>1, <1>3, <1>4, <1>6, <1>7, <1>8

\* The write to a hook succeeds: what it carries is read, unless the hook is gone.
LEMMA WrittenStep ==
    ASSUME IInv, NEW h \in Hooks, hook[h] \in {"answering", "told"},
           hook' = [hook EXCEPT ![h] = "done"],
           carried' = [carried EXCEPT ![h] = IF gone[h] THEN @ ELSE <<>>],
           fate' = Fated(Readers(h), "read"),
           stored' = stored \/ stored' = [queue |-> queue, receipts |-> receipts],
           UNCHANGED <<queue, receipts, windows, waiters, gone, owed, origin>>
    PROVE  IInv'
  <1>1. InterjectType'
    <2>1. hook' \in [Hooks -> States] /\ carried' \in [Hooks -> Seq(Messages)]
      BY DEF IInv, InterjectType, States
    <2>2. fate' \in [Messages -> Fates]
      BY DEF IInv, InterjectType, Fated, Fates
    <2>3. QED
      BY <2>1, <2>2 DEF IInv, InterjectType
  <1>2. HeldByAWindow' /\ HandsAreEmpty'
    BY DEF IInv, InterjectType, HeldByAWindow, HandsAreEmpty
  <1>3. NewIsNowhere'
    BY ElementsOf DEF IInv, InterjectType, NewIsNowhere, Fated
  <1>4. SentIsKept'
    <2>1. ASSUME NEW m \in Messages, fate'[m] = "sent"
          PROVE  fate[m] = "sent" /\ m \notin Readers(h)
      BY <2>1 DEF Fated
    <2>2. ASSUME NEW m \in Messages, m \notin Readers(h), NEW g \in Hooks, Keeps(g, m)
          PROVE  Keeps(g, m)'
      BY <2>2 DEF IInv, InterjectType, Keeps, Readers
    <2>3. QED
      BY <2>1, <2>2 DEF IInv, SentIsKept
  <1>5. QED
    BY <1>1, <1>2, <1>3, <1>4 DEF IInv

\* The write fails: what the hook carried is back in the queue.
LEMMA TakenBackStep ==
    ASSUME IInv, NEW h \in Hooks, NEW channels \in SUBSET Channels,
           hook' = [hook EXCEPT ![h] = "done"],
           carried' = [carried EXCEPT ![h] = <<>>],
           Requeue(AgentOf[h], carried[h], channels),
           UNCHANGED <<windows, waiters, gone, owed, origin, fate>>
    PROVE  IInv'
  <1>1. PICK a \in Agents, q \in Seq(Messages) : a = AgentOf[h] /\ q = carried[h]
    BY InterjectAssumption DEF IInv, InterjectType
  <1>2. /\ queue' \in [Agents -> Seq(Messages)]
        /\ receipts' \in [Agents -> SUBSET Channels]
        /\ stored' \in [queue : [Agents -> Seq(Messages)], receipts : [Agents -> SUBSET Channels]]
        /\ stored'.queue \in {stored.queue, queue'}
        /\ Elements(queue'[a]) = Elements(q) \cup Elements(queue[a])
        /\ \A b \in Agents \ {a} : queue'[b] = queue[b]
    BY <1>1, RequeueGives
  <1>3. InterjectType'
    <2>1. hook' \in [Hooks -> States] /\ carried' \in [Hooks -> Seq(Messages)]
      BY DEF IInv, InterjectType, States
    <2>2. QED
      BY <1>2, <2>1 DEF IInv, InterjectType
  <1>4. HeldByAWindow' /\ HandsAreEmpty'
    BY DEF IInv, InterjectType, HeldByAWindow, HandsAreEmpty
  <1>5. NewIsNowhere'
    <2>1. \A m \in Messages, g \in Hooks : m \in Elements(carried'[g]) => m \in Elements(carried[g])
      BY ElementsOf DEF IInv, InterjectType
    <2>2. \A m \in Messages, b \in Agents : m \in Elements(queue'[b]) =>
            m \in Elements(queue[b]) \cup Elements(q)
      BY <1>2
    <2>3. QED
      BY <1>1, <1>2, <2>1, <2>2 DEF IInv, NewIsNowhere
  <1>6. SentIsKept'
    <2>1. ASSUME NEW m \in Messages, NEW g \in Hooks \ {h}, Keeps(g, m) PROVE Keeps(g, m)'
      BY <2>1 DEF IInv, InterjectType, Keeps
    <2>2. \A m \in Messages : Keeps(h, m) => m \in Elements(queue'[a])
      BY <1>1, <1>2 DEF Keeps
    <2>3. \A b \in Agents : Elements(queue[b]) \subseteq Elements(queue'[b])
      BY <1>2
    <2>4. QED
      BY <2>1, <2>2, <2>3 DEF IInv, SentIsKept
  <1>7. QED
    BY <1>3, <1>4, <1>5, <1>6 DEF IInv

\* The connection of a hook comes to its end.
LEMMA HookEndsStep ==
    ASSUME IInv, NEW h \in Hooks, Answered(h) \/ AnswerLost(h) \/ HandleHold(h) \/ Leave(h)
    PROVE  IInv'
  <1>1. CASE Answered(h)
    BY <1>1, WrittenStep DEF Answered, Persist
  <1>2. CASE AnswerLost(h)
    <2>1. owed[h] \in SUBSET Channels
      BY DEF IInv, InterjectType
    <2>2. QED
      BY <1>2, <2>1, TakenBackStep DEF AnswerLost, history
  <1>3. CASE HandleHold(h) /\ fate' = Fated(Readers(h), "read") /\ UNCHANGED <<queue, receipts, stored>>
             /\ carried' = [carried EXCEPT ![h] = IF gone[h] THEN @ ELSE <<>>]
    BY <1>3, WrittenStep DEF HandleHold
  <1>4. CASE HandleHold(h) /\ Requeue(AgentOf[h], carried[h], {}) /\ UNCHANGED fate
             /\ carried' = [carried EXCEPT ![h] = <<>>]
    <2>1. {} \in SUBSET Channels
      OBVIOUS
    <2>2. QED
      BY <1>4, <2>1, TakenBackStep DEF HandleHold
  <1>5. CASE Leave(h)
    <2>1. /\ hook' = [hook EXCEPT ![h] = "left"] /\ gone[h]
          /\ UNCHANGED <<queue, receipts, windows, waiters, stored, gone, carried, owed, origin, fate>>
      BY <1>5 DEF Leave, entry, history
    <2>2. InterjectType'
      BY <2>1 DEF IInv, InterjectType, States
    <2>3. (HeldByAWindow /\ HandsAreEmpty /\ NewIsNowhere)'
      BY <2>1 DEF IInv, InterjectType, HeldByAWindow, HandsAreEmpty, NewIsNowhere
    <2>4. SentIsKept'
      BY <2>1 DEF IInv, InterjectType, SentIsKept, Keeps
    <2>5. QED
      BY <2>2, <2>3, <2>4 DEF IInv
  <1>6. QED
    BY <1>1, <1>2, <1>3, <1>4, <1>5 DEF HandleHold

\* Sessions that ended lose their queue, and their held hooks go on.
LEMMA RemoveStep ==
    ASSUME IInv, NEW gs \in SUBSET Agents, RemoveSessions(gs) PROVE IInv'
  <1>1. /\ queue' \in [Agents -> Seq(Messages)]
        /\ \A a \in Agents : queue'[a] = IF a \in gs THEN <<>> ELSE queue[a]
        /\ receipts' \in [Agents -> SUBSET Channels]
    BY DEF RemoveSessions, IInv, InterjectType
  <1>2. /\ waiters' \in [Agents -> SUBSET Hooks]
        /\ \A a \in Agents : waiters'[a] = IF a \in gs THEN {} ELSE waiters[a]
        /\ hook' \in [Hooks -> States]
        /\ \A h \in Hooks : hook'[h] = IF \E a \in gs : h \in Open(a) THEN "told" ELSE hook[h]
    BY DEF RemoveSessions, IInv, InterjectType, States
  <1>3. PICK dropped : /\ \A m : m \in dropped <=> \E a \in gs : m \in Elements(queue[a])
                       /\ fate' = Fated(dropped, "withdrawn")
                       /\ stored' = stored \/ stored' = [queue |-> queue', receipts |-> receipts']
    BY DEF RemoveSessions, Persist
  <1>4. /\ fate' \in [Messages -> Fates]
        /\ \A m \in Messages : fate'[m] = IF m \in dropped THEN "withdrawn" ELSE fate[m]
    BY <1>3 DEF Fated, Fates, IInv, InterjectType
  <1>5. UNCHANGED <<windows, gone, carried, owed, origin>>
    BY DEF RemoveSessions
  <1>6. InterjectType'
    BY <1>1, <1>2, <1>3, <1>4, <1>5 DEF IInv, InterjectType
  <1>7. HeldByAWindow'
    BY <1>2, <1>5, InterjectAssumption DEF IInv, HeldByAWindow, Open
  <1>8. HandsAreEmpty'
    BY <1>2, <1>5 DEF IInv, HandsAreEmpty
  <1>9. NewIsNowhere'
    <2>1. stored'.queue = stored.queue \/ stored'.queue = queue'
      BY <1>3
    <2>2. \A a \in Agents : Elements(queue'[a]) \subseteq Elements(queue[a])
      BY <1>1, ElementsOf
    <2>3. \A m \in Messages : fate'[m] = "new" => fate[m] = "new"
      BY <1>4
    <2>4. QED
      BY <1>5, <2>1, <2>2, <2>3 DEF IInv, NewIsNowhere
  <1>10. SentIsKept'
    <2>1. \A h \in Hooks, m \in Messages : Keeps(h, m) => Keeps(h, m)'
      BY <1>2, <1>5 DEF Keeps, Open
    <2>2. \A m \in Messages : fate'[m] = "sent" => fate[m] = "sent" /\ m \notin dropped
      BY <1>4
    <2>3. QED
      BY <1>1, <1>3, <2>1, <2>2 DEF IInv, SentIsKept
  <1>11. QED
    BY <1>6, <1>7, <1>8, <1>9, <1>10 DEF IInv

\* Another daemon loads what was stored.
LEMMA CrashStep ==
    ASSUME IInv, Crash PROVE IInv'
  <1>1. /\ queue' = stored.queue /\ receipts' = stored.receipts /\ stored' = stored
        /\ windows' = [a \in Agents |-> 0]
        /\ waiters' = [a \in Agents |-> {}]
        /\ hook' = [h \in Hooks |-> IF hook[h] = "idle" THEN "idle" ELSE "done"]
        /\ UNCHANGED <<gone, carried, owed, origin>>
    BY DEF Crash
  <1>2. fate' = Fated({m \in Messages : fate[m] = "sent"
                        /\ \A a \in Agents : m \notin Elements(stored.queue[a])}, "cut")
    BY DEF Crash
  <1>3. fate' \in [Messages -> Fates]
    BY <1>2 DEF Fated, Fates, IInv, InterjectType
  <1>4. InterjectType'
    BY <1>1, <1>3 DEF IInv, InterjectType, States
  <1>5. (HeldByAWindow /\ HandsAreEmpty)'
    BY <1>1 DEF IInv, InterjectType, HeldByAWindow, HandsAreEmpty
  <1>6. NewIsNowhere'
    BY <1>1, <1>2 DEF IInv, NewIsNowhere, Fated
  <1>7. SentIsKept'
    BY <1>1, <1>2 DEF SentIsKept, Fated
  <1>8. QED
    BY <1>4, <1>5, <1>6, <1>7 DEF IInv
-----------------------------------------------------------------------------
\* Every step.
LEMMA StepIInv == IInv /\ [InterjectNext]_interjectVars => IInv'
  <1> SUFFICES ASSUME IInv, [InterjectNext]_interjectVars PROVE IInv'
    OBVIOUS
  <1>1. CASE \E a \in Agents, m \in Messages :
                Submit(a, m) \/ \E c \in Channels \cup {None} : AppendFrom(a, m, c)
    BY <1>1, SubmitStep, AppendStep
  <1>2. CASE \E a \in Agents : Clear(a) \/ OpenWindow(a) \/ CloseWindow(a)
    BY <1>2, ClearStep, WindowStep
  <1>3. CASE \E a \in Agents : Forget(a)
    BY <1>3, RemoveStep DEF Forget
  <1>4. CASE \E h \in Hooks : Report(h) \/ GiveUp(h) \/ PollMessage(h) \/ PollHold(h) \/ PollNone(h)
    BY <1>4, ReportStep, PollMessageStep, PollOtherStep
  <1>5. CASE \E h \in Hooks : Answered(h) \/ AnswerLost(h) \/ HandleHold(h) \/ Leave(h)
    BY <1>5, HookEndsStep
  <1>6. CASE Retain
    BY <1>6, RemoveStep DEF Retain
  <1>7. CASE Crash
    BY <1>7, CrashStep
  <1>8. CASE UNCHANGED <<entry, stored, connection, history>>
    <2>1. UNCHANGED <<queue, receipts, windows, waiters, stored, hook, gone, carried, owed, origin, fate>>
      BY <1>8 DEF entry, connection, history
    <2>2. InterjectType'
      BY <2>1 DEF IInv, InterjectType
    <2>3. QED
      BY <2>1, <2>2 DEF IInv, HeldByAWindow, HandsAreEmpty, NewIsNowhere, SentIsKept, Keeps
  <1>9. CASE \E a \in Agents : Begin(a) \/ EndSession(a)
    BY <1>8, <1>9 DEF Begin, EndSession
  <1>10. CASE Tick
    BY <1>8, <1>10 DEF Tick
  <1>11. QED
    BY <1>1, <1>2, <1>3, <1>4, <1>5, <1>6, <1>7, <1>8, <1>9, <1>10 DEF InterjectNext, interjectVars

\* The inductive invariant.
THEOREM InterjectInvariance == InterjectSpec => []IInv
  BY InitIInv, StepIInv, PTL DEF InterjectSpec

\* poll, composer_closed and remove_session: a held hook is in the list of the session
\* and a window of it is open, so that a close lets it go.
THEOREM HooksAreHeld == InterjectSpec => []HeldByAWindow
  BY InterjectInvariance, PTL DEF IInv

\* try_deliver, poll and requeue_front: a message nobody withdrew is queued or on a
\* connection that will write it, take it back or was hung up on.
THEOREM NothingIsLost == InterjectSpec => []MessageIsAccountedFor
  <1>1. IInv => MessageIsAccountedFor
    <2>1. ASSUME NEW h \in Hooks, NEW m \in Messages, Keeps(h, m)
          PROVE  m \in Underway(h) \/ (gone[h] /\ m \in Elements(carried[h]))
      BY <2>1 DEF Keeps, Underway
    <2>2. \A m \in Messages : (\E a \in Agents : m \in Elements(queue[a])) => m \in Queued
      BY DEF Queued
    <2>3. QED
      BY <2>1, <2>2 DEF IInv, SentIsKept, MessageIsAccountedFor
  <1>2. QED
    BY <1>1, InterjectInvariance, PTL
-----------------------------------------------------------------------------
(***************************************************************************)
(* Receipts and deliveries                                                 *)
(***************************************************************************)

\* What is stored, and what a connection took, owes receipts as the queue does.
StoredIsOwed ==
    \A a \in Agents : \A c \in stored.receipts[a] :
        \E m \in Elements(stored.queue[a]) : origin[m] = c
TakenIsOwed ==
    \A h \in Hooks : hook[h] = "answering" =>
        \A c \in owed[h] : \E m \in Elements(carried[h]) : origin[m] = c
OwedInv == ReceiptsAreOwed /\ StoredIsOwed /\ TakenIsOwed

\* What is stored is what was stored, or the queues and receipts as they are now.
Saved == stored' = stored \/ stored' = [queue |-> queue', receipts |-> receipts']

\* When the receipts of a step are in order, so is what it stores.
LEMMA StoredFollows ==
    ASSUME IInv, StoredIsOwed, ReceiptsAreOwed', Saved, UNCHANGED origin
    PROVE  StoredIsOwed'
  <1>1. CASE stored' = stored
    BY <1>1 DEF StoredIsOwed
  <1>2. CASE stored' = [queue |-> queue', receipts |-> receipts']
    BY <1>2 DEF StoredIsOwed, ReceiptsAreOwed
  <1>3. QED
    BY <1>1, <1>2 DEF Saved

\* A submission owes nothing.
LEMMA SubmitOwes ==
    ASSUME IInv, OwedInv, NEW a \in Agents, NEW m \in Messages, Submit(a, m) PROVE OwedInv'
  <1>1. TryDeliver(a, <<m>>, {}) /\ <<m>> \in Seq(Messages) /\ {} \in SUBSET Channels
    BY DEF Submit
  <1>2. /\ \A h \in Hooks : hook'[h] # hook[h] => hook[h] = "held" /\ hook'[h] = "told"
        /\ \/ /\ queue' = [queue EXCEPT ![a] = <<>>]
              /\ receipts' = [receipts EXCEPT ![a] = {}]
              /\ \E h \in Hooks : /\ hook[h] = "held" /\ hook'[h] = "told"
                                  /\ carried' = [carried EXCEPT ![h] = <<m>>]
           \/ /\ queue' = [queue EXCEPT ![a] = <<m>>]
              /\ receipts' = [receipts EXCEPT ![a] = {}]
              /\ UNCHANGED <<hook, carried>>
    BY <1>1, TryDeliverGives
  <1>3. Saved /\ UNCHANGED <<owed, origin>>
    BY DEF Submit, Persist, TryDeliver, Saved
  <1>4. ReceiptsAreOwed'
    BY <1>2, <1>3 DEF IInv, InterjectType, OwedInv, ReceiptsAreOwed
  <1>5. TakenIsOwed'
    <2>1. ASSUME NEW h \in Hooks, hook'[h] = "answering"
          PROVE  hook[h] = "answering" /\ carried'[h] = carried[h]
      BY <1>2, <2>1 DEF IInv, InterjectType
    <2>2. QED
      BY <1>3, <2>1 DEF OwedInv, TakenIsOwed
  <1>6. QED
    BY <1>3, <1>4, <1>5, StoredFollows DEF OwedInv

\* A channel is owed a receipt for the message that it sent.
LEMMA AppendOwes ==
    ASSUME IInv, OwedInv, NEW a \in Agents, NEW m \in Messages, NEW c \in Channels \cup {None},
           AppendFrom(a, m, c)
    PROVE  OwedInv'
  <1>1. PICK r \in Seq(Messages), cs \in SUBSET Channels :
            /\ r = Append(queue[a], m) /\ cs = receipts[a] \cup ({c} \ {None})
            /\ TryDeliver(a, r, cs) /\ Elements(r) = Elements(queue[a]) \cup {m}
    <2>1. queue[a] \in Seq(Messages) /\ receipts[a] \in SUBSET Channels
      BY DEF IInv, InterjectType
    <2>2. /\ Append(queue[a], m) \in Seq(Messages)
          /\ receipts[a] \cup ({c} \ {None}) \in SUBSET Channels
      BY <2>1
    <2>3. Elements(Append(queue[a], m)) = Elements(queue[a]) \cup {m}
      BY <2>1, ElementsOf
    <2>4. QED
      BY <2>2, <2>3 DEF AppendFrom
  <1>2. /\ \A h \in Hooks : hook'[h] # hook[h] => hook[h] = "held" /\ hook'[h] = "told"
        /\ \/ /\ queue' = [queue EXCEPT ![a] = <<>>]
              /\ receipts' = [receipts EXCEPT ![a] = {}]
              /\ \E h \in Hooks : /\ hook[h] = "held" /\ hook'[h] = "told"
                                  /\ carried' = [carried EXCEPT ![h] = r]
           \/ /\ queue' = [queue EXCEPT ![a] = r]
              /\ receipts' = [receipts EXCEPT ![a] = cs]
              /\ UNCHANGED <<hook, carried>>
    <2>1. TryDeliver(a, r, cs)
      BY <1>1
    <2>2. QED
      BY <2>1, TryDeliverGives
  <1>3. /\ fate[m] = "new" /\ origin' = [origin EXCEPT ![m] = c] /\ UNCHANGED owed
        /\ stored' = [queue |-> queue', receipts |-> receipts']
    BY DEF AppendFrom, Persist, TryDeliver
  <1>4. /\ \A x \in Messages : x # m => origin'[x] = origin[x]
        /\ origin'[m] = c
    BY <1>3 DEF IInv, InterjectType
  <1>5. /\ \A b \in Agents : m \notin Elements(queue[b]) /\ Elements(queue[b]) \subseteq Messages
        /\ \A h \in Hooks : m \notin Elements(carried[h]) /\ Elements(carried[h]) \subseteq Messages
    BY <1>3, ElementsOf DEF IInv, InterjectType, NewIsNowhere
  <1>6. ReceiptsAreOwed'
    <2>1. ASSUME NEW b \in Agents, NEW d \in receipts'[b]
          PROVE  \E x \in Elements(queue'[b]) : origin'[x] = d
      <3>1. CASE b # a
        <4>1. queue'[b] = queue[b] /\ receipts'[b] = receipts[b]
          BY <1>2, <3>1 DEF IInv, InterjectType
        <4>2. QED
          BY <1>4, <1>5, <2>1, <4>1 DEF OwedInv, ReceiptsAreOwed
      <3>2. CASE b = a
        <4>1. queue'[a] = r /\ d \in cs
          BY <1>2, <2>1, <3>2 DEF IInv, InterjectType
        <4>2. d = c \/ d \in receipts[a]
          BY <1>1, <4>1
        <4>3. QED
          BY <1>1, <1>4, <1>5, <3>2, <4>1, <4>2 DEF OwedInv, ReceiptsAreOwed
      <3>3. QED
        BY <3>1, <3>2
    <2>2. QED
      BY <2>1 DEF ReceiptsAreOwed
  <1>7. StoredIsOwed'
    BY <1>3, <1>6 DEF StoredIsOwed, ReceiptsAreOwed
  <1>8. TakenIsOwed'
    <2>1. ASSUME NEW h \in Hooks, hook'[h] = "answering"
          PROVE  hook[h] = "answering" /\ carried'[h] = carried[h]
      BY <1>2, <2>1 DEF IInv, InterjectType
    <2>2. QED
      BY <1>3, <1>4, <1>5, <2>1 DEF OwedInv, TakenIsOwed
  <1>9. QED
    BY <1>6, <1>7, <1>8 DEF OwedInv

\* A hook that is handed the queue takes the receipts with it.
LEMMA PollOwes ==
    ASSUME IInv, OwedInv, NEW h \in Hooks, PollMessage(h) PROVE OwedInv'
  <1>1. PICK a \in Agents : a = AgentOf[h]
    BY InterjectAssumption
  <1>2. ReceiptsAreOwed'
    BY <1>1 DEF PollMessage, history, IInv, InterjectType, OwedInv, ReceiptsAreOwed
  <1>3. StoredIsOwed'
    BY DEF PollMessage, history, OwedInv, StoredIsOwed
  <1>4. TakenIsOwed'
    BY <1>1 DEF PollMessage, history, IInv, InterjectType, OwedInv, ReceiptsAreOwed, TakenIsOwed
  <1>5. QED
    BY <1>2, <1>3, <1>4 DEF OwedInv

\* And gives them back with what it carried.
LEMMA TakenBackOwes ==
    ASSUME IInv, OwedInv, NEW h \in Hooks, NEW channels \in SUBSET Channels,
           \A c \in channels : \E m \in Elements(carried[h]) : origin[m] = c,
           hook' = [hook EXCEPT ![h] = "done"],
           carried' = [carried EXCEPT ![h] = <<>>],
           Requeue(AgentOf[h], carried[h], channels),
           UNCHANGED <<owed, origin>>
    PROVE  OwedInv'
  <1>1. PICK a \in Agents, q \in Seq(Messages) : a = AgentOf[h] /\ q = carried[h]
    BY InterjectAssumption DEF IInv, InterjectType
  <1>2. /\ Elements(queue'[a]) = Elements(q) \cup Elements(queue[a])
        /\ \A b \in Agents \ {a} : queue'[b] = queue[b]
    BY <1>1, RequeueGives
  <1>3. /\ receipts'[a] \subseteq receipts[a] \cup channels
        /\ \A b \in Agents \ {a} : receipts'[b] = receipts[b]
    BY <1>1 DEF Requeue, IInv, InterjectType
  <1>4. ReceiptsAreOwed'
    BY <1>1, <1>2, <1>3 DEF OwedInv, ReceiptsAreOwed
  <1>5. Saved
    BY DEF Requeue, Persist, Saved
  <1>6. TakenIsOwed'
    BY DEF IInv, InterjectType, OwedInv, TakenIsOwed
  <1>7. QED
    BY <1>4, <1>5, <1>6, StoredFollows DEF OwedInv

\* The other ends of a connection owe nothing new.
LEMMA HookEndsOwes ==
    ASSUME IInv, OwedInv, NEW h \in Hooks,
           Answered(h) \/ AnswerLost(h) \/ HandleHold(h) \/ Leave(h)
    PROVE  OwedInv'
  <1>1. CASE AnswerLost(h)
    <2>1. owed[h] \in SUBSET Channels
      BY DEF IInv, InterjectType
    <2>2. \A c \in owed[h] : \E m \in Elements(carried[h]) : origin[m] = c
      BY <1>1 DEF AnswerLost, OwedInv, TakenIsOwed
    <2>3. QED
      BY <1>1, <2>1, <2>2, TakenBackOwes DEF AnswerLost, history
  <1>2. CASE HandleHold(h) /\ Requeue(AgentOf[h], carried[h], {})
             /\ carried' = [carried EXCEPT ![h] = <<>>]
    <2>1. {} \in SUBSET Channels
      OBVIOUS
    <2>2. QED
      BY <1>2, <2>1, TakenBackOwes DEF HandleHold
  <1>3. CASE (Answered(h) \/ HandleHold(h) \/ Leave(h)) /\ UNCHANGED <<queue, receipts>> /\ Saved
    <2>1. /\ \A g \in Hooks : hook'[g] = "answering" =>
                hook[g] = "answering" /\ carried'[g] = carried[g]
          /\ UNCHANGED <<owed, origin>>
      BY <1>3 DEF Answered, HandleHold, Leave, history, IInv, InterjectType
    <2>2. ReceiptsAreOwed' /\ TakenIsOwed'
      BY <1>3, <2>1 DEF OwedInv, ReceiptsAreOwed, TakenIsOwed
    <2>3. QED
      BY <1>3, <2>1, <2>2, StoredFollows DEF OwedInv
  <1>4. QED
    BY <1>1, <1>2, <1>3 DEF Answered, HandleHold, Leave, Persist, Saved, entry

\* A queue that is dropped takes its receipts with it.
LEMMA RemoveOwes ==
    ASSUME IInv, OwedInv, NEW gs \in SUBSET Agents, RemoveSessions(gs) PROVE OwedInv'
  <1>1. ReceiptsAreOwed'
    BY DEF RemoveSessions, OwedInv, ReceiptsAreOwed
  <1>2. Saved
    BY DEF RemoveSessions, Persist, Saved
  <1>3. TakenIsOwed'
    BY DEF RemoveSessions, OwedInv, TakenIsOwed
  <1>4. QED
    BY <1>1, <1>2, <1>3, StoredFollows DEF OwedInv, RemoveSessions

\* Every step.
LEMMA StepOwed == IInv /\ OwedInv /\ [InterjectNext]_interjectVars => OwedInv'
  <1> SUFFICES ASSUME IInv, OwedInv, [InterjectNext]_interjectVars PROVE OwedInv'
    OBVIOUS
  <1>1. CASE \E a \in Agents, m \in Messages :
                Submit(a, m) \/ \E c \in Channels \cup {None} : AppendFrom(a, m, c)
    BY <1>1, SubmitOwes, AppendOwes
  <1>2. CASE \E a \in Agents : Clear(a)
    <2>1. PICK a \in Agents : Clear(a)
      BY <1>2
    <2>2. ReceiptsAreOwed' /\ TakenIsOwed' /\ Saved
      BY <2>1 DEF Clear, connection, Persist, Saved, IInv, InterjectType, OwedInv, ReceiptsAreOwed,
                  TakenIsOwed
    <2>3. QED
      BY <2>1, <2>2, StoredFollows DEF Clear, OwedInv
  <1>3. CASE \E h \in Hooks : PollMessage(h)
    BY <1>3, PollOwes
  <1>4. CASE \E h \in Hooks : Answered(h) \/ AnswerLost(h) \/ HandleHold(h) \/ Leave(h)
    BY <1>4, HookEndsOwes
  <1>5. CASE Retain \/ \E a \in Agents : Forget(a)
    BY <1>5, RemoveOwes DEF Retain, Forget
  <1>6. CASE Crash
    BY <1>6 DEF Crash, IInv, InterjectType, OwedInv, ReceiptsAreOwed, StoredIsOwed, TakenIsOwed
  <1>7. CASE /\ UNCHANGED <<queue, receipts, stored, carried, owed, origin>>
             /\ \A h \in Hooks : hook'[h] = "answering" => hook[h] = "answering"
    BY <1>7 DEF OwedInv, ReceiptsAreOwed, StoredIsOwed, TakenIsOwed
  <1>8. CASE \E a \in Agents : OpenWindow(a) \/ CloseWindow(a)
    <2>1. PICK a \in Agents : OpenWindow(a) \/ CloseWindow(a)
      BY <1>8
    <2>2. carried' = carried /\ \A h \in Hooks : hook'[h] = "answering" => hook[h] = "answering"
      BY <2>1, TellFrees DEF OpenWindow, CloseWindow, connection
    <2>3. QED
      BY <1>7, <2>1, <2>2 DEF OpenWindow, CloseWindow, connection, history
  <1>9. CASE \E h \in Hooks : Report(h) \/ GiveUp(h) \/ PollHold(h) \/ PollNone(h)
    <2>1. PICK h \in Hooks : Report(h) \/ GiveUp(h) \/ PollHold(h) \/ PollNone(h)
      BY <1>9
    <2>2. \A g \in Hooks : hook'[g] = "answering" => hook[g] = "answering"
      BY <2>1 DEF Report, GiveUp, PollHold, PollNone, IInv, InterjectType
    <2>3. QED
      BY <1>7, <2>1, <2>2 DEF Report, GiveUp, PollHold, PollNone, entry, history
  <1>10. CASE UNCHANGED <<entry, stored, connection, history>>
    BY <1>7, <1>10 DEF entry, connection, history
  <1>11. QED
    BY <1>1, <1>2, <1>3, <1>4, <1>5, <1>6, <1>8, <1>9, <1>10
       DEF InterjectNext, interjectVars, Begin, EndSession, Tick

\* interject_append, poll, requeue_front and clear: a channel is told that its message
\* was read only when a message of its own was.
THEOREM ReceiptsOwed == InterjectSpec => []ReceiptsAreOwed
  <1>1. InterjectInit => OwedInv
    BY DEF InterjectInit, OwedInv, ReceiptsAreOwed, StoredIsOwed, TakenIsOwed
  <1>2. OwedInv => ReceiptsAreOwed
    BY DEF OwedInv
  <1>3. QED
    BY <1>1, <1>2, StepOwed, InterjectInvariance, PTL DEF InterjectSpec
-----------------------------------------------------------------------------
(***************************************************************************)
(* While the daemon lives, a message is in one place                       *)
(***************************************************************************)

Queues(a, m) == m \in Elements(queue[a])
Carries(h, m) == hook[h] \in {"answering", "told"} /\ m \in Elements(carried[h])

\* In one queue or on one connection, and neither read nor withdrawn.
InOnePlace ==
    \A m \in Messages :
        /\ \A a, b \in Agents : Queues(a, m) /\ Queues(b, m) => a = b
        /\ \A a \in Agents, h \in Hooks : ~(Queues(a, m) /\ Carries(h, m))
        /\ \A h, g \in Hooks : Carries(h, m) /\ Carries(g, m) => h = g
        /\ (\E a \in Agents : Queues(a, m)) \/ (\E h \in Hooks : Carries(h, m)) => fate[m] = "sent"
OnceInv == crashes \in Nat /\ (crashes = 0 => InOnePlace)

\* Nothing new, and what has another fate is in no place.
LEMMA FewerPlaces ==
    ASSUME InOnePlace,
           \A a \in Agents, m \in Messages : Queues(a, m)' => Queues(a, m) /\ fate'[m] = fate[m],
           \A h \in Hooks, m \in Messages : Carries(h, m)' => Carries(h, m) /\ fate'[m] = fate[m]
    PROVE  InOnePlace'
  BY DEF InOnePlace

\* A message that is sent is put in one place.
LEMMA SentOnce ==
    ASSUME IInv, InOnePlace, NEW a \in Agents, NEW m \in Messages,
           Submit(a, m) \/ \E c \in Channels \cup {None} : AppendFrom(a, m, c)
    PROVE  InOnePlace'
  <1>1. PICK r \in Seq(Messages), cs \in SUBSET Channels :
            TryDeliver(a, r, cs) /\ Elements(r) \subseteq {m} \cup Elements(queue[a])
            /\ \A x \in Elements(r) : x = m \/ fate'[x] = fate[x]
    <2>1. CASE Submit(a, m)
      <3>1. <<m>> \in Seq(Messages) /\ {} \in SUBSET Channels /\ Elements(<<m>>) = {m}
        BY ElementsOf
      <3>2. QED
        BY <2>1, <3>1 DEF Submit
    <2>2. ASSUME NEW c \in Channels \cup {None}, AppendFrom(a, m, c)
          PROVE  \E r \in Seq(Messages), cs \in SUBSET Channels :
                    TryDeliver(a, r, cs) /\ Elements(r) \subseteq {m} \cup Elements(queue[a])
                    /\ \A x \in Elements(r) : x = m \/ fate'[x] = fate[x]
      <3>1. queue[a] \in Seq(Messages) /\ receipts[a] \in SUBSET Channels
        BY DEF IInv, InterjectType
      <3>2. /\ Append(queue[a], m) \in Seq(Messages)
            /\ receipts[a] \cup ({c} \ {None}) \in SUBSET Channels
        BY <3>1
      <3>3. Elements(Append(queue[a], m)) = Elements(queue[a]) \cup {m}
        BY <3>1, ElementsOf
      <3>4. Elements(queue[a]) \subseteq Messages /\ fate' = [fate EXCEPT ![m] = "sent"]
        BY <2>2, <3>1, ElementsOf DEF AppendFrom
      <3>5. \A x \in Elements(queue[a]) : x = m \/ fate'[x] = fate[x]
        BY <3>4 DEF IInv, InterjectType
      <3>6. QED
        BY <2>2, <3>2, <3>3, <3>5 DEF AppendFrom
    <2>3. QED
      BY <2>1, <2>2
  <1>2. /\ \A h \in Hooks : hook'[h] # hook[h] => hook[h] = "held" /\ hook'[h] = "told"
        /\ \/ /\ queue' = [queue EXCEPT ![a] = <<>>]
              /\ \E h \in Hooks : /\ hook[h] = "held" /\ hook'[h] = "told"
                                  /\ carried' = [carried EXCEPT ![h] = r]
           \/ /\ queue' = [queue EXCEPT ![a] = r]
              /\ UNCHANGED <<hook, carried>>
    <2>1. TryDeliver(a, r, cs)
      BY <1>1
    <2>2. QED
      BY <2>1, TryDeliverGives
  <1>3. /\ fate[m] = "new" /\ fate'[m] = "sent"
        /\ \A x \in Messages : x # m /\ x \notin Elements(queue[a]) => fate'[x] = fate[x]
    BY DEF Submit, AppendFrom, Fated, IInv, InterjectType
  <1>4. /\ \A b \in Agents : ~Queues(b, m)
        /\ \A h \in Hooks : ~Carries(h, m)
    BY <1>3 DEF IInv, NewIsNowhere, Queues, Carries
  <1>5. \A h \in Hooks : \A x :
          hook'[h] = "told" /\ hook[h] = "held" /\ carried'[h] = carried[h] => ~Carries(h, x)'
    BY ElementsOf DEF IInv, HandsAreEmpty, Carries
  <1>6. CASE \E h \in Hooks : /\ queue' = [queue EXCEPT ![a] = <<>>]
                              /\ hook[h] = "held" /\ hook'[h] = "told"
                              /\ carried' = [carried EXCEPT ![h] = r]
    <2>1. PICK g \in Hooks : /\ queue' = [queue EXCEPT ![a] = <<>>]
                             /\ hook[g] = "held" /\ hook'[g] = "told"
                             /\ carried' = [carried EXCEPT ![g] = r]
      BY <1>6
    <2>2. \A b \in Agents, x \in Messages : Queues(b, x)' => b # a /\ Queues(b, x)
      BY <2>1, ElementsOf DEF Queues, IInv, InterjectType
    <2>3. \A x \in Messages : Carries(g, x)' => x = m \/ (Queues(a, x) /\ fate'[x] = fate[x])
      BY <1>1, <2>1 DEF Queues, Carries, IInv, InterjectType
    <2>4. \A h \in Hooks \ {g}, x \in Messages : Carries(h, x)' => Carries(h, x)
      BY <1>2, <1>5, <2>1 DEF Carries, IInv, InterjectType
    <2>5. \A x \in Messages : x # m /\ ~Queues(a, x) => fate'[x] = fate[x]
      BY <1>3 DEF Queues
    <2>6. QED
      BY <1>3, <1>4, <2>2, <2>3, <2>4, <2>5 DEF InOnePlace
  <1>7. CASE queue' = [queue EXCEPT ![a] = r] /\ UNCHANGED <<hook, carried>>
    <2>1. \A b \in Agents \ {a}, x \in Messages : Queues(b, x)' => Queues(b, x)
      BY <1>7 DEF Queues, IInv, InterjectType
    <2>2. \A x \in Messages : Queues(a, x)' => x = m \/ (Queues(a, x) /\ fate'[x] = fate[x])
      BY <1>1, <1>7 DEF Queues, IInv, InterjectType
    <2>3. \A h \in Hooks, x \in Messages : Carries(h, x)' => Carries(h, x)
      BY <1>7 DEF Carries
    <2>4. \A x \in Messages : x # m /\ ~Queues(a, x) => fate'[x] = fate[x]
      BY <1>3 DEF Queues
    <2>5. QED
      BY <1>3, <1>4, <2>1, <2>2, <2>3, <2>4 DEF InOnePlace
  <1>8. QED
    BY <1>2, <1>6, <1>7

\* The queue moves to a connection as a whole.
LEMMA PolledOnce ==
    ASSUME IInv, InOnePlace, NEW h \in Hooks, PollMessage(h) PROVE InOnePlace'
  <1>1. PICK a \in Agents : a = AgentOf[h]
    BY InterjectAssumption
  <1>2. \A b \in Agents, m \in Messages : Queues(b, m)' => b # a /\ Queues(b, m)
    BY <1>1, ElementsOf DEF PollMessage, Queues, IInv, InterjectType
  <1>3. \A m \in Messages : Carries(h, m)' => Queues(a, m)
    BY <1>1 DEF PollMessage, Queues, Carries, IInv, InterjectType
  <1>4. \A g \in Hooks \ {h}, m \in Messages : Carries(g, m)' => Carries(g, m)
    BY DEF PollMessage, Carries, IInv, InterjectType
  <1>5. UNCHANGED fate
    BY DEF PollMessage, history
  <1>6. QED
    BY <1>2, <1>3, <1>4, <1>5 DEF InOnePlace

\* A delivery that failed moves back.
LEMMA TakenBackOnce ==
    ASSUME IInv, InOnePlace, NEW h \in Hooks, NEW channels \in SUBSET Channels,
           hook[h] \in {"answering", "told"},
           hook' = [hook EXCEPT ![h] = "done"],
           carried' = [carried EXCEPT ![h] = <<>>],
           Requeue(AgentOf[h], carried[h], channels),
           UNCHANGED fate
    PROVE  InOnePlace'
  <1>1. PICK a \in Agents, q \in Seq(Messages) : a = AgentOf[h] /\ q = carried[h]
    BY InterjectAssumption DEF IInv, InterjectType
  <1>2. /\ Elements(queue'[a]) = Elements(q) \cup Elements(queue[a])
        /\ \A b \in Agents \ {a} : queue'[b] = queue[b]
    BY <1>1, RequeueGives
  <1>3. \A m \in Messages : Queues(a, m)' => Queues(a, m) \/ Carries(h, m)
    BY <1>1, <1>2 DEF Queues, Carries
  <1>4. \A b \in Agents \ {a}, m \in Messages : Queues(b, m)' => Queues(b, m)
    BY <1>2 DEF Queues
  <1>5. \A g \in Hooks, m \in Messages : Carries(g, m)' => g # h /\ Carries(g, m)
    BY DEF Carries, IInv, InterjectType
  <1>6. QED
    BY <1>3, <1>4, <1>5 DEF InOnePlace

\* A delivery that was written is in no place.
LEMMA WrittenOnce ==
    ASSUME IInv, InOnePlace, NEW h \in Hooks, hook[h] \in {"answering", "told"},
           hook' = [hook EXCEPT ![h] = "done"],
           carried' = [carried EXCEPT ![h] = IF gone[h] THEN @ ELSE <<>>],
           fate' = Fated(Readers(h), "read"),
           UNCHANGED queue
    PROVE  InOnePlace'
  <1>1. \A m \in Messages : m \in Readers(h) => Carries(h, m)
    BY DEF Readers, Carries
  <1>2. \A m \in Messages : ~Carries(h, m) => fate'[m] = fate[m]
    BY <1>1 DEF Fated
  <1>3. \A g \in Hooks, m \in Messages : Carries(g, m)' => g # h /\ Carries(g, m)
    BY DEF Carries, IInv, InterjectType
  <1>4. \A a \in Agents, m \in Messages : Queues(a, m)' => Queues(a, m)
    BY DEF Queues
  <1>5. QED
    BY <1>2, <1>3, <1>4 DEF InOnePlace

\* The ends of a connection.
LEMMA HookEndsOnce ==
    ASSUME IInv, InOnePlace, NEW h \in Hooks,
           Answered(h) \/ AnswerLost(h) \/ HandleHold(h) \/ Leave(h)
    PROVE  InOnePlace'
  <1>1. CASE Answered(h)
    BY <1>1, WrittenOnce DEF Answered
  <1>2. CASE AnswerLost(h)
    <2>1. owed[h] \in SUBSET Channels
      BY DEF IInv, InterjectType
    <2>2. QED
      BY <1>2, <2>1, TakenBackOnce DEF AnswerLost, history
  <1>3. CASE HandleHold(h) /\ fate' = Fated(Readers(h), "read") /\ UNCHANGED queue
             /\ carried' = [carried EXCEPT ![h] = IF gone[h] THEN @ ELSE <<>>]
    BY <1>3, WrittenOnce DEF HandleHold
  <1>4. CASE HandleHold(h) /\ Requeue(AgentOf[h], carried[h], {}) /\ UNCHANGED fate
             /\ carried' = [carried EXCEPT ![h] = <<>>]
    <2>1. {} \in SUBSET Channels
      OBVIOUS
    <2>2. QED
      BY <1>4, <2>1, TakenBackOnce DEF HandleHold
  <1>5. CASE Leave(h)
    <2>1. /\ hook' = [hook EXCEPT ![h] = "left"]
          /\ UNCHANGED <<queue, carried, fate>>
      BY <1>5 DEF Leave, entry, history
    <2>2. /\ \A g \in Hooks, m \in Messages : Carries(g, m)' => Carries(g, m)
          /\ \A a \in Agents, m \in Messages : Queues(a, m)' => Queues(a, m)
      BY <2>1 DEF Carries, Queues, IInv, InterjectType
    <2>3. QED
      BY <2>1, <2>2, FewerPlaces
  <1>6. QED
    BY <1>1, <1>2, <1>3, <1>4, <1>5 DEF HandleHold

\* What is dropped was in one place.
LEMMA DroppedOnce ==
    ASSUME IInv, InOnePlace, NEW gs \in SUBSET Agents,
           \A a \in Agents : queue'[a] = IF a \in gs THEN <<>> ELSE queue[a],
           fate' = Fated(UNION {Elements(queue[a]) : a \in gs}, "withdrawn"),
           carried' = carried,
           \A h \in Hooks : hook'[h] # hook[h] => hook[h] = "held" /\ hook'[h] = "told"
    PROVE  InOnePlace'
  <1>1. \A a \in Agents, m \in Messages : Queues(a, m)' => a \notin gs /\ Queues(a, m)
    BY ElementsOf DEF Queues
  <1>2. \A m \in Messages : (\A a \in gs : ~Queues(a, m)) => fate'[m] = fate[m]
    BY DEF Queues, Fated
  <1>3. \A h \in Hooks, m \in Messages : Carries(h, m)' => Carries(h, m)
    BY ElementsOf DEF Carries, IInv, HandsAreEmpty
  <1>4. \A a \in Agents, m \in Messages : Queues(a, m)' => fate'[m] = fate[m]
    BY <1>1, <1>2 DEF InOnePlace
  <1>5. \A h \in Hooks, m \in Messages : Carries(h, m)' => fate'[m] = fate[m]
    BY <1>2, <1>3 DEF InOnePlace
  <1>6. QED
    BY <1>1, <1>3, <1>4, <1>5, FewerPlaces

\* Every step but a crash.
LEMMA StepOnce ==
    ASSUME IInv, InOnePlace, [InterjectNext]_interjectVars, ~Crash PROVE InOnePlace'
  <1>1. CASE \E a \in Agents, m \in Messages :
                Submit(a, m) \/ \E c \in Channels \cup {None} : AppendFrom(a, m, c)
    BY <1>1, SentOnce
  <1>2. CASE \E a \in Agents : Clear(a)
    <2>1. PICK a \in Agents : Clear(a)
      BY <1>2
    <2>2. /\ \A b \in Agents : queue'[b] = IF b \in {a} THEN <<>> ELSE queue[b]
          /\ fate' = Fated(Elements(queue[a]), "withdrawn")
          /\ UNCHANGED <<carried, hook>>
      BY <2>1 DEF Clear, connection, IInv, InterjectType
    <2>3. Elements(queue[a]) = UNION {Elements(queue[b]) : b \in {a}} /\ {a} \in SUBSET Agents
      OBVIOUS
    <2>4. QED
      BY <2>2, <2>3, DroppedOnce
  <1>3. CASE Retain \/ \E a \in Agents : Forget(a)
    <2>1. PICK gs \in SUBSET Agents : RemoveSessions(gs)
      BY <1>3 DEF Retain, Forget
    <2>2. \A a \in Agents : queue'[a] = IF a \in gs THEN <<>> ELSE queue[a]
      BY <2>1 DEF RemoveSessions
    <2>3. \A h \in Hooks : hook'[h] # hook[h] => hook[h] = "held" /\ hook'[h] = "told"
      BY <2>1 DEF RemoveSessions, Open
    <2>4. QED
      BY <2>1, <2>2, <2>3, DroppedOnce DEF RemoveSessions
  <1>4. CASE \E h \in Hooks : PollMessage(h)
    BY <1>4, PolledOnce
  <1>5. CASE \E h \in Hooks : Answered(h) \/ AnswerLost(h) \/ HandleHold(h) \/ Leave(h)
    BY <1>5, HookEndsOnce
  <1>6. CASE /\ UNCHANGED <<queue, carried, fate>>
             /\ \A h \in Hooks : hook'[h] \in {"answering", "told"} =>
                    hook[h] \in {"answering", "told", "held"}
    <2>1. /\ \A h \in Hooks, m \in Messages : Carries(h, m)' => Carries(h, m)
          /\ \A a \in Agents, m \in Messages : Queues(a, m)' => Queues(a, m)
      BY <1>6, ElementsOf DEF Carries, Queues, IInv, HandsAreEmpty
    <2>2. QED
      BY <1>6, <2>1, FewerPlaces
  <1>7. CASE \E a \in Agents : OpenWindow(a) \/ CloseWindow(a)
    <2>1. PICK a \in Agents : OpenWindow(a) \/ CloseWindow(a)
      BY <1>7
    <2>2. carried' = carried /\ \A h \in Hooks : hook'[h] # hook[h] => hook[h] = "held"
      BY <2>1, TellFrees DEF OpenWindow, CloseWindow, connection
    <2>3. QED
      BY <1>6, <2>1, <2>2 DEF OpenWindow, CloseWindow, history
  <1>8. CASE \E h \in Hooks : Report(h) \/ GiveUp(h) \/ PollHold(h) \/ PollNone(h)
    <2>1. PICK h \in Hooks : Report(h) \/ GiveUp(h) \/ PollHold(h) \/ PollNone(h)
      BY <1>8
    <2>2. \A g \in Hooks : hook'[g] \in {"answering", "told"} => hook[g] \in {"answering", "told"}
      BY <2>1 DEF Report, GiveUp, PollHold, PollNone, IInv, InterjectType
    <2>3. QED
      BY <1>6, <2>1, <2>2 DEF Report, GiveUp, PollHold, PollNone, entry, history
  <1>9. CASE UNCHANGED <<entry, connection, history>>
    BY <1>6, <1>9 DEF entry, connection, history
  <1>10. QED
    BY <1>1, <1>2, <1>3, <1>4, <1>5, <1>7, <1>8, <1>9
       DEF InterjectNext, interjectVars, Begin, EndSession, Tick

\* The number of crashes does not fall.
LEMMA StepCrashes ==
    ASSUME crashes \in Nat, [InterjectNext]_interjectVars
    PROVE  crashes' \in Nat /\ (crashes' = 0 => crashes = 0 /\ ~Crash)
  <1>1. CASE Crash
    BY <1>1 DEF Crash
  <1>2. CASE ~Crash
    <2>1. crashes' = crashes
      BY <1>2 DEF InterjectNext, interjectVars, Submit, AppendFrom, Clear, OpenWindow, CloseWindow,
           Report, GiveUp, PollMessage, PollHold, PollNone, Answered, AnswerLost, HandleHold, Leave,
           Begin, EndSession, Forget, Tick, Retain, RemoveSessions
    <2>2. QED
      BY <1>2, <2>1
  <1>3. QED
    BY <1>1, <1>2

\* take, requeue and drop: while the daemon lives, no message is put before an agent
\* twice, and none that was withdrawn comes back.
THEOREM OnceDelivered == InterjectSpec => []DeliveredOnce
  <1>1. InterjectInit => OnceInv
    BY ElementsOf DEF InterjectInit, OnceInv, InOnePlace, Queues, Carries
  <1>2. IInv /\ OnceInv /\ [InterjectNext]_interjectVars => OnceInv'
    BY StepOnce, StepCrashes DEF OnceInv
  <1>3. IInv /\ OnceInv => DeliveredOnce
    <2>1. SUFFICES ASSUME IInv, OnceInv, crashes = 0
                   PROVE  /\ \A m \in Messages : fate[m] \in {"read", "withdrawn"} => m \notin Queued
                          /\ \A h \in Hooks : Underway(h) \cap Queued = {}
                          /\ \A h, g \in Hooks : h # g => Underway(h) \cap Underway(g) = {}
      BY DEF DeliveredOnce
    <2>2. InOnePlace
      BY <2>1 DEF OnceInv
    <2>3. \A h \in Hooks : \A m \in Underway(h) : m \in Messages /\ Carries(h, m)
      BY <2>1, ElementsOf DEF Underway, Carries, IInv, InterjectType
    <2>4. \A m \in Queued : m \in Messages /\ \E a \in Agents : Queues(a, m)
      BY <2>1, ElementsOf DEF Queued, Queues, IInv, InterjectType
    <2>5. QED
      BY <2>2, <2>3, <2>4 DEF InOnePlace
  <1>4. QED
    BY <1>1, <1>2, <1>3, InterjectInvariance, PTL DEF InterjectSpec
=============================================================================
