-------------------------- MODULE AssistantProofs ---------------------------
(***************************************************************************)
(* Proofs about Assistant, for any items, quantities and queries.           *)
(*                                                                          *)
(* A query carries a copy of the conversation from its start to its end and *)
(* writes that copy back over what others have written since.  A refused    *)
(* exchange is not remembered all the same: an exchange leaves its own turn *)
(* only after both rails have passed it, and by then no step of its turn    *)
(* changes their verdicts, so that a copy may be of any age.                *)
(*                                                                          *)
(* What the cart adds up to is a sum over lists and is left to the run.     *)
(***************************************************************************)
EXTENDS Assistant, TLAPS

(* Both rails have passed the exchange, and its turn asks them nothing more.*)
Vetted(t) ==
  /\ turn[t].node \in {"summarize", "end", "failed"}
  /\ turn[t].inputSafe
  /\ turn[t].outputSafe

TurnSound(t) ==
  /\ turn[t].node = "cart" => turn[t].op \in {"add", "remove"}
  /\ turn[t].node = "chatter" => turn[t].inputSafe
  /\ turn[t].node = "summarize" => Vetted(t)
  /\ turn[t].done <= Len(turn[t].calls)
  /\ \A c \in turn[t].context : c = t \/ Vetted(c)

(* The inductive invariant: what a conversation tells of was vetted, and no *)
(* query has been answered a call that is not on its list.                  *)
IInv ==
  /\ TypeOK
  /\ \A t \in Queries : TurnSound(t)
  /\ \A c \in memory : Vetted(c)

-----------------------------------------------------------------------------
(* The memory service keeps whole amounts, of any sign.                     *)
LEMMA ApplyTyped ==
  ASSUME NEW op, NEW amount \in Int, NEW held \in Int \cup {NoRow}
  PROVE  Apply(op, amount, held) \in Int \cup {NoRow}
<1>1. CASE held = NoRow
  BY <1>1 DEF Apply
<1>2. CASE held # NoRow
  BY <1>2 DEF Apply
<1> QED
  BY <1>1, <1>2

(* A list names catalogue items with whole amounts.                         *)
LEMMA ListsAreSequences ==
  /\ Lists \subseteq Seq(Call)
  /\ \A call \in Call : call.item \in Items /\ call.amount \in Int
<1>1. ASSUME NEW call \in Call PROVE call.item \in Items /\ call.amount \in Int
  <2>1. call.item \in Items /\ call.amount \in Quantities \cup {1}
    BY DEF Call
  <2>2. Quantities \cup {1} \subseteq Int
    BY AssistantAssumption
  <2> QED
    BY <2>1, <2>2
<1>2. ASSUME NEW list \in Lists PROVE list \in Seq(Call)
  <2>1. CASE \E call \in Call : list = <<call>>
    BY <2>1
  <2>2. CASE \E n \in 0..MaxCalls : list \in [1..n -> Call]
    BY <2>2, AssistantAssumption
  <2> QED
    BY <2>1, <2>2 DEF Lists
<1> QED
  BY <1>1, <1>2

(* The verdicts on an exchange that has been vetted stand.                  *)
LEMMA TurnsStaySound ==
  ASSUME IInv, NEW t \in Queries,
         \A q \in Queries \ {t} : turn'[q] = turn[q],
         Vetted(t) => Vetted(t)'
  PROVE  /\ \A c \in Queries : Vetted(c) => Vetted(c)'
         /\ \A q \in Queries \ {t} : TurnSound(q)'
<1>1. \A c \in Queries : Vetted(c) => Vetted(c)'
  BY DEF Vetted
<1>2. ASSUME NEW q \in Queries \ {t} PROVE TurnSound(q)'
  <2>1. TurnSound(q) /\ turn'[q] = turn[q] /\ turn[q].context \subseteq Queries
    BY <1>2 DEF IInv, TypeOK, Turn
  <2> QED
    BY <1>1, <2>1 DEF TurnSound
<1> QED
  BY <1>1, <1>2

(* A step of t's turn that does not touch the conversation.                 *)
LEMMA StepKeeps ==
  ASSUME IInv, NEW t \in Queries, TypeOK',
         \A q \in Queries \ {t} : turn'[q] = turn[q],
         Vetted(t) => Vetted(t)',
         turn'[t].node = "cart" => turn'[t].op \in {"add", "remove"},
         turn'[t].done <= Len(turn'[t].calls),
         turn'[t].node = "chatter" => turn'[t].inputSafe,
         turn'[t].node = "summarize" => Vetted(t)',
         \A c \in turn'[t].context :
           \/ c = t \/ c \in turn[t].context \cup memory,
         \A c \in memory' : c \in turn[t].context \cup memory,
         (\E c \in memory' : c \notin memory) => Vetted(t)'
  PROVE  IInv'
<1>1. \A c \in Queries : Vetted(c) => Vetted(c)'
  BY TurnsStaySound
<1>2. \A c \in turn[t].context \cup memory : c \in Queries /\ (c = t \/ Vetted(c))
  BY DEF IInv, TypeOK, Turn, TurnSound
<1>3. TurnSound(t)'
  BY <1>1, <1>2 DEF TurnSound
<1>4. \A c \in memory' : Vetted(c)'
  BY <1>1, <1>2 DEF IInv
<1> QED
  BY <1>3, <1>4, TurnsStaySound DEF IInv

LEMMA GraphKeeps ==
  ASSUME IInv, NEW t \in Queries,
         \/ GetMemory(t) \/ Plan(t) \/ CartCall(t)
         \/ CheckInput(t) \/ Chat(t) \/ Summarize(t) \/ Fail(t)
  PROVE  IInv'
<1> DEFINE was == turn[t]
<1>1. TypeOK /\ was \in Turn /\ TurnSound(t) /\ t \in Queries
  BY DEF IInv, TypeOK
<1>2. ASSUME GetMemory(t) PROVE IInv'
  <2>1. PICK context \in {memory, {}} :
          turn' = [turn EXCEPT ![t].node = "planner", ![t].context = context]
    BY <1>2 DEF GetMemory
  <2>2. UNCHANGED <<answer, cart, memory, posted, posts>> /\ was.node = "start"
    BY <1>2 DEF GetMemory, pageVars, At
  <2>3. turn'[t].node = "planner" /\ turn'[t].context = context
    BY <1>1, <2>1 DEF TypeOK, Turn
  <2>4. TypeOK'
    BY <1>1, <2>1, <2>2 DEF TypeOK, Turn, Nodes
  <2>5. \A q \in Queries \ {t} : turn'[q] = turn[q]
    BY <1>1, <2>1 DEF TypeOK
  <2>6. ~Vetted(t)
    BY <2>2 DEF Vetted
  <2>9. turn'[t].calls = was.calls /\ turn'[t].done = was.done
    BY <1>1, <2>1 DEF TypeOK, Turn
  <2> QED
    BY <1>1, <2>9, <2>1, <2>2, <2>3, <2>4, <2>5, <2>6, StepKeeps DEF TurnSound
<1>3. ASSUME Plan(t) PROVE IInv'
  <2>1. PICK safe \in BOOLEAN :
          \/ turn' = [turn EXCEPT ![t].node = "check_rail", ![t].inputSafe = safe]
          \/ \E op \in {"add", "remove"}, calls \in Lists :
               turn' = [turn EXCEPT
                 ![t].node = "cart", ![t].inputSafe = safe, ![t].op = op,
                 ![t].calls = calls, ![t].done = 0]
    BY <1>3 DEF Plan
  <2>2. UNCHANGED <<answer, cart, memory, posted, posts>> /\ was.node = "planner"
    BY <1>3 DEF Plan, pageVars, At
  <2>3. CASE turn' = [turn EXCEPT ![t].node = "check_rail", ![t].inputSafe = safe]
    <3>1. turn'[t].node = "check_rail" /\ turn'[t].context = was.context
          /\ turn'[t].calls = was.calls /\ turn'[t].done = was.done
      BY <1>1, <2>3 DEF TypeOK, Turn
    <3>2. TypeOK'
      BY <1>1, <2>2, <2>3 DEF TypeOK, Turn, Nodes
    <3>3. \A q \in Queries \ {t} : turn'[q] = turn[q]
      BY <1>1, <2>3 DEF TypeOK
    <3> QED
      BY <2>2, <1>1, <3>1, <3>2, <3>3, StepKeeps DEF Vetted, TurnSound
  <2>4. ASSUME NEW op \in {"add", "remove"}, NEW calls \in Lists,
               turn' = [turn EXCEPT
                 ![t].node = "cart", ![t].inputSafe = safe, ![t].op = op,
                 ![t].calls = calls, ![t].done = 0]
        PROVE  IInv'
    <3>1. turn'[t].node = "cart" /\ turn'[t].context = was.context
          /\ turn'[t].op = op /\ turn'[t].calls = calls
          /\ turn'[t].done = 0
      BY <1>1, <2>4 DEF TypeOK, Turn
    <3>2. turn' \in [Queries -> Turn]
      BY <1>1, <2>4, ListsAreSequences DEF TypeOK, Turn, Nodes
    <3>3. TypeOK'
      BY <1>1, <2>2, <3>2 DEF TypeOK
    <3>4. \A q \in Queries \ {t} : turn'[q] = turn[q]
      BY <1>1, <2>4 DEF TypeOK
    <3>5. Len(calls) \in Nat
      BY ListsAreSequences
    <3> QED
      BY <2>2, <3>1, <3>3, <3>4, <3>5, StepKeeps DEF Vetted
  <2> QED
    BY <2>1, <2>3, <2>4
<1>4. ASSUME CartCall(t) PROVE IInv'
  <2> DEFINE call == was.calls[was.done + 1]
  <2>1. \/ turn' = [turn EXCEPT ![t].done = @ + 1]
        \/ turn' = [turn EXCEPT ![t].node = "failed", ![t].context = {}]
    BY <1>4 DEF CartCall
  <2>2. /\ UNCHANGED <<answer, memory, posted, posts>> /\ was.node = "cart"
        /\ was.done < Len(was.calls)
        /\ cart' = [cart EXCEPT ![call.item] = Apply(was.op, call.amount, @)]
    BY <1>4 DEF CartCall, Post, pageVars, At
  <2>3. was.calls \in Seq(Call) /\ was.done \in Nat
    BY <1>1 DEF Turn
  <2>4. cart' \in [Items -> Int \cup {NoRow}]
    <3>1. cart \in [Items -> Int \cup {NoRow}]
      BY <1>1 DEF TypeOK
    <3>2. call \in Call
      BY <2>2, <2>3
    <3>3. call.item \in Items /\ call.amount \in Int
      BY <3>2, ListsAreSequences
    <3> HIDE DEF call
    <3>4. Apply(was.op, call.amount, cart[call.item]) \in Int \cup {NoRow}
      BY <3>1, <3>3, ApplyTyped
    <3> QED
      BY <2>2, <3>1, <3>4
  <2>5. CASE turn' = [turn EXCEPT ![t].done = @ + 1]
    <3>1. /\ turn'[t].node = "cart" /\ turn'[t].op = was.op
          /\ turn'[t].calls = was.calls /\ turn'[t].done = was.done + 1
          /\ turn'[t].context = was.context
      BY <1>1, <2>2, <2>5 DEF TypeOK, Turn
    <3>2. was.done + 1 \in Nat
      BY <2>3
    <3>3. [was EXCEPT !.done = @ + 1] \in Turn
      BY <1>1, <3>2 DEF Turn
    <3>4. TypeOK'
      BY <1>1, <2>2, <2>4, <2>5, <3>3 DEF TypeOK
    <3>5. \A q \in Queries \ {t} : turn'[q] = turn[q]
      BY <1>1, <2>5 DEF TypeOK
    <3>6. turn'[t].done <= Len(turn'[t].calls)
      BY <2>2, <2>3, <3>1
    <3> QED
      BY <1>1, <2>2, <3>1, <3>4, <3>5, <3>6, StepKeeps DEF Vetted, TurnSound
  <2>6. CASE turn' = [turn EXCEPT ![t].node = "failed", ![t].context = {}]
    <3>1. /\ turn'[t].node = "failed" /\ turn'[t].context = {}
          /\ turn'[t].calls = was.calls /\ turn'[t].done = was.done
      BY <1>1, <2>6 DEF TypeOK, Turn
    <3>2. TypeOK'
      BY <1>1, <2>2, <2>4, <2>6 DEF TypeOK, Turn, Nodes
    <3>3. \A q \in Queries \ {t} : turn'[q] = turn[q]
      BY <1>1, <2>6 DEF TypeOK
    <3> QED
      BY <1>1, <2>2, <3>1, <3>2, <3>3, StepKeeps DEF Vetted, TurnSound
  <2> QED
    BY <2>1, <2>5, <2>6
<1>5. ASSUME CheckInput(t) PROVE IInv'
  <2> DEFINE node == IF was.inputSafe THEN "chatter" ELSE "unsafe_output"
  <2>1. turn' = [turn EXCEPT ![t].node = node]
    BY <1>5 DEF CheckInput, Move
  <2>2. /\ UNCHANGED <<answer, cart, memory, posted, posts>>
        /\ was.node \in {"check_rail", "cart"}
    BY <1>5 DEF CheckInput, AgentDone, At, pageVars
  <2>3. /\ turn'[t].node = node /\ turn'[t].inputSafe = was.inputSafe
        /\ turn'[t].context = was.context
    BY <1>1, <2>1 DEF TypeOK, Turn
  <2>4. TypeOK'
    BY <1>1, <2>1, <2>2 DEF TypeOK, Turn, Nodes
  <2>5. \A q \in Queries \ {t} : turn'[q] = turn[q]
    BY <1>1, <2>1 DEF TypeOK
  <2>9. turn'[t].calls = was.calls /\ turn'[t].done = was.done
    BY <1>1, <2>1 DEF TypeOK, Turn
  <2> QED
    BY <1>1, <2>9, <2>2, <2>3, <2>4, <2>5, StepKeeps DEF Vetted, TurnSound
<1>6. ASSUME Chat(t) PROVE IInv'
  <2>1. PICK safe \in BOOLEAN :
          turn' = [turn EXCEPT
            ![t].outputSafe = safe, ![t].context = @ \cup {t},
            ![t].node = IF safe THEN "summarize" ELSE "unsafe_output"]
    BY <1>6 DEF Chat
  <2>2. /\ UNCHANGED <<answer, cart, memory, posted, posts>>
        /\ was.node = "chatter" /\ was.inputSafe
    BY <1>1, <1>6 DEF Chat, At, pageVars, TurnSound
  <2>3. /\ turn'[t].node = IF safe THEN "summarize" ELSE "unsafe_output"
        /\ turn'[t].inputSafe /\ turn'[t].outputSafe = safe
        /\ turn'[t].context = was.context \cup {t}
    BY <1>1, <2>1, <2>2 DEF TypeOK, Turn
  <2>4. turn' \in [Queries -> Turn]
    BY <1>1, <2>1 DEF TypeOK, Turn, Nodes
  <2>5. TypeOK'
    BY <1>1, <2>2, <2>4 DEF TypeOK
  <2>6. \A q \in Queries \ {t} : turn'[q] = turn[q]
    BY <1>1, <2>1 DEF TypeOK
  <2>9. turn'[t].calls = was.calls /\ turn'[t].done = was.done
    BY <1>1, <2>1 DEF TypeOK, Turn
  <2> QED
    BY <1>1, <2>9, <2>2, <2>3, <2>5, <2>6, StepKeeps DEF Vetted, TurnSound
<1>7. ASSUME Summarize(t) PROVE IInv'
  <2>1. turn' = [turn EXCEPT ![t].node = "end", ![t].context = {}]
    BY <1>7 DEF Summarize
  <2>2. /\ UNCHANGED <<answer, cart, posted, posts>>
        /\ was.node = "summarize" /\ Vetted(t)
        /\ memory' \subseteq was.context \cup memory
    BY <1>1, <1>7 DEF Summarize, At, pageVars, TurnSound
  <2>3. /\ turn'[t].node = "end" /\ turn'[t].context = {}
        /\ turn'[t].inputSafe = was.inputSafe
        /\ turn'[t].outputSafe = was.outputSafe
    BY <1>1, <2>1 DEF TypeOK, Turn
  <2>4. Vetted(t)'
    BY <2>2, <2>3 DEF Vetted
  <2>5. TypeOK'
    BY <1>1, <2>1, <2>2 DEF TypeOK, Turn, Nodes
  <2>6. \A q \in Queries \ {t} : turn'[q] = turn[q]
    BY <1>1, <2>1 DEF TypeOK
  <2>9. turn'[t].calls = was.calls /\ turn'[t].done = was.done
    BY <1>1, <2>1 DEF TypeOK, Turn
  <2> QED
    BY <1>1, <2>9, <2>2, <2>3, <2>4, <2>5, <2>6, StepKeeps DEF TurnSound
<1>8. ASSUME Fail(t) PROVE IInv'
  <2>1. turn' = [turn EXCEPT ![t].node = "failed", ![t].context = {}]
    BY <1>8 DEF Fail
  <2>2. UNCHANGED <<answer, cart, memory, posted, posts>>
    BY <1>8 DEF Fail, pageVars
  <2>3. /\ turn'[t].node = "failed" /\ turn'[t].context = {}
        /\ turn'[t].inputSafe = was.inputSafe
        /\ turn'[t].outputSafe = was.outputSafe
    BY <1>1, <2>1 DEF TypeOK, Turn
  <2>4. TypeOK'
    BY <1>1, <2>1, <2>2 DEF TypeOK, Turn, Nodes
  <2>5. \A q \in Queries \ {t} : turn'[q] = turn[q]
    BY <1>1, <2>1 DEF TypeOK
  <2>9. turn'[t].calls = was.calls /\ turn'[t].done = was.done
    BY <1>1, <2>1 DEF TypeOK, Turn
  <2> QED
    BY <1>1, <2>9, <2>2, <2>3, <2>4, <2>5, StepKeeps DEF Vetted, TurnSound
<1> QED
  BY <1>2, <1>3, <1>4, <1>5, <1>6, <1>7, <1>8

-----------------------------------------------------------------------------
LEMMA InitIInv == Init => IInv
<1> SUFFICES ASSUME Init PROVE IInv
  OBVIOUS
<1>1. NewTurn \in Turn /\ NewTurn.node = "start" /\ NewTurn.context = {}
  BY DEF NewTurn, Turn, Nodes
<1>2. TypeOK
  BY <1>1 DEF Init, TypeOK
<1>3. NewTurn.done = 0 /\ Len(NewTurn.calls) = 0
  BY DEF NewTurn
<1> QED
  BY <1>1, <1>2, <1>3 DEF Init, IInv, TurnSound

LEMMA StepKeepsIInv == IInv /\ [Next]_vars => IInv'
<1> SUFFICES ASSUME IInv, [Next]_vars PROVE IInv'
  OBVIOUS
<1>1. ASSUME UNCHANGED <<turn, memory>>, TypeOK' PROVE IInv'
  BY <1>1 DEF IInv, TurnSound, Vetted
<1>2. TypeOK
  BY DEF IInv
<1>3. CASE UNCHANGED vars
  BY <1>1, <1>2, <1>3 DEF vars, pageVars, TypeOK
<1>4. ASSUME NEW t \in Queries, Ask(t) \/ Reply(t) \/ Fallback(t) PROVE IInv'
  BY <1>1, <1>2, <1>4 DEF Ask, Reply, Fallback, pageVars, TypeOK
<1>5. ASSUME NEW i \in Items, AddItem(i) \/ PostIsLost(i) PROVE IInv'
  BY <1>1, <1>2, <1>5 DEF AddItem, PostIsLost, TypeOK
<1>6. ASSUME NEW i \in Items, PostArrives(i) PROVE IInv'
  <2>1. cart[i] \in Int \cup {NoRow}
    BY <1>2 DEF TypeOK
  <2>2. Apply("add", 1, cart[i]) \in Int \cup {NoRow}
    <3>1. 1 \in Int /\ \A op : \A amount \in Int, held \in Int \cup {NoRow} :
            Apply(op, amount, held) \in Int \cup {NoRow}
      BY ApplyTyped
    <3> QED
      BY <2>1, <3>1
  <2> QED
    BY <1>1, <1>2, <1>6, <2>2 DEF PostArrives, TypeOK
<1> QED
  BY <1>3, <1>4, <1>5, <1>6, GraphKeeps DEF Next

(* The inductive invariant, for any number of queries side by side.         *)
THEOREM AssistantIsSound == Spec => []IInv
<1> QED
  BY InitIInv, StepKeepsIInv, PTL DEF Spec

(* The cart holds whole amounts, of whichever sign the model names.         *)
THEOREM TypeCorrect == Spec => []TypeOK
<1>1. IInv => TypeOK
  BY DEF IInv
<1> QED
  BY <1>1, AssistantIsSound, PTL

(* What a rail has refused is not remembered, and no later query is sent it.*)
THEOREM RefusedAreForgotten == Spec => []RefusedIsForgotten
<1>1. IInv => RefusedIsForgotten
  BY DEF IInv, TurnSound, Vetted, RefusedIsForgotten
<1> QED
  BY <1>1, AssistantIsSound, PTL
=============================================================================
