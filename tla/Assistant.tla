----------------------------- MODULE Assistant ------------------------------
(***************************************************************************)
(* One buyer and the shopping assistant: AssistantQueryView, the graph of   *)
(* agents that the chain server runs for each query, the memory service     *)
(* with the buyer's cart and the conversation, and the cart of the web      *)
(* page, which posts what it adds to the same memory service.               *)
(*                                                                          *)
(* The memory service's handlers never await, so each runs alone.  The      *)
(* queries of a buyer (two tabs, a query repeated after a timeout) run side *)
(* by side; a query reads the conversation at its start and writes it back  *)
(* at its end.  What the language models and the rails answer is a free     *)
(* choice.                                                                  *)
(***************************************************************************)
EXTENDS Integers, Sequences, FiniteSetsExt

CONSTANTS
  Items,       \* names of the catalogue
  Quantities,  \* quantities that the model may name, of any sign
  MaxCalls,    \* bound on the entries of a bulk call
  NoRow,       \* the cart has no row for the item
  Queries,     \* the buyer's queries
  MaxPosts     \* bound on the posts of the web page

ASSUME AssistantAssumption ==
  /\ Quantities \subseteq Int
  /\ MaxCalls \in Nat
  /\ NoRow \notin Int

VARIABLES
  turn,     \* per query: the chain server's State and its place in the graph
  answer,   \* per query: what the gateway has answered
  cart,     \* CartItem.amount
  memory,   \* User.context: the exchanges that it tells of
  posted,   \* number of items that the web page has posted, ever
  posts     \* and of those that are still under way

Sum(S, f(_)) == MapThenSumSet(f, S)

vars == <<turn, answer, cart, memory, posted, posts>>

Nodes == {"start", "planner", "cart", "check_rail", "chatter", "summarize",
          "unsafe_output", "end", "failed"}

Call == [item : Items, amount : Quantities \cup {1}]

(* What the agent posts, one call after the other: the one entry of a       *)
(* single tool with whatever quantity the model has named, or the entries   *)
(* of a bulk tool, of which a zero counts as one; none if no tool is called *)
(* or nothing is found.  The entries may name an item twice.                *)
Lists ==
  {<<call>> : call \in Call}
    \cup {list \in UNION {[1..n -> Call] : n \in 0..MaxCalls} :
           \A k \in DOMAIN list : list[k].amount # 0}

(* Of calls, the first done ones are answered.                              *)
Turn ==
  [node : Nodes, op : {"none", "add", "remove"}, calls : Seq(Call), done : Nat,
   context : SUBSET Queries, inputSafe : BOOLEAN, outputSafe : BOOLEAN]

TypeOK ==
  /\ turn \in [Queries -> Turn]
  /\ answer \in [Queries -> {"none", "waiting", "reply", "fallback"}]
  /\ cart \in [Items -> Int \cup {NoRow}]
  /\ memory \subseteq Queries
  /\ posted \in [Items -> Nat] /\ posts \in [Items -> Nat]

NewTurn ==
  [node |-> "start", op |-> "none", calls |-> <<>>, done |-> 0,
   context |-> {}, inputSafe |-> TRUE, outputSafe |-> TRUE]

Init ==
  /\ turn = [t \in Queries |-> NewTurn]
  /\ answer = [t \in Queries |-> "none"]
  /\ cart = [i \in Items |-> NoRow]
  /\ memory = {}
  /\ posted = [i \in Items |-> 0]
  /\ posts = [i \in Items |-> 0]

pageVars == <<posted, posts>>

-----------------------------------------------------------------------------
(* The gateway: AssistantQueryView.post.                                    *)

Ask(t) ==
  /\ answer[t] = "none"
  /\ answer' = [answer EXCEPT ![t] = "waiting"]
  /\ UNCHANGED <<turn, cart, memory, pageVars>>

Finished(t) == turn[t].node \in {"end", "unsafe_output"}

Reply(t) ==
  /\ answer[t] = "waiting"
  /\ Finished(t)
  /\ answer' = [answer EXCEPT ![t] = "reply"]
  /\ UNCHANGED <<turn, cart, memory, pageVars>>

(* The chain has failed or takes longer than ASSISTANT_CHAIN_TIMEOUT; it is *)
(* not told, and goes on.                                                   *)
Fallback(t) ==
  /\ answer[t] = "waiting"
  /\ answer' = [answer EXCEPT ![t] = "fallback"]
  /\ UNCHANGED <<turn, cart, memory, pageVars>>

-----------------------------------------------------------------------------
(* The graph.                                                               *)

At(t, node) == turn[t].node = node

Move(t, node) == turn' = [turn EXCEPT ![t].node = node]

(* GraphNodes.get_memory: nothing is remembered if the service is down.     *)
GetMemory(t) ==
  /\ At(t, "start")
  /\ answer[t] # "none"
  /\ \E context \in {memory, {}} :
       turn' = [turn EXCEPT ![t].node = "planner", ![t].context = context]
  /\ UNCHANGED <<answer, cart, memory, pageVars>>

(* The planner and the input rail run in one step of the graph, and neither *)
(* waits for the other's verdict.  A cart query then has the model choose a *)
(* tool and its entries; nothing checks the quantities.  One whose name the *)
(* catalogue does not have, or that the service refuses, is skipped, as if  *)
(* not named.  The retriever and the passthrough touch no shared state.     *)
Plan(t) ==
  /\ At(t, "planner")
  /\ \E safe \in BOOLEAN :
       \/ turn' = [turn EXCEPT ![t].node = "check_rail", ![t].inputSafe = safe]
       \/ \E op \in {"add", "remove"}, calls \in Lists :
            turn' = [turn EXCEPT
              ![t].node = "cart", ![t].inputSafe = safe, ![t].op = op,
              ![t].calls = calls, ![t].done = 0]
  /\ UNCHANGED <<answer, cart, memory, pageVars>>

(* add_to_cart and remove_cart of the memory service.  A row is made with   *)
(* whatever amount is posted, an item without a row is not removed, and a   *)
(* negative removal adds.                                                   *)
Apply(op, amount, held) ==
  CASE held = NoRow -> IF op = "add" THEN amount ELSE NoRow
    [] held # NoRow /\ op = "add" -> held + amount
    [] OTHER -> IF held <= amount THEN NoRow ELSE held - amount

Post(t) ==
  LET call == turn[t].calls[turn[t].done + 1] IN
  cart' = [cart EXCEPT ![call.item] = Apply(turn[t].op, call.amount, @)]

(* Variant: a call whose answer is lost is repeated.                        *)
CartCallRetried(t) ==
  /\ At(t, "cart")
  /\ turn[t].done < Len(turn[t].calls)
  /\ Post(t)
  /\ \/ turn' = [turn EXCEPT ![t].done = @ + 1]
     \/ UNCHANGED turn
  /\ UNCHANGED <<answer, memory, pageVars>>

(* The next entry of a (bulk) add or remove.  If the answer is lost the     *)
(* agent raises, with the rest of the entries not done.                     *)
CartCall(t) ==
  /\ At(t, "cart")
  /\ turn[t].done < Len(turn[t].calls)
  /\ Post(t)
  /\ \/ turn' = [turn EXCEPT ![t].done = @ + 1]
     \/ turn' = [turn EXCEPT ![t].node = "failed", ![t].context = {}]
  /\ UNCHANGED <<answer, memory, pageVars>>

(* The edges into check_rail_node.                                          *)
AgentDone(t) ==
  \/ At(t, "check_rail")
  \/ At(t, "cart") /\ turn[t].done = Len(turn[t].calls)

(* Variant: the rails' verdict on the query is not looked at.               *)
CheckInputLate(t) ==
  /\ AgentDone(t)
  /\ Move(t, "chatter")
  /\ UNCHANGED <<answer, cart, memory, pageVars>>

(* decide_if_input_safe                                                     *)
CheckInput(t) ==
  /\ AgentDone(t)
  /\ Move(t, IF turn[t].inputSafe THEN "chatter" ELSE "unsafe_output")
  /\ UNCHANGED <<answer, cart, memory, pageVars>>

(* Variant: the rails' verdict on the answer is not looked at.              *)
ChatUnchecked(t) ==
  /\ At(t, "chatter")
  /\ \E safe \in BOOLEAN :
       turn' = [turn EXCEPT
         ![t].outputSafe = safe, ![t].context = @ \cup {t},
         ![t].node = "summarize"]
  /\ UNCHANGED <<answer, cart, memory, pageVars>>

(* The chatter's text joins the context, is checked, and decides where the  *)
(* turn goes: decide_if_output_safe.                                        *)
Chat(t) ==
  /\ At(t, "chatter")
  /\ \E safe \in BOOLEAN :
       turn' = [turn EXCEPT
         ![t].outputSafe = safe, ![t].context = @ \cup {t},
         ![t].node = IF safe THEN "summarize" ELSE "unsafe_output"]
  /\ UNCHANGED <<answer, cart, memory, pageVars>>

(* context/replace with the turn's copy, of which a summary keeps a part;   *)
(* whether the service has done it is not looked at.                        *)
Summarize(t) ==
  /\ At(t, "summarize")
  /\ \/ \E summary \in SUBSET turn[t].context : memory' = summary
     \/ UNCHANGED memory
  /\ turn' = [turn EXCEPT ![t].node = "end", ![t].context = {}]
  /\ UNCHANGED <<answer, cart, pageVars>>

(* An agent raises, or the server restarts.                                 *)
Fail(t) ==
  /\ answer[t] # "none"
  /\ ~Finished(t) /\ ~At(t, "failed")
  /\ turn' = [turn EXCEPT ![t].node = "failed", ![t].context = {}]
  /\ UNCHANGED <<answer, cart, memory, pageVars>>

-----------------------------------------------------------------------------
(* The cart of the web page, and apps/cart.                                 *)

(* addItem.  The page keeps a cart of its own, which is what is ordered,    *)
(* and tells the memory service only what it adds: clearCart and the change *)
(* of vendor post nothing, and CartRemoveView fails, for it names a         *)
(* serializer that it does not import.                                      *)
AddItem(i) ==
  /\ Sum(Items, LAMBDA j : posted[j]) < MaxPosts
  /\ posted' = [posted EXCEPT ![i] = @ + 1]
  /\ posts' = [posts EXCEPT ![i] = @ + 1]
  /\ UNCHANGED <<turn, answer, cart, memory>>

(* CartAddView, sync_cart_add and the memory service.                       *)
PostArrives(i) ==
  /\ posts[i] > 0
  /\ posts' = [posts EXCEPT ![i] = @ - 1]
  /\ cart' = [cart EXCEPT ![i] = Apply("add", 1, @)]
  /\ UNCHANGED <<turn, answer, memory, posted>>

(* .catch(() => {})                                                         *)
PostIsLost(i) ==
  /\ posts[i] > 0
  /\ posts' = [posts EXCEPT ![i] = @ - 1]
  /\ UNCHANGED <<turn, answer, cart, memory, posted>>

-----------------------------------------------------------------------------
Next ==
  \/ \E t \in Queries :
       \/ Ask(t) \/ Reply(t) \/ Fallback(t)
       \/ GetMemory(t) \/ Plan(t) \/ CartCall(t)
       \/ CheckInput(t) \/ Chat(t) \/ Summarize(t) \/ Fail(t)
  \/ \E i \in Items :
       AddItem(i) \/ PostArrives(i) \/ PostIsLost(i)

Spec == Init /\ [][Next]_vars

-----------------------------------------------------------------------------
(* Entries of the query's list that name the item.                          *)
Naming(t, i) == {k \in DOMAIN turn[t].calls : turn[t].calls[k].item = i}

OnlyAdded(i) == \A t \in Queries : Naming(t, i) # {} => turn[t].op = "add"

OnlyPositive(i) ==
  \A t \in Queries : \A k \in Naming(t, i) : turn[t].calls[k].amount > 0

(* What queries would have added of the item with their first n[t] entries. *)
Added(i, n) ==
  Sum({t \in Queries : turn[t].op = "add"}, LAMBDA t :
        Sum({k \in Naming(t, i) : k <= n[t]}, LAMBDA k : turn[t].calls[k].amount))

(* The entries of a list that were posted: those answered, and, if the      *)
(* agent was cut off, perhaps one more.                                     *)
MayHavePosted(t) ==
  IF At(t, "failed") /\ turn[t].done < Len(turn[t].calls)
  THEN {turn[t].done, turn[t].done + 1} ELSE {turn[t].done}

(* The cart that the assistant calls authoritative is what was asked for,   *)
(* although queries and the page write it side by side, time out and are    *)
(* cut off within a list.  What nobody removes has each answered entry      *)
(* once, at most one more of each query that was cut off, and no more than  *)
(* the page has posted.  If no quantity is zero or negative, a row holds a  *)
(* positive amount and no more than was asked for, removals or not.         *)
CartHoldsWhatWasAdded ==
  \A i \in Items :
    LET held == IF cart[i] = NoRow THEN 0 ELSE cart[i] IN
    /\ OnlyAdded(i) =>
         \E n \in [Queries -> 0..MaxCalls + 1], arrived \in 0..posted[i] - posts[i] :
           /\ \A t \in Queries : n[t] \in MayHavePosted(t)
           /\ held = Added(i, n) + arrived
    /\ OnlyPositive(i) =>
         /\ cart[i] = NoRow \/ held > 0
         /\ held <= Added(i, [t \in Queries |-> Len(turn[t].calls)]) + posted[i]

(* The conversation that is sent with later queries tells of no exchange    *)
(* that a rail has refused, whatever copies of it other queries write back. *)
RefusedIsForgotten ==
  \A t \in Queries : ~turn[t].inputSafe \/ ~turn[t].outputSafe =>
    \A q \in Queries : t \notin memory /\ (q # t => t \notin turn[q].context)

=============================================================================
