-------------------------------- MODULE MCTurn --------------------------------
(***************************************************************************)
(* Five parts that a turn rests on and that share no state, side by side:  *)
(* the run and its lease, the layers of the conversation, the ticket the   *)
(* turn may leave, the ways in that share a conversation, and what agents  *)
(* tell each other of the tools' results.  A behaviour is one of one part, *)
(* and the variables of the others rest.                                   *)
(***************************************************************************)
EXTENDS ExecutionStore, ConversationLayers, TicketConfirmation, AdaptiveRouting,
        MCEvidenceLedger

VARIABLE part

turnVars == <<part, storeVars, layersVars, ticketVars, routingVars, claimVars>>

\* Two of the runs and tasks have the names of the two requests, and the owners those
\* of the confirmation keys, so that a permutation serves them all.
Alike == Permutations(Request) \cup Permutations(ConfirmKey) \cup Permutations(Chat)

MCQuestion ==
  {[names |-> {"o1"}, compares |-> FALSE, acts |-> TRUE, corrects |-> FALSE],
   [names |-> {}, compares |-> FALSE, acts |-> TRUE, corrects |-> TRUE]}

MCNaming == {{}, {"o1", "o2"}}

MCEarlier ==
  {<<>>, <<[of |-> "earlier", part |-> "question", by |-> "run", attempt |-> 1, names |-> {"o1"}],
           [of |-> "earlier", part |-> "reply", by |-> "run", attempt |-> 1, names |-> {"o2"}]>>}

Init ==
  /\ part \in {"store", "layers", "tickets", "routing", "claims"}
  /\ StoreInit /\ LayersInit /\ TicketInit /\ RoutingInit /\ LedgerInit
  /\ judged
  /\ part # "routing" => dialogue = <<>>

Store ==
  /\ part = "store" /\ StoreNext
  /\ UNCHANGED <<part, layersVars, ticketVars, routingVars, claimVars>>
Layers ==
  /\ part = "layers" /\ LayersNext
  /\ UNCHANGED <<part, storeVars, ticketVars, routingVars, claimVars>>
Tickets ==
  /\ part = "tickets" /\ TicketNext
  /\ UNCHANGED <<part, storeVars, layersVars, routingVars, claimVars>>
Routing ==
  /\ part = "routing" /\ RoutingNext
  /\ UNCHANGED <<part, storeVars, layersVars, ticketVars, claimVars>>
Handoffs ==
  /\ part = "claims" /\ LedgerNext
  /\ UNCHANGED <<part, storeVars, layersVars, ticketVars, routingVars>>

Next == Store \/ Layers \/ Tickets \/ Routing \/ Handoffs

Spec == Init /\ [][Next]_turnVars

=============================================================================
