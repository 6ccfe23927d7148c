----------------------------- MODULE SalesChat -----------------------------
(***************************************************************************)
(* The WhatsApp sales agent (watsapp): one customer, who writes to one or  *)
(* several businesses, and the AI that answers unless the business has     *)
(* paused it.                                                              *)
(*                                                                         *)
(* Several processes serve the webhook, and every statement commits on its *)
(* own: a call finds, takes over or inserts the row of the conversation,   *)
(* saves the message, answers 200, and a background task that still holds  *)
(* the row it read then asks the AI, sends its answer and saves it.        *)
(* total_messages, lead_score, stage, sentiment and names are data, and so *)
(* is the preview; dashboards are told to reload at best effort.           *)
(***************************************************************************)
EXTENDS Naturals, Sequences, FiniteSets

CONSTANTS
    Sellers,       \* users: the businesses
    ChatCalls,     \* bound: webhooks and manual messages under way
    HistoryLimit,  \* messages the AI is shown
    MaxMessages    \* bound: messages that arrive or are sent by hand

ASSUME SalesChatAssumption ==
    /\ IsFiniteSet(ChatCalls)
    /\ HistoryLimit \in Nat \ {0}
    /\ MaxMessages \in Nat

VARIABLES
    convo,     \* conversations rows of the customer, by id
    chatCall,  \* webhooks with their background tasks, and manual messages
    arrived,   \* bound: messages so far
    underWay,  \* history: webhooks that held each row when it was paused
    replied    \* history: answers of the AI since then

chatVars == <<convo, chatCall, arrived, underWay, replied>>

NoChatCall == [step |-> "idle"]
ChatSteps == {"find", "claim", "reread", "insert", "save", "check", "history", "ask", "keep"}

(* id 0: no row yet; read: messages of the conversation when the history    *)
(* was read; context: those the AI is shown, by their place.                *)
ChatTypeOK ==
    /\ convo \in Seq([owner : Sellers, paused : BOOLEAN, stored : Nat])
    /\ chatCall \in [ChatCalls -> {NoChatCall} \cup
           [step : ChatSteps, manual : BOOLEAN, owner : Sellers, id : 0..Len(convo),
            paused : BOOLEAN, read : Nat, context : SUBSET (1..HistoryLimit)]]
    /\ arrived \in 0..MaxMessages
    /\ underWay \in [DOMAIN convo -> Nat]
    /\ replied \in [DOMAIN convo -> Nat]

ChatInit ==
    /\ convo = <<>>
    /\ chatCall = [q \in ChatCalls |-> NoChatCall]
    /\ arrived = 0
    /\ underWay = <<>>
    /\ replied = <<>>

RowsOf(o) == {i \in DOMAIN convo : convo[i].owner = o}
AtStep(q, step) == chatCall[q].step = step
GoTo(q, step) == chatCall' = [chatCall EXCEPT ![q].step = step]

-----------------------------------------------------------------------------
(* handle_webhook and manual_send up to the row: get_or_create_conversation *)
(* looks for the phone alone.                                               *)

Arrive(q, o, manual) ==
    /\ chatCall[q] = NoChatCall
    /\ arrived < MaxMessages
    /\ arrived' = arrived + 1
    /\ chatCall' = [chatCall EXCEPT ![q] =
           [step |-> "find", manual |-> manual, owner |-> o, id |-> 0, paused |-> FALSE,
            read |-> 0, context |-> {}]]
    /\ UNCHANGED <<convo, underWay, replied>>

(* A manual message is sent at once, and saved. *)
Holding(c, i, paused) ==
    [c EXCEPT !.step = IF c.manual THEN "keep" ELSE "save", !.id = i, !.paused = paused]

FindRow(q) ==
    /\ AtStep(q, "find")
    /\ \/ convo = <<>> /\ GoTo(q, "insert")
       \/ \E i \in DOMAIN convo :
             IF convo[i].owner = chatCall[q].owner
             THEN chatCall' = [chatCall EXCEPT ![q] = Holding(@, i, convo[i].paused)]
             ELSE GoTo(q, "claim")
    /\ UNCHANGED <<convo, arrived, underWay, replied>>

(* The update names no row but the phone: with two rows it breaks           *)
(* UNIQUE(user_id, phone_number) and raises.                                *)
ClaimRow(q) ==
    /\ AtStep(q, "claim")
    /\ Len(convo) = 1
    /\ convo' = [convo EXCEPT ![1].owner = chatCall[q].owner]
    /\ GoTo(q, "reread")
    /\ UNCHANGED <<arrived, underWay, replied>>

ReadAgain(q) ==
    /\ AtStep(q, "reread")
    /\ \E i \in DOMAIN convo :
          chatCall' = [chatCall EXCEPT ![q] = Holding(@, i, convo[i].paused)]
    /\ UNCHANGED <<convo, arrived, underWay, replied>>

AddConversation(q) ==
    /\ AtStep(q, "insert")
    /\ RowsOf(chatCall[q].owner) = {}
    /\ convo' = Append(convo, [owner |-> chatCall[q].owner, paused |-> FALSE, stored |-> 0])
    /\ chatCall' = [chatCall EXCEPT ![q] = Holding(@, Len(convo) + 1, FALSE)]
    /\ underWay' = Append(underWay, 0)
    /\ replied' = Append(replied, 0)
    /\ UNCHANGED arrived

-----------------------------------------------------------------------------
(* The rest of the webhook, and the background task. *)

Stored(q) == convo' = [convo EXCEPT ![chatCall[q].id].stored = @ + 1]

(* An error is logged and the webhook goes on. *)
SaveInbound(q) ==
    /\ AtStep(q, "save")
    /\ Stored(q) \/ UNCHANGED convo
    /\ GoTo(q, "check")
    /\ UNCHANGED <<arrived, underWay, replied>>

(* Mutant: the webhook does not look at is_paused. *)
AnswerAlways(q) ==
    /\ AtStep(q, "check")
    /\ GoTo(q, "history")
    /\ UNCHANGED <<convo, arrived, underWay, replied>>

(* is_paused is that of the row as it was read; then the webhook is         *)
(* answered and the background task begins.                                 *)
CheckPaused(q) ==
    /\ AtStep(q, "check")
    /\ IF chatCall[q].paused
       THEN chatCall' = [chatCall EXCEPT ![q] = NoChatCall]
       ELSE GoTo(q, "history")
    /\ UNCHANGED <<convo, arrived, underWay, replied>>

(* ORDER BY timestamp ASC LIMIT, of the seller's row. *)
Shown(n) == {k \in 1..n : k <= HistoryLimit}
ChatLength(o) == IF RowsOf(o) = {} THEN 0 ELSE convo[CHOOSE i \in RowsOf(o) : TRUE].stored

ReadHistory(q) ==
    /\ AtStep(q, "history")
    /\ LET n == ChatLength(chatCall[q].owner)
       IN  chatCall' = [chatCall EXCEPT ![q].step = "ask", ![q].read = n,
                                        ![q].context = Shown(n)]
    /\ UNCHANGED <<convo, arrived, underWay, replied>>

(* The AI, or the text for the case that every engine fails, and the        *)
(* message to the customer.                                                 *)
SendReply(q) ==
    /\ AtStep(q, "ask")
    /\ GoTo(q, "keep")
    /\ replied' = [replied EXCEPT ![chatCall[q].id] = @ + 1]
    /\ UNCHANGED <<convo, arrived, underWay>>

SaveOutbound(q) ==
    /\ AtStep(q, "keep")
    /\ Stored(q)
    /\ chatCall' = [chatCall EXCEPT ![q] = NoChatCall]
    /\ UNCHANGED <<arrived, underWay, replied>>

(* A statement raises, which the webhook answers with 200 all the same, or  *)
(* the process dies.                                                        *)
ChatCallEnds(q) ==
    /\ chatCall[q] # NoChatCall
    /\ chatCall' = [chatCall EXCEPT ![q] = NoChatCall]
    /\ UNCHANGED <<convo, arrived, underWay, replied>>

-----------------------------------------------------------------------------
(* pause_ai_routing and resume_ai_routing; they answer ok without a row too. *)

AnswersFor(i) == {q \in ChatCalls : /\ chatCall[q] # NoChatCall
                                    /\ ~chatCall[q].manual
                                    /\ chatCall[q].id = i
                                    /\ chatCall[q].step # "keep"}

Pause(o) ==
    LET now == {i \in RowsOf(o) : ~convo[i].paused}
    IN  /\ now # {}
        /\ convo' = [i \in DOMAIN convo |->
               IF i \in now THEN [convo[i] EXCEPT !.paused = TRUE] ELSE convo[i]]
        /\ underWay' = [i \in DOMAIN convo |->
               IF i \in now THEN Cardinality(AnswersFor(i)) ELSE underWay[i]]
        /\ replied' = [i \in DOMAIN convo |-> IF i \in now THEN 0 ELSE replied[i]]
        /\ UNCHANGED <<chatCall, arrived>>

Resume(o) ==
    /\ \E i \in RowsOf(o) : convo[i].paused
    /\ convo' = [i \in DOMAIN convo |->
           IF i \in RowsOf(o) THEN [convo[i] EXCEPT !.paused = FALSE] ELSE convo[i]]
    /\ UNCHANGED <<chatCall, arrived, underWay, replied>>

ChatNext ==
    \/ \E q \in ChatCalls :
          \/ \E o \in Sellers, manual \in BOOLEAN : Arrive(q, o, manual)
          \/ FindRow(q) \/ ClaimRow(q) \/ ReadAgain(q) \/ AddConversation(q)
          \/ SaveInbound(q) \/ CheckPaused(q) \/ ReadHistory(q)
          \/ SendReply(q) \/ SaveOutbound(q) \/ ChatCallEnds(q)
    \/ \E o \in Sellers : Pause(o) \/ Resume(o)

ChatSpec == ChatInit /\ [][ChatNext]_chatVars

-----------------------------------------------------------------------------
(* After the AI is paused no more answers go out than webhooks held the     *)
(* conversation at that moment: each of them at most one, and none of those *)
(* that arrive later, whichever process serves them and whoever takes the   *)
(* conversation over.                                                       *)
PauseBoundsReplies ==
    \A i \in DOMAIN convo : convo[i].paused => replied[i] <= underWay[i]

(* The AI is shown the last messages of the conversation, as the comment    *)
(* "Last 10 messages for context" says.                                     *)
Latest(n) == {k \in 1..n : k + HistoryLimit > n}
AISeesLatestMessages ==
    \A q \in ChatCalls :
        AtStep(q, "ask") => chatCall[q].context = Latest(chatCall[q].read)
=============================================================================
