----------------------------- MODULE LogShipper -----------------------------
(***************************************************************************)
(* The log shipper agent (agents/log_shipper.py): it tails the nginx       *)
(* access log of its host and posts the new lines to the server.           *)
(*                                                                         *)
(* Rotation is seen by the size of the file: the shipper then closes the   *)
(* handle that run() holds and opens the log again only for the one call,  *)
(* at its end, because _open_log takes a position of 0 for the first       *)
(* start.  run() keeps the closed handle and every later read raises.      *)
(* The server is external: a post may be processed without an answer of    *)
(* 200 reaching the agent.  Lines are numbered as nginx writes them;       *)
(* rotation renames the file, and a handle follows the file it opened.     *)
(***************************************************************************)
EXTENDS Naturals, Sequences, SequencesExt

CONSTANTS
    MaxLines,      \* bound: lines written
    ShipBatch,     \* MAX_BATCH_SIZE
    ShipAttempts,  \* 1 + Len(RETRY_BACKOFF)
    MaxRotations,  \* bound
    MaxLostAcks,   \* bound: posts processed without an acknowledgement
    MaxKills       \* bound: restarts of the agent that skip the final flush

ASSUME ShipperAssumption ==
    /\ {MaxLines, MaxRotations, MaxLostAcks, MaxKills} \subseteq Nat
    /\ {ShipBatch, ShipAttempts} \subseteq Nat \ {0}

VARIABLES
    written,    \* lines in the log, over all its files
    fileBase,   \* lines before the current file
    handle,     \* f in run(): what it points to
    handleEnd,  \* the last line of a renamed file
    readTo,     \* the last line read through it, or skipped
    offsetPos,  \* _pos
    buffer,     \* _buffer
    inFlight,   \* the lines of the post under way
    sliced,     \* the post took them out of the buffer
    attempts,   \* posts of inFlight so far
    shipper,    \* where run() is
    stopping,   \* a signal has cleared _running
    received,   \* how often the server has each line
    lostLines,  \* history: lines dropped after the last attempt, or killed with the agent
    shipFaults  \* history: rotations, lost acknowledgements, kills

logVars == <<written, fileBase>>
fileVars == <<handle, handleEnd, readTo, offsetPos>>
postVars == <<inFlight, sliced, attempts>>
historyVars == <<received, lostLines, shipFaults>>
shipVars == <<logVars, fileVars, buffer, postVars, shipper, stopping, historyVars>>

Lines == 1..MaxLines

ShipperTypeOK ==
    /\ written \in 0..MaxLines
    /\ fileBase \in 0..MaxLines
    /\ handle \in {"none", "current", "renamed", "closed"}
    /\ handleEnd \in 0..MaxLines
    /\ readTo \in 0..MaxLines
    /\ offsetPos \in 0..MaxLines
    /\ buffer \in Seq(Lines)
    /\ inFlight \in Seq(Lines)
    /\ sliced \in BOOLEAN
    /\ attempts \in 0..ShipAttempts - 1
    /\ shipper \in {"read", "flush", "post", "final", "ended"}
    /\ stopping \in BOOLEAN
    /\ received \in [Lines -> Nat]
    /\ lostLines \subseteq Lines
    /\ shipFaults \in [rotations : 0..MaxRotations, acks : 0..MaxLostAcks, kills : 0..MaxKills]

ShipperInit ==
    /\ written = 0 /\ fileBase = 0
    /\ handle = "none" /\ handleEnd = 0 /\ readTo = 0 /\ offsetPos = 0
    /\ buffer = <<>> /\ inFlight = <<>> /\ sliced = FALSE /\ attempts = 0
    /\ shipper = "read" /\ stopping = FALSE
    /\ received = [l \in Lines |-> 0]
    /\ lostLines = {}
    /\ shipFaults = [rotations |-> 0, acks |-> 0, kills |-> 0]

FileSize == written - fileBase
LinesFrom(first, last) == [i \in 1..(last - first + 1) |-> first + i - 1]
InMemory == Range(buffer) \cup Range(inFlight)

-----------------------------------------------------------------------------
(* nginx, and the signals. *)

WriteLine ==
    /\ written < MaxLines
    /\ written' = written + 1
    /\ UNCHANGED <<fileBase, fileVars, buffer, postVars, shipper, stopping, historyVars>>

RotateLog ==
    /\ shipFaults.rotations < MaxRotations
    /\ shipFaults' = [shipFaults EXCEPT !.rotations = @ + 1]
    /\ fileBase' = written
    /\ IF handle = "current"
       THEN handle' = "renamed" /\ handleEnd' = written
       ELSE UNCHANGED <<handle, handleEnd>>
    /\ UNCHANGED <<written, readTo, offsetPos, buffer, postVars, shipper, stopping,
                   received, lostLines>>

StopShipper ==
    /\ ~stopping
    /\ shipper # "ended"
    /\ stopping' = TRUE
    /\ UNCHANGED <<logVars, fileVars, buffer, postVars, shipper, historyVars>>

-----------------------------------------------------------------------------
(* run(): one turn of the loop opens, reads, flushes and posts. *)

AtTop == shipper = "read" /\ ~stopping

OpenLog ==
    /\ AtTop
    /\ handle = "none"
    /\ handle' = "current"
    /\ readTo' = written
    /\ offsetPos' = FileSize
    /\ UNCHANGED <<logVars, handleEnd, buffer, postVars, shipper, stopping, historyVars>>

(* The closed handle is what makes every later read raise: the turn ends    *)
(* there, before the flush, and nothing changes.                            *)
SeeRotation ==
    /\ AtTop
    /\ handle # "none"
    /\ FileSize < offsetPos
    /\ handle' = "closed"
    /\ offsetPos' = FileSize
    /\ shipper' = "flush"
    /\ UNCHANGED <<logVars, handleEnd, readTo, buffer, postVars, stopping, historyVars>>

ReadNewLines ==
    /\ AtTop
    /\ handle \in {"current", "renamed"}
    /\ FileSize >= offsetPos
    /\ LET last == IF handle = "current" THEN written ELSE handleEnd
       IN  /\ buffer' = buffer \o LinesFrom(readTo + 1, last)
           /\ offsetPos' = offsetPos + last - readTo
           /\ readTo' = last
    /\ shipper' = "flush"
    /\ UNCHANGED <<logVars, handle, handleEnd, postVars, stopping, historyVars>>

(* Mutant: the buffer is cleared although only a batch of it was taken. *)
TakeBatchAndClear ==
    /\ shipper = "flush"
    /\ Len(buffer) >= ShipBatch
    /\ inFlight' = SubSeq(buffer, 1, ShipBatch)
    /\ buffer' = <<>>
    /\ sliced' = TRUE
    /\ shipper' = "post"
    /\ UNCHANGED <<logVars, fileVars, attempts, stopping, historyVars>>

TakeBatch ==
    /\ shipper = "flush"
    /\ Len(buffer) >= ShipBatch
    /\ inFlight' = SubSeq(buffer, 1, ShipBatch)
    /\ buffer' = SubSeq(buffer, ShipBatch + 1, Len(buffer))
    /\ sliced' = TRUE
    /\ shipper' = "post"
    /\ UNCHANGED <<logVars, fileVars, attempts, stopping, historyVars>>

(* The lines stay in the buffer until the post is over. *)
TakeAll ==
    /\ shipper = "flush"
    /\ Len(buffer) < ShipBatch
    /\ inFlight' = buffer
    /\ sliced' = FALSE
    /\ shipper' = IF buffer = <<>> THEN "read" ELSE "post"
    /\ UNCHANGED <<logVars, fileVars, buffer, attempts, stopping, historyVars>>

FinalFlush ==
    /\ shipper = "read"
    /\ stopping
    /\ inFlight' = buffer
    /\ sliced' = FALSE
    /\ shipper' = IF buffer = <<>> THEN "ended" ELSE "final"
    /\ UNCHANGED <<logVars, fileVars, buffer, attempts, stopping, historyVars>>

-----------------------------------------------------------------------------
(* _ship. *)

Posting == shipper \in {"post", "final"}

ServerReceives ==
    received' = [l \in Lines |-> received[l] + (IF l \in Range(inFlight) THEN 1 ELSE 0)]

LoseAck ==
    /\ shipFaults.acks < MaxLostAcks
    /\ shipFaults' = [shipFaults EXCEPT !.acks = @ + 1]

(* Mutant: a buffer that was posted as a whole is kept. *)
PostOverKeeps ==
    /\ inFlight' = <<>>
    /\ attempts' = 0
    /\ sliced' = FALSE
    /\ shipper' = IF shipper = "final" THEN "ended" ELSE "read"
    /\ UNCHANGED buffer

PostOver ==
    /\ inFlight' = <<>>
    /\ attempts' = 0
    /\ sliced' = FALSE
    /\ shipper' = IF shipper = "final" THEN "ended" ELSE "read"
    /\ buffer' = IF sliced THEN buffer ELSE <<>>

PostAcknowledged ==
    /\ Posting
    /\ ServerReceives
    /\ PostOver
    /\ UNCHANGED <<logVars, fileVars, stopping, lostLines, shipFaults>>

(* An error or another status; after the last attempt the lines are dropped.*)
PostFails ==
    /\ Posting
    /\ \/ ServerReceives /\ LoseAck
       \/ UNCHANGED <<received, shipFaults>>
    /\ IF attempts + 1 < ShipAttempts
       THEN /\ attempts' = attempts + 1
            /\ UNCHANGED <<inFlight, sliced, shipper, buffer, lostLines>>
       ELSE /\ PostOver
            /\ lostLines' = lostLines \cup Range(inFlight)
    /\ UNCHANGED <<logVars, fileVars, stopping>>

(* A 200 whose body is not a JSON object raises out of _ship: a buffer      *)
(* posted as a whole is not cleared.                                        *)
AnswerUnreadable ==
    /\ Posting
    /\ ServerReceives
    /\ LoseAck
    /\ inFlight' = <<>>
    /\ attempts' = 0
    /\ sliced' = FALSE
    /\ shipper' = IF shipper = "final" THEN "ended" ELSE "read"
    /\ UNCHANGED <<logVars, fileVars, buffer, stopping, lostLines>>

(* The agent is killed, perhaps during a post, and started again: what it   *)
(* had in memory is gone, and it goes on at the end of the file.            *)
KillShipper ==
    /\ shipFaults.kills < MaxKills
    /\ shipFaults' = [shipFaults EXCEPT !.kills = @ + 1]
    /\ \/ ServerReceives
       \/ UNCHANGED received
    /\ lostLines' = lostLines \cup InMemory
    /\ handle' = "none" /\ handleEnd' = 0 /\ readTo' = 0 /\ offsetPos' = 0
    /\ buffer' = <<>> /\ inFlight' = <<>> /\ sliced' = FALSE /\ attempts' = 0
    /\ shipper' = "read" /\ stopping' = FALSE
    /\ UNCHANGED logVars

ShipperStep ==
    \/ OpenLog \/ SeeRotation \/ ReadNewLines
    \/ TakeBatch \/ TakeAll \/ FinalFlush
    \/ PostAcknowledged \/ PostFails \/ AnswerUnreadable

ShipperNext ==
    \/ WriteLine \/ RotateLog \/ StopShipper \/ KillShipper
    \/ ShipperStep

ShipperSpec == ShipperInit /\ [][ShipperNext]_shipVars

(* The agent is one thread that keeps running. *)
ShipperFairSpec == ShipperSpec /\ WF_shipVars(ShipperStep)

-----------------------------------------------------------------------------
(* The server gets a line again only when an acknowledgement was lost or    *)
(* could not be read: slicing and clearing the buffer, retries, the final   *)
(* flush and restarts repeat nothing by themselves.                         *)
DeliveriesHaveACause ==
    \A l \in Lines : received[l] <= 1 + shipFaults.acks

(* No line is forgotten on the way: it leaves the memory only in a post     *)
(* that the server has processed, or given up, after the last attempt or    *)
(* with the process.  Slicing and clearing drop nothing by themselves.      *)
LinesAreKept ==
    [][\A l \in InMemory :
          l \in InMemory' \/ received'[l] > received[l] \/ l \in lostLines']_shipVars

(* A line that has been read reaches the server or is given up after the    *)
(* last attempt or with the process; only a closed handle keeps it in the   *)
(* buffer for ever.                                                         *)
ReadLinesLeave ==
    \A l \in Lines :
        l \in InMemory ~> (received[l] > 0 \/ l \in lostLines \/ handle = "closed")
=============================================================================
