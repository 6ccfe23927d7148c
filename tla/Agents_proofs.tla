--------------------------- MODULE Agents_proofs ----------------------------
(***************************************************************************)
(* Proofs about the agents: the log shipper, the sales chat, and the       *)
(* queries of the log agent.                                               *)
(***************************************************************************)
EXTENDS LogShipper, SalesChat, EvidenceQueries, FiniteSetTheorems, SequenceTheorems,
        TLAPS

(***************************************************************************)
(* LogShipper, for any log, batch, number of attempts and faults.          *)
(* The argument: the lines in memory are different lines, read in the      *)
(* order of the log (MemoryOK), so no two posts share a line unless one    *)
(* is repeated; a line still in memory was received only in posts whose    *)
(* acknowledgement was lost (ReceivedOK).                                  *)
(***************************************************************************)

Increasing(lines) == \A i, j \in DOMAIN lines : i < j => lines[i] < lines[j]

(* Where the agent stands in the log. *)
FileOK ==
    /\ fileBase <= written /\ readTo <= written /\ handleEnd <= written
    /\ handle = "renamed" => readTo <= handleEnd
    /\ handle \in {"current", "renamed"} => offsetPos <= readTo

(* The lines in memory are different lines that have been read. *)
MemoryOK ==
    /\ handle = "none" => buffer = <<>> /\ inFlight = <<>>
    /\ Increasing(buffer)
    /\ \A l \in InMemory : l <= readTo
    /\ sliced => Range(buffer) \cap Range(inFlight) = {}
    /\ Posting /\ ~sliced => inFlight = buffer
    /\ ~Posting => inFlight = <<>> /\ ~sliced /\ attempts = 0

(* A line in memory has been received only under lost acknowledgements, and *)
(* a line beyond the position not at all.                                   *)
ReceivedOK ==
    \A l \in Lines :
        /\ received[l] <= 1 + shipFaults.acks
        /\ l \in InMemory => received[l] <= shipFaults.acks
        /\ received[l] > 0 => l <= written
        /\ received[l] > 0 /\ handle # "none" => l <= readTo

ShipperInv == ShipperTypeOK /\ FileOK /\ MemoryOK /\ ReceivedOK

ShipFaults == [rotations : 0..MaxRotations, acks : 0..MaxLostAcks, kills : 0..MaxKills]

LEMMA ShipperTypes ==
    ASSUME ShipperTypeOK
    PROVE  /\ MaxLines \in Nat
           /\ \A n \in 0..MaxLines : n \in Nat
           /\ written \in Nat /\ fileBase \in Nat /\ readTo \in Nat /\ handleEnd \in Nat
           /\ offsetPos \in Nat
           /\ Lines \subseteq Nat
           /\ Range(buffer) \subseteq Lines /\ Range(inFlight) \subseteq Lines
           /\ shipFaults \in ShipFaults
           /\ shipFaults.acks \in Nat
           /\ \A l \in Lines : received[l] \in Nat
<1>1. MaxLines \in Nat /\ MaxLostAcks \in Nat
  BY ShipperAssumption
<1>2. \A n \in 0..MaxLines : n \in Nat
  BY <1>1
<1>3. shipFaults \in ShipFaults /\ shipFaults.acks \in Nat
  BY <1>1 DEF ShipperTypeOK, ShipFaults
<1>4. Range(buffer) \subseteq Lines /\ Range(inFlight) \subseteq Lines
  BY DEF ShipperTypeOK, Range
<1>5. Lines \subseteq Nat
  BY <1>1 DEF Lines
<1>6. QED
  BY <1>1, <1>2, <1>3, <1>4, <1>5 DEF ShipperTypeOK

LEMMA EmptyRange == Range(<<>>) = {}
  BY DEF Range

LEMMA InitShipperInv == ShipperInit => ShipperInv
<1> SUFFICES ASSUME ShipperInit PROVE ShipperInv
  OBVIOUS
<1>1. ShipperTypeOK
  <2>1. /\ MaxLines \in Nat /\ MaxRotations \in Nat /\ MaxLostAcks \in Nat /\ MaxKills \in Nat
        /\ ShipAttempts \in Nat \ {0}
    BY ShipperAssumption
  <2>2. 0 \in 0..MaxLines /\ 0 \in 0..ShipAttempts - 1 /\ shipFaults \in ShipFaults
    BY <2>1 DEF ShipperInit, ShipFaults
  <2>3. <<>> \in Seq(Lines) /\ received \in [Lines -> Nat]
    BY DEF ShipperInit
  <2>4. QED
    BY <2>2, <2>3 DEF ShipperInit, ShipperTypeOK, ShipFaults
<1>2. InMemory = {}
  BY EmptyRange DEF ShipperInit, InMemory
<1>3. QED
  BY <1>1, <1>2, ShipperTypes DEF ShipperInit, ShipperInv, FileOK, MemoryOK, ReceivedOK,
     Increasing, Posting

-----------------------------------------------------------------------------
(* The log and the handle. *)

LEMMA WriteLineInv == ASSUME ShipperInv, WriteLine PROVE ShipperInv'
<1>1. /\ written < MaxLines /\ written' = written + 1
      /\ UNCHANGED <<fileBase, handle, handleEnd, readTo, offsetPos, buffer, inFlight, sliced,
                     attempts, shipper, stopping, received, lostLines, shipFaults>>
  BY DEF WriteLine, fileVars, postVars, historyVars
<1>2. written' \in 0..MaxLines
  BY <1>1, ShipperTypes DEF ShipperInv, ShipperTypeOK
<1>3. ShipperTypeOK'
  BY <1>1, <1>2 DEF ShipperInv, ShipperTypeOK
<1>4. FileOK'
  BY <1>1, ShipperTypes DEF ShipperInv, FileOK
<1>5. MemoryOK'
  BY <1>1 DEF ShipperInv, MemoryOK, InMemory, Posting, Increasing
<1>6. ReceivedOK'
  BY <1>1, ShipperTypes DEF ShipperInv, ReceivedOK, InMemory
<1>7. QED
  BY <1>3, <1>4, <1>5, <1>6 DEF ShipperInv

LEMMA RotateLogInv == ASSUME ShipperInv, RotateLog PROVE ShipperInv'
<1>1. /\ shipFaults.rotations < MaxRotations
      /\ shipFaults' = [shipFaults EXCEPT !.rotations = @ + 1]
      /\ fileBase' = written
      /\ IF handle = "current"
         THEN handle' = "renamed" /\ handleEnd' = written
         ELSE handle' = handle /\ handleEnd' = handleEnd
      /\ UNCHANGED <<written, readTo, offsetPos, buffer, inFlight, sliced, attempts, shipper,
                     stopping, received, lostLines>>
  BY DEF RotateLog, postVars
<1>2. shipFaults' \in ShipFaults /\ shipFaults'.acks = shipFaults.acks
  BY <1>1, ShipperTypes, ShipperAssumption DEF ShipperInv, ShipFaults
<1>3. ShipperTypeOK'
  BY <1>1, <1>2 DEF ShipperInv, ShipperTypeOK, ShipFaults
<1>4. FileOK'
  BY <1>1, ShipperTypes DEF ShipperInv, FileOK
<1>5. MemoryOK'
  BY <1>1 DEF ShipperInv, MemoryOK, InMemory, Posting, Increasing
<1>6. ReceivedOK'
  BY <1>1, <1>2 DEF ShipperInv, ReceivedOK, InMemory
<1>7. QED
  BY <1>3, <1>4, <1>5, <1>6 DEF ShipperInv

LEMMA OpenLogInv == ASSUME ShipperInv, OpenLog PROVE ShipperInv'
<1>1. /\ handle = "none" /\ handle' = "current" /\ readTo' = written /\ offsetPos' = FileSize
      /\ UNCHANGED <<written, fileBase, handleEnd, buffer, inFlight, sliced, attempts, shipper,
                     stopping, received, lostLines, shipFaults>>
  BY DEF OpenLog, logVars, postVars, historyVars
<1>2. buffer = <<>> /\ inFlight = <<>> /\ InMemory = {}
  BY <1>1, EmptyRange DEF ShipperInv, MemoryOK, InMemory
<1>3. FileSize \in 0..MaxLines /\ FileSize <= written
  BY ShipperTypes DEF ShipperInv, ShipperTypeOK, FileOK, FileSize
<1>4. ShipperTypeOK'
  BY <1>1, <1>3 DEF ShipperInv, ShipperTypeOK
<1>5. FileOK'
  BY <1>1, <1>3, ShipperTypes DEF ShipperInv, FileOK
<1>6. MemoryOK'
  BY <1>1, <1>2 DEF ShipperInv, MemoryOK, InMemory, Posting, Increasing
<1>7. ReceivedOK'
  BY <1>1 DEF ShipperInv, ReceivedOK, InMemory
<1>8. QED
  BY <1>4, <1>5, <1>6, <1>7 DEF ShipperInv

LEMMA SeeRotationInv == ASSUME ShipperInv, SeeRotation PROVE ShipperInv'
<1>1. /\ handle # "none" /\ handle' = "closed" /\ offsetPos' = FileSize
      /\ shipper = "read" /\ shipper' = "flush"
      /\ UNCHANGED <<written, fileBase, handleEnd, readTo, buffer, inFlight, sliced, attempts,
                     stopping, received, lostLines, shipFaults>>
  BY DEF SeeRotation, AtTop, logVars, postVars, historyVars
<1>2. FileSize \in 0..MaxLines
  BY ShipperTypes DEF ShipperInv, ShipperTypeOK, FileOK, FileSize
<1>3. ShipperTypeOK'
  BY <1>1, <1>2 DEF ShipperInv, ShipperTypeOK
<1>4. FileOK' /\ MemoryOK' /\ ReceivedOK'
  BY <1>1 DEF ShipperInv, FileOK, MemoryOK, ReceivedOK, InMemory, Posting, Increasing
<1>5. QED
  BY <1>3, <1>4 DEF ShipperInv

(* What a read appends: the lines after the position, in order. *)
LEMMA ReadAppends ==
    ASSUME NEW b \in Seq(Lines), NEW from \in 0..MaxLines, NEW last \in from..MaxLines,
           MaxLines \in Nat,
           Increasing(b), \A l \in Range(b) : l <= from
    PROVE  LET more == b \o LinesFrom(from + 1, last)
           IN  /\ more \in Seq(Lines)
               /\ Increasing(more)
               /\ Range(more) = Range(b) \cup ((from + 1)..last)
<1> DEFINE new == LinesFrom(from + 1, last)
           n == last - from
           more == b \o new
<1>1. n \in Nat /\ new = [i \in 1..n |-> from + i] /\ from \in Nat /\ last \in Nat
  BY DEF LinesFrom
<1>2. new \in Seq(Lines) /\ Len(new) = n /\ \A i \in 1..n : new[i] = from + i
  <2>1. \A i \in 1..n : from + i \in Lines
    BY <1>1 DEF Lines
  <2> HIDE DEF new, n
  <2>2. QED
    BY <1>1, <2>1
<1>3. Len(b) \in Nat /\ DOMAIN b = 1..Len(b) /\ \A i \in 1..Len(b) : b[i] \in Nat /\ b[i] <= from
  BY DEF Lines, Range
<1> HIDE DEF new, n
<1>4. /\ more \in Seq(Lines) /\ Len(more) = Len(b) + n
      /\ DOMAIN more = 1..(Len(b) + n)
      /\ \A i \in 1..(Len(b) + n) :
            more[i] = IF i <= Len(b) THEN b[i] ELSE new[i - Len(b)]
  BY <1>1, <1>2, <1>3
<1>5. \A i \in 1..(Len(b) + n) : i > Len(b) => more[i] = from + (i - Len(b))
  BY <1>1, <1>2, <1>3, <1>4
<1> HIDE DEF more
<1>6. Increasing(more)
  <2> SUFFICES ASSUME NEW i \in 1..(Len(b) + n), NEW j \in 1..(Len(b) + n), i < j
               PROVE  more[i] < more[j]
    BY <1>4 DEF Increasing
  <2>1. CASE j <= Len(b)
    <3>0. i \in 1..Len(b) /\ j \in 1..Len(b)
      BY <1>1, <1>3, <2>1
    <3>1. i \in 1..Len(b) /\ j \in 1..Len(b) /\ b[i] < b[j]
      BY <1>3, <3>0 DEF Increasing
    <3>2. i <= Len(b) /\ more[i] = b[i] /\ more[j] = b[j]
      BY <1>4, <2>1, <3>1
    <3>3. QED
      BY <3>1, <3>2
  <2>2. CASE i <= Len(b) /\ j > Len(b)
    <3>1. i \in 1..Len(b) /\ more[i] = b[i] /\ b[i] \in Nat /\ b[i] <= from
      BY <1>3, <1>4, <2>2
    <3>2. more[j] = from + (j - Len(b)) /\ j - Len(b) > 0
      BY <1>1, <1>3, <1>5, <2>2
    <3>3. QED
      BY <1>1, <1>3, <3>1, <3>2
  <2>3. CASE i > Len(b)
    <3>1. j > Len(b)
      BY <1>1, <1>3, <2>3
    <3>2. more[i] = from + (i - Len(b)) /\ more[j] = from + (j - Len(b))
      BY <1>5, <2>3, <3>1
    <3>3. QED
      BY <1>1, <1>3, <3>2
  <2>4. QED
    BY <1>1, <1>3, <2>1, <2>2, <2>3
<1>7. Range(more) = Range(b) \cup ((from + 1)..last)
  <2>1. ASSUME NEW l \in Range(more) PROVE l \in Range(b) \cup ((from + 1)..last)
    <3>1. PICK i \in 1..(Len(b) + n) : l = more[i]
      BY <1>4 DEF Range
    <3>2. CASE i <= Len(b)
      BY <1>3, <1>4, <3>1, <3>2 DEF Range
    <3>3. CASE i > Len(b)
      <4>1. l = from + (i - Len(b)) /\ i - Len(b) \in 1..n
        BY <1>1, <1>3, <1>5, <3>1, <3>3
      <4>2. QED
        BY <1>1, <4>1 DEF n
    <3>4. QED
      BY <1>1, <1>3, <3>2, <3>3
  <2>2. ASSUME NEW l \in Range(b) PROVE l \in Range(more)
    <3>1. PICK i \in 1..Len(b) : l = b[i]
      BY <1>3 DEF Range
    <3>2. i \in 1..(Len(b) + n) /\ more[i] = l
      BY <1>1, <1>3, <1>4, <3>1
    <3>3. QED
      BY <1>4, <3>2 DEF Range
  <2>3. ASSUME NEW l \in (from + 1)..last PROVE l \in Range(more)
    <3>1. l - from \in 1..n
      BY <1>1, <2>3 DEF n
    <3>2. /\ Len(b) + (l - from) \in 1..(Len(b) + n)
          /\ Len(b) + (l - from) > Len(b)
          /\ from + ((Len(b) + (l - from)) - Len(b)) = l
      BY <1>1, <1>3, <2>3, <3>1
    <3>3. more[Len(b) + (l - from)] = l
      BY <1>5, <3>2
    <3>4. QED
      BY <1>4, <3>2, <3>3 DEF Range
  <2>4. QED
    BY <2>1, <2>2, <2>3
<1>8. QED
  BY <1>4, <1>6, <1>7 DEF more, new

LEMMA ReadNewLinesInv == ASSUME ShipperInv, ReadNewLines PROVE ShipperInv'
<1> DEFINE last == IF handle = "current" THEN written ELSE handleEnd
<1>1. /\ shipper = "read" /\ handle \in {"current", "renamed"} /\ shipper' = "flush"
      /\ buffer' = buffer \o LinesFrom(readTo + 1, last)
      /\ offsetPos' = offsetPos + last - readTo
      /\ readTo' = last
      /\ UNCHANGED <<written, fileBase, handle, handleEnd, inFlight, sliced, attempts, stopping,
                     received, lostLines, shipFaults>>
  BY DEF ReadNewLines, AtTop, logVars, postVars, historyVars
<1>2. /\ last \in 0..MaxLines /\ last \in readTo..MaxLines /\ last <= written
      /\ readTo \in 0..MaxLines /\ offsetPos <= readTo
      /\ last \in Nat /\ readTo \in Nat /\ offsetPos \in Nat /\ MaxLines \in Nat
  BY <1>1, ShipperTypes DEF ShipperInv, ShipperTypeOK, FileOK
<1> HIDE DEF last
<1>3. /\ buffer \in Seq(Lines) /\ Increasing(buffer)
      /\ \A l \in Range(buffer) : l <= readTo
  BY DEF ShipperInv, ShipperTypeOK, MemoryOK, InMemory
<1>4. /\ buffer' \in Seq(Lines) /\ Increasing(buffer')
      /\ Range(buffer') = Range(buffer) \cup ((readTo + 1)..last)
  BY <1>1, <1>2, <1>3, ReadAppends
<1>5. inFlight = <<>> /\ inFlight' = <<>> /\ ~sliced' /\ ~Posting' /\ attempts' = 0
  BY <1>1 DEF ShipperInv, MemoryOK, Posting
<1>6. InMemory = Range(buffer) /\ InMemory' = Range(buffer) \cup ((readTo + 1)..last)
  BY <1>4, <1>5, EmptyRange DEF InMemory
<1>7. ShipperTypeOK'
  <2>1. offsetPos' \in 0..MaxLines
    BY <1>1, <1>2
  <2>2. QED
    BY <1>1, <1>2, <1>4, <2>1 DEF ShipperInv, ShipperTypeOK
<1>8. FileOK'
  <2>1. offsetPos' <= readTo' /\ readTo' <= written'
    BY <1>1, <1>2
  <2>2. handle = "renamed" => last = handleEnd
    BY DEF last
  <2>3. QED
    BY <1>1, <2>1, <2>2, <1>2 DEF ShipperInv, FileOK
<1>9. \A l \in InMemory' : l <= readTo'
  <2>1. Range(buffer) \subseteq Nat
    BY ShipperTypes DEF ShipperInv
  <2>2. QED
    BY <1>1, <1>2, <1>3, <1>6, <2>1
<1>10. MemoryOK'
  BY <1>1, <1>4, <1>5, <1>9 DEF MemoryOK, Increasing
<1>11. ReceivedOK'
  <2> SUFFICES ASSUME NEW l \in Lines
               PROVE  /\ received[l] <= 1 + shipFaults.acks
                      /\ l \in InMemory' => received[l] <= shipFaults.acks
                      /\ received[l] > 0 => l <= written
                      /\ received[l] > 0 => l <= last
    BY <1>1 DEF ReceivedOK
  <2>1. /\ received[l] <= 1 + shipFaults.acks
        /\ l \in InMemory => received[l] <= shipFaults.acks
        /\ received[l] > 0 => l <= written /\ l <= readTo
        /\ received[l] \in Nat /\ shipFaults.acks \in Nat /\ l \in Nat
    BY <1>1, ShipperTypes DEF ShipperInv, ReceivedOK
  <2>2. QED
    BY <1>2, <1>6, <2>1
<1>12. QED
  BY <1>7, <1>8, <1>10, <1>11 DEF ShipperInv

-----------------------------------------------------------------------------
(* Batches. *)

LEMMA SliceProperties ==
    ASSUME NEW b \in Seq(Lines), Increasing(b), NEW n \in 1..Len(b), Lines \subseteq Nat
    PROVE  LET taken == SubSeq(b, 1, n)
               rest == SubSeq(b, n + 1, Len(b))
           IN  /\ taken \in Seq(Lines) /\ rest \in Seq(Lines)
               /\ Increasing(rest)
               /\ Range(taken) \subseteq Range(b) /\ Range(rest) \subseteq Range(b)
               /\ Range(rest) \cap Range(taken) = {}
<1> DEFINE taken == SubSeq(b, 1, n)
           rest == SubSeq(b, n + 1, Len(b))
           m == Len(b) - n
<1>1. /\ Len(b) \in Nat /\ DOMAIN b = 1..Len(b) /\ n \in Nat /\ n <= Len(b) /\ m \in Nat
      /\ \A i \in 1..Len(b) : b[i] \in Lines
      /\ \A i, j \in 1..Len(b) : i < j => b[i] < b[j]
  BY DEF Increasing
<1>2. /\ taken \in Seq(Lines) /\ DOMAIN taken = 1..n /\ \A i \in 1..n : taken[i] = b[i]
  <2>1. taken = [i \in 1..n |-> b[i]]
    BY <1>1
  <2>2. \A i \in 1..n : b[i] \in Lines
    BY <1>1
  <2> HIDE DEF taken
  <2>3. QED
    BY <1>1, <2>1, <2>2
<1>3. /\ rest \in Seq(Lines) /\ DOMAIN rest = 1..m /\ \A i \in 1..m : rest[i] = b[n + i]
  <2>1. rest = [i \in 1..m |-> b[n + i]]
    <3>1. rest = [i \in 1..m |-> b[(n + 1) + i - 1]]
      BY <1>1
    <3>2. \A i \in 1..m : (n + 1) + i - 1 = n + i
      BY <1>1
    <3>3. QED
      BY <3>1, <3>2
  <2>2. \A i \in 1..m : b[n + i] \in Lines
    BY <1>1
  <2> HIDE DEF rest, m
  <2>3. QED
    BY <1>1, <2>1, <2>2
<1>4. \A i \in 1..m : n + i \in 1..Len(b) /\ n + i > n
  BY <1>1
<1> HIDE DEF taken, rest, m
<1>5. Increasing(rest)
  BY <1>1, <1>3, <1>4 DEF Increasing
<1>6. Range(taken) \subseteq Range(b)
  BY <1>1, <1>2 DEF Range
<1>7. Range(rest) \subseteq Range(b)
  BY <1>1, <1>3, <1>4 DEF Range
<1>8. Range(rest) \cap Range(taken) = {}
  <2> SUFFICES ASSUME NEW i \in 1..m, NEW j \in 1..n, rest[i] = taken[j]
               PROVE  FALSE
    BY <1>2, <1>3 DEF Range
  <2>1. b[n + i] = b[j]
    BY <1>2, <1>3
  <2>2. n + i \in 1..Len(b) /\ n + i > n
    BY <1>4
  <2>3. j < n + i /\ j \in 1..Len(b)
    BY <1>1, <2>2
  <2>4. b[j] < b[n + i] /\ b[j] \in Nat
    BY <1>1, <2>2, <2>3
  <2>5. QED
    BY <2>1, <2>4
<1>9. QED
  BY <1>2, <1>3, <1>5, <1>6, <1>7, <1>8 DEF taken, rest

(* A step that only moves lines within the memory, or takes them out. *)
LEMMA MemoryMoves ==
    ASSUME ShipperInv, ShipperTypeOK', MemoryOK',
           InMemory' \subseteq InMemory,
           UNCHANGED <<written, fileBase, handle, handleEnd, readTo, offsetPos, received,
                       shipFaults>>
    PROVE  ShipperInv'
<1>1. FileOK'
  BY DEF ShipperInv, FileOK
<1>2. ReceivedOK'
  BY DEF ShipperInv, ReceivedOK
<1>3. QED
  BY <1>1, <1>2 DEF ShipperInv

LEMMA TakeBatchInv == ASSUME ShipperInv, TakeBatch PROVE ShipperInv'
<1>1. /\ shipper = "flush" /\ Len(buffer) >= ShipBatch
      /\ inFlight' = SubSeq(buffer, 1, ShipBatch)
      /\ buffer' = SubSeq(buffer, ShipBatch + 1, Len(buffer))
      /\ sliced' = TRUE /\ shipper' = "post"
      /\ UNCHANGED <<written, fileBase, handle, handleEnd, readTo, offsetPos, attempts, stopping,
                     received, lostLines, shipFaults>>
  BY DEF TakeBatch, logVars, fileVars, historyVars
<1>2. buffer \in Seq(Lines) /\ Increasing(buffer) /\ ShipBatch \in 1..Len(buffer)
  <2>1. buffer \in Seq(Lines) /\ Increasing(buffer)
    BY DEF ShipperInv, ShipperTypeOK, MemoryOK
  <2>2. ShipBatch \in Nat \ {0} /\ Len(buffer) \in Nat
    BY <2>1, ShipperAssumption
  <2>3. QED
    BY <1>1, <2>1, <2>2
<1>3. /\ inFlight' \in Seq(Lines) /\ buffer' \in Seq(Lines) /\ Increasing(buffer')
      /\ Range(inFlight') \subseteq Range(buffer) /\ Range(buffer') \subseteq Range(buffer)
      /\ Range(buffer') \cap Range(inFlight') = {}
  BY <1>1, <1>2, ShipperTypes, SliceProperties DEF ShipperInv
<1>4. handle # "none"
  BY <1>2 DEF ShipperInv, MemoryOK
<1>5. ShipperTypeOK'
  BY <1>1, <1>3 DEF ShipperInv, ShipperTypeOK
<1>6. InMemory' \subseteq InMemory
  BY <1>3 DEF InMemory
<1>7. MemoryOK'
  BY <1>1, <1>3, <1>4, <1>6 DEF ShipperInv, MemoryOK, Posting, Increasing
<1>8. QED
  BY <1>1, <1>5, <1>6, <1>7, MemoryMoves

LEMMA TakeWholeInv == ASSUME ShipperInv, TakeAll \/ FinalFlush PROVE ShipperInv'
<1>1. /\ shipper \in {"flush", "read"} /\ inFlight' = buffer /\ sliced' = FALSE
      /\ shipper' \in {"read", "ended", "post", "final"}
      /\ shipper' \in {"read", "ended"} => buffer = <<>>
      /\ UNCHANGED <<written, fileBase, handle, handleEnd, readTo, offsetPos, buffer, attempts,
                     stopping, received, lostLines, shipFaults>>
  BY DEF TakeAll, FinalFlush, logVars, fileVars, historyVars
<1>2. ShipperTypeOK'
  BY <1>1 DEF ShipperInv, ShipperTypeOK
<1>3. InMemory' \subseteq InMemory
  BY <1>1 DEF InMemory
<1>4. MemoryOK'
  BY <1>1, <1>3 DEF ShipperInv, MemoryOK, Posting, Increasing
<1>5. QED
  BY <1>1, <1>2, <1>3, <1>4, MemoryMoves

-----------------------------------------------------------------------------
(* Posts. *)

(* What each line's count may become when a post ends or is repeated. *)
LEMMA ReceivedTypes ==
    ASSUME ShipperInv, ServerReceives \/ received' = received
    PROVE  /\ received' \in [Lines -> Nat]
           /\ \A l \in Lines :
                 /\ received'[l] >= received[l]
                 /\ received'[l] <= received[l] + 1
                 /\ l \notin Range(inFlight) => received'[l] = received[l]
<1>1. CASE ServerReceives
  BY <1>1, ShipperTypes DEF ShipperInv, ServerReceives
<1>2. CASE received' = received
  BY <1>2, ShipperTypes DEF ShipperInv, ShipperTypeOK
<1>3. QED
  BY <1>1, <1>2

LEMMA AtMostOneMore ==
    ASSUME NEW before \in Nat, NEW after \in Nat, NEW lost \in Nat, NEW lostThen \in Nat,
           before <= lost, after <= before + 1, lostThen = lost \/ lostThen = lost + 1
    PROVE  after <= 1 + lostThen
  OBVIOUS

(* The end of an attempt: the lines in flight may be received once more,    *)
(* and stay in memory only if an acknowledgement was lost.                  *)
LEMMA PostEndsInv ==
    ASSUME ShipperInv, Posting,
           ServerReceives \/ received' = received,
           \/ shipFaults'.acks = shipFaults.acks /\ InMemory' \cap Range(inFlight) = {}
           \/ shipFaults'.acks = shipFaults.acks + 1
           \/ shipFaults'.acks = shipFaults.acks /\ received' = received,
           shipFaults' \in ShipFaults,
           lostLines' \subseteq Lines,
           MemoryOK', InMemory' \subseteq InMemory,
           buffer' \in Seq(Lines), inFlight' \in Seq(Lines), sliced' \in BOOLEAN,
           attempts' \in 0..ShipAttempts - 1,
           shipper' \in {"read", "flush", "post", "final", "ended"},
           UNCHANGED <<written, fileBase, handle, handleEnd, readTo, offsetPos, stopping>>
    PROVE  ShipperInv'
<1>1. ShipperTypeOK'
  BY ReceivedTypes DEF ShipperInv, ShipperTypeOK, ShipFaults
<1>2. FileOK'
  BY DEF ShipperInv, FileOK
<1>3. shipFaults'.acks = shipFaults.acks \/ shipFaults'.acks = shipFaults.acks + 1
  OBVIOUS
<1>4. ASSUME NEW l \in Lines
      PROVE  /\ received'[l] <= 1 + shipFaults'.acks
             /\ l \in InMemory' => received'[l] <= shipFaults'.acks
             /\ received'[l] > 0 => l <= written
             /\ received'[l] > 0 /\ handle # "none" => l <= readTo
  <2>1. /\ received[l] \in Nat /\ received'[l] \in Nat /\ shipFaults.acks \in Nat
        /\ l \in Nat /\ written \in Nat /\ readTo \in Nat /\ readTo <= written
        /\ shipFaults'.acks \in Nat
    <3>1. received[l] \in Nat /\ received'[l] \in Nat
      BY <1>1 DEF ShipperInv, ShipperTypeOK
    <3>2. shipFaults.acks \in Nat /\ l \in Nat /\ written \in Nat /\ readTo \in Nat
      BY ShipperTypes DEF ShipperInv
    <3>3. readTo <= written
      BY DEF ShipperInv, FileOK
    <3>4. shipFaults'.acks \in Nat
      BY ShipperAssumption DEF ShipFaults
    <3>5. QED
      BY <3>1, <3>2, <3>3, <3>4
  <2>2. /\ received[l] <= 1 + shipFaults.acks
        /\ l \in InMemory => received[l] <= shipFaults.acks /\ l <= readTo
        /\ received[l] > 0 => l <= written
        /\ received[l] > 0 /\ handle # "none" => l <= readTo
    BY DEF ShipperInv, ReceivedOK, MemoryOK
  <2>3. /\ received'[l] >= received[l] /\ received'[l] <= received[l] + 1
        /\ l \notin Range(inFlight) => received'[l] = received[l]
        /\ l \in Range(inFlight) => l \in InMemory
    BY ReceivedTypes DEF InMemory
  <2>4. CASE l \in Range(inFlight)
    <3>1. received[l] <= shipFaults.acks /\ l <= readTo
      BY <2>2, <2>3, <2>4
    <3>2. \/ shipFaults'.acks = shipFaults.acks /\ l \notin InMemory'
          \/ shipFaults'.acks = shipFaults.acks + 1
          \/ shipFaults'.acks = shipFaults.acks /\ received'[l] = received[l]
      BY <2>4
    <3>3. received'[l] <= received[l] + 1
      BY <2>3
    <3>4. l \in InMemory' => received'[l] <= shipFaults'.acks
      BY <2>1, <3>1, <3>2, <3>3
    <3>5. received'[l] <= 1 + shipFaults'.acks
      BY <2>1, <3>1, <1>3, <3>3, AtMostOneMore
    <3>6. QED
      BY <2>1, <3>1, <3>4, <3>5
  <2>5. CASE l \notin Range(inFlight)
    <3>1. received'[l] = received[l]
      BY <2>3, <2>5
    <3>2. shipFaults.acks <= shipFaults'.acks
      BY <2>1, <1>3
    <3>3. l \in InMemory' => l \in InMemory
      OBVIOUS
    <3>4. QED
      BY <2>1, <2>2, <3>1, <3>2, <3>3
  <2>6. QED
    BY <2>4, <2>5
<1>5. ReceivedOK'
  BY <1>4 DEF ReceivedOK
<1>6. QED
  BY <1>1, <1>2, <1>5 DEF ShipperInv

(* PostOver, or the lines kept after an unreadable answer: nothing is in    *)
(* flight any more.                                                         *)
LEMMA PostOverMemory ==
    ASSUME ShipperInv, Posting,
           inFlight' = <<>>, attempts' = 0, sliced' = FALSE,
           shipper' = IF shipper = "final" THEN "ended" ELSE "read",
           buffer' \in {buffer, <<>>},
           UNCHANGED <<handle, readTo>>
    PROVE  /\ MemoryOK'
           /\ InMemory' \subseteq InMemory
           /\ buffer' \in Seq(Lines) /\ inFlight' \in Seq(Lines) /\ sliced' \in BOOLEAN
           /\ attempts' \in 0..ShipAttempts - 1
           /\ shipper' \in {"read", "flush", "post", "final", "ended"}
           /\ (buffer' = IF sliced THEN buffer ELSE <<>>) => InMemory' \cap Range(inFlight) = {}
<1>1. InMemory' = Range(buffer') /\ Range(<<>>) = {}
  BY EmptyRange DEF InMemory
<1>2. InMemory' \subseteq InMemory
  BY <1>1 DEF InMemory
<1>3. MemoryOK'
  BY <1>2 DEF ShipperInv, MemoryOK, Posting, Increasing
<1>4. (buffer' = IF sliced THEN buffer ELSE <<>>) => InMemory' \cap Range(inFlight) = {}
  BY <1>1 DEF ShipperInv, MemoryOK
<1>5. buffer' \in Seq(Lines) /\ inFlight' \in Seq(Lines) /\ sliced' \in BOOLEAN
  <2>1. buffer \in Seq(Lines) /\ <<>> \in Seq(Lines)
    BY DEF ShipperInv, ShipperTypeOK
  <2>2. buffer' \in Seq(Lines)
    BY <2>1
  <2>3. inFlight' \in Seq(Lines)
    BY <2>1
  <2>4. QED
    BY <2>2, <2>3
<1>6. attempts' \in 0..ShipAttempts - 1
  <2>1. ShipAttempts \in Nat \ {0}
    BY ShipperAssumption
  <2>2. QED
    BY <2>1
<1>7. shipper' \in {"read", "flush", "post", "final", "ended"}
  <2>1. CASE shipper = "final"
    BY <2>1
  <2>2. CASE shipper # "final"
    BY <2>2
  <2>3. QED
    BY <2>1, <2>2
<1>8. QED
  BY <1>2, <1>3, <1>4, <1>5, <1>6, <1>7

LEMMA LoseAckFaults ==
    ASSUME ShipperInv, LoseAck
    PROVE  shipFaults' \in ShipFaults /\ shipFaults'.acks = shipFaults.acks + 1
  BY ShipperTypes, ShipperAssumption DEF ShipperInv, LoseAck, ShipFaults

LEMMA PostAcknowledgedInv == ASSUME ShipperInv, PostAcknowledged PROVE ShipperInv'
<1>1. /\ Posting /\ ServerReceives /\ PostOver
      /\ UNCHANGED <<written, fileBase, handle, handleEnd, readTo, offsetPos, stopping, lostLines,
                     shipFaults>>
  BY DEF PostAcknowledged, logVars, fileVars
<1>2. /\ MemoryOK' /\ InMemory' \subseteq InMemory
      /\ buffer' \in Seq(Lines) /\ inFlight' \in Seq(Lines) /\ sliced' \in BOOLEAN
      /\ attempts' \in 0..ShipAttempts - 1
      /\ shipper' \in {"read", "flush", "post", "final", "ended"}
      /\ InMemory' \cap Range(inFlight) = {}
  BY <1>1, PostOverMemory DEF PostOver
<1>3. shipFaults' \in ShipFaults /\ shipFaults'.acks = shipFaults.acks /\ lostLines' \subseteq Lines
  BY <1>1, ShipperTypes DEF ShipperInv, ShipperTypeOK
<1>4. QED
  BY <1>1, <1>2, <1>3, PostEndsInv

LEMMA AnswerUnreadableInv == ASSUME ShipperInv, AnswerUnreadable PROVE ShipperInv'
<1>1. /\ Posting /\ ServerReceives /\ LoseAck
      /\ inFlight' = <<>> /\ attempts' = 0 /\ sliced' = FALSE
      /\ shipper' = (IF shipper = "final" THEN "ended" ELSE "read")
      /\ UNCHANGED <<written, fileBase, handle, handleEnd, readTo, offsetPos, buffer, stopping,
                     lostLines>>
  BY DEF AnswerUnreadable, logVars, fileVars
<1>2. /\ MemoryOK' /\ InMemory' \subseteq InMemory
      /\ buffer' \in Seq(Lines) /\ inFlight' \in Seq(Lines) /\ sliced' \in BOOLEAN
      /\ attempts' \in 0..ShipAttempts - 1
      /\ shipper' \in {"read", "flush", "post", "final", "ended"}
  BY <1>1, PostOverMemory
<1>3. shipFaults' \in ShipFaults /\ shipFaults'.acks = shipFaults.acks + 1 /\ lostLines' \subseteq Lines
  BY <1>1, LoseAckFaults DEF ShipperInv, ShipperTypeOK
<1>4. QED
  BY <1>1, <1>2, <1>3, PostEndsInv

LEMMA PostFailsInv == ASSUME ShipperInv, PostFails PROVE ShipperInv'
<1>1. /\ Posting
      /\ (ServerReceives /\ LoseAck) \/ (received' = received /\ shipFaults' = shipFaults)
      /\ UNCHANGED <<written, fileBase, handle, handleEnd, readTo, offsetPos, stopping>>
  BY DEF PostFails, logVars, fileVars
<1>2. /\ ServerReceives \/ received' = received
      /\ \/ shipFaults'.acks = shipFaults.acks + 1
         \/ shipFaults'.acks = shipFaults.acks /\ received' = received
      /\ shipFaults' \in ShipFaults
  BY <1>1, LoseAckFaults, ShipperTypes DEF ShipperInv
<1>3. CASE attempts + 1 < ShipAttempts
  <2>1. attempts' = attempts + 1 /\ UNCHANGED <<inFlight, sliced, shipper, buffer, lostLines>>
    BY <1>3 DEF PostFails
  <2>2. /\ buffer' \in Seq(Lines) /\ inFlight' \in Seq(Lines) /\ sliced' \in BOOLEAN
        /\ attempts' \in 0..ShipAttempts - 1 /\ lostLines' \subseteq Lines
        /\ shipper' \in {"read", "flush", "post", "final", "ended"}
    <3>1. attempts' \in 0..ShipAttempts - 1
      <4>1. ShipAttempts \in Nat /\ attempts \in 0..ShipAttempts - 1
        BY ShipperAssumption DEF ShipperInv, ShipperTypeOK
      <4>2. QED
        BY <1>3, <2>1, <4>1
    <3>2. buffer' \in Seq(Lines) /\ inFlight' \in Seq(Lines)
      BY <2>1 DEF ShipperInv, ShipperTypeOK
    <3>3. /\ sliced' \in BOOLEAN /\ lostLines' \subseteq Lines
          /\ shipper' \in {"read", "flush", "post", "final", "ended"}
      BY <2>1 DEF ShipperInv, ShipperTypeOK
    <3>4. QED
      BY <3>1, <3>2, <3>3
  <2>3. MemoryOK' /\ InMemory' \subseteq InMemory
    BY <1>1, <2>1 DEF ShipperInv, MemoryOK, InMemory, Posting, Increasing
  <2>4. QED
    BY <1>1, <1>2, <2>2, <2>3, PostEndsInv
<1>4. CASE ~(attempts + 1 < ShipAttempts)
  <2>1. PostOver /\ lostLines' = lostLines \cup Range(inFlight)
    BY <1>4 DEF PostFails
  <2>2. /\ MemoryOK' /\ InMemory' \subseteq InMemory
        /\ buffer' \in Seq(Lines) /\ inFlight' \in Seq(Lines) /\ sliced' \in BOOLEAN
        /\ attempts' \in 0..ShipAttempts - 1
        /\ shipper' \in {"read", "flush", "post", "final", "ended"}
    BY <1>1, <2>1, PostOverMemory DEF PostOver
  <2>3. lostLines' \subseteq Lines
    BY <2>1, ShipperTypes DEF ShipperInv, ShipperTypeOK
  <2>4. QED
    BY <1>1, <1>2, <2>2, <2>3, PostEndsInv
<1>5. QED
  BY <1>3, <1>4

LEMMA KillShipperInv == ASSUME ShipperInv, KillShipper PROVE ShipperInv'
<1>1. /\ shipFaults.kills < MaxKills /\ shipFaults' = [shipFaults EXCEPT !.kills = @ + 1]
      /\ ServerReceives \/ received' = received
      /\ lostLines' = lostLines \cup InMemory
      /\ handle' = "none" /\ handleEnd' = 0 /\ readTo' = 0 /\ offsetPos' = 0
      /\ buffer' = <<>> /\ inFlight' = <<>> /\ sliced' = FALSE /\ attempts' = 0
      /\ shipper' = "read" /\ stopping' = FALSE
      /\ written' = written /\ fileBase' = fileBase
  BY DEF KillShipper, logVars
<1>2. shipFaults' \in ShipFaults /\ shipFaults'.acks = shipFaults.acks
  <2>1. shipFaults \in ShipFaults /\ MaxKills \in Nat
    BY ShipperTypes, ShipperAssumption DEF ShipperInv
  <2>2. QED
    BY <1>1, <2>1 DEF ShipFaults
<1>3. InMemory' = {}
  BY <1>1, EmptyRange DEF InMemory
<1>4. ShipperTypeOK'
  <2>1. MaxLines \in Nat /\ ShipAttempts \in Nat \ {0}
    BY ShipperAssumption
  <2>2. lostLines \subseteq Lines /\ InMemory \subseteq Lines
    BY ShipperTypes DEF ShipperInv, ShipperTypeOK, InMemory
  <2>3. 0 \in 0..MaxLines /\ 0 \in 0..ShipAttempts - 1 /\ lostLines' \subseteq Lines
    BY <1>1, <2>1, <2>2
  <2>4. <<>> \in Seq(Lines) /\ received' \in [Lines -> Nat]
    BY <1>1, ReceivedTypes
  <2>5. QED
    BY <1>1, <1>2, <2>3, <2>4 DEF ShipperInv, ShipperTypeOK, ShipFaults
<1>5. FileOK' /\ MemoryOK'
  BY <1>1, <1>3, ShipperTypes DEF ShipperInv, FileOK, MemoryOK, Posting, Increasing
<1>6. ASSUME NEW l \in Lines
      PROVE  received'[l] <= 1 + shipFaults'.acks /\ (received'[l] > 0 => l <= written)
  <2>1. /\ received[l] \in Nat /\ received'[l] \in Nat /\ shipFaults.acks \in Nat
        /\ l \in Nat /\ written \in Nat /\ readTo \in Nat /\ readTo <= written
    BY <1>1, ShipperTypes, ReceivedTypes DEF ShipperInv, FileOK
  <2>2. /\ received[l] <= 1 + shipFaults.acks
        /\ l \in InMemory => received[l] <= shipFaults.acks /\ l <= readTo
        /\ received[l] > 0 => l <= written
    BY DEF ShipperInv, ReceivedOK, MemoryOK
  <2>3. /\ received'[l] <= received[l] + 1
        /\ l \notin Range(inFlight) => received'[l] = received[l]
        /\ l \in Range(inFlight) => l \in InMemory
    BY <1>1, ReceivedTypes DEF InMemory
  <2>4. QED
    BY <1>2, <2>1, <2>2, <2>3
<1>7. ReceivedOK'
  BY <1>1, <1>3, <1>6 DEF ReceivedOK
<1>8. QED
  BY <1>4, <1>5, <1>7 DEF ShipperInv

LEMMA NextShipperInv == ShipperInv /\ [ShipperNext]_shipVars => ShipperInv'
<1> SUFFICES ASSUME ShipperInv, [ShipperNext]_shipVars PROVE ShipperInv'
  OBVIOUS
<1>1. CASE StopShipper
  BY <1>1 DEF StopShipper, logVars, fileVars, postVars, historyVars, ShipperInv, ShipperTypeOK,
     FileOK, MemoryOK, ReceivedOK, InMemory, Posting, Increasing
<1>2. CASE UNCHANGED shipVars
  BY <1>2 DEF shipVars, logVars, fileVars, postVars, historyVars, ShipperInv, ShipperTypeOK,
     FileOK, MemoryOK, ReceivedOK, InMemory, Posting, Increasing
<1>3. QED
  BY <1>1, <1>2, WriteLineInv, RotateLogInv, OpenLogInv, SeeRotationInv, ReadNewLinesInv,
     TakeBatchInv, TakeWholeInv, PostAcknowledgedInv, PostFailsInv, AnswerUnreadableInv,
     KillShipperInv
  DEF ShipperNext, ShipperStep

(* The agent, the log and what the server has are always well formed. *)
THEOREM ShipperTypeCorrect == ShipperSpec => []ShipperTypeOK
<1>1. ShipperInv => ShipperTypeOK
  BY DEF ShipperInv
<1>2. QED
  BY InitShipperInv, NextShipperInv, <1>1, PTL DEF ShipperSpec

(* The server gets a line again only after a lost acknowledgement, for     *)
(* any log, taken, number of attempts, rotations and kills.                *)
THEOREM DeliveriesHold == ShipperSpec => []DeliveriesHaveACause
<1>1. ShipperInv => DeliveriesHaveACause
  BY DEF ShipperInv, ReceivedOK, DeliveriesHaveACause
<1>2. QED
  BY InitShipperInv, NextShipperInv, <1>1, PTL DEF ShipperSpec

(* What one step of the shipper does to a line in memory. *)
Kept(l) == l \in InMemory' \/ received'[l] > received[l] \/ l \in lostLines'

LEMMA SlicesCover ==
    ASSUME NEW b \in Seq(Lines), NEW n \in 1..Len(b)
    PROVE  Range(b) \subseteq Range(SubSeq(b, 1, n)) \cup Range(SubSeq(b, n + 1, Len(b)))
<1> DEFINE taken == SubSeq(b, 1, n)
           rest == SubSeq(b, n + 1, Len(b))
<1>1. Len(b) \in Nat /\ n \in Nat /\ n <= Len(b) /\ DOMAIN b = 1..Len(b)
  OBVIOUS
<1>2. DOMAIN taken = 1..n /\ \A i \in 1..n : taken[i] = b[i]
  BY <1>1
<1>3. DOMAIN rest = 1..(Len(b) - n) /\ \A i \in 1..(Len(b) - n) : rest[i] = b[n + i]
  <2>1. rest = [i \in 1..(Len(b) - n) |-> b[(n + 1) + i - 1]]
    BY <1>1
  <2>2. \A i \in 1..(Len(b) - n) : (n + 1) + i - 1 = n + i
    BY <1>1
  <2> HIDE DEF rest
  <2>3. QED
    BY <2>1, <2>2
<1> HIDE DEF taken, rest
<1>4. ASSUME NEW i \in 1..Len(b) PROVE b[i] \in Range(taken) \cup Range(rest)
  <2>1. CASE i <= n
    <3>1. i \in 1..n
      BY <1>1, <2>1
    <3>2. QED
      BY <1>2, <3>1 DEF Range
  <2>2. CASE ~(i <= n)
    <3>1. i - n \in 1..(Len(b) - n) /\ n + (i - n) = i
      BY <1>1, <2>2
    <3>2. rest[i - n] = b[i]
      BY <1>3, <3>1
    <3>3. QED
      BY <1>3, <3>1, <3>2 DEF Range
  <2>3. QED
    BY <2>1, <2>2
<1>5. QED
  BY <1>1, <1>4 DEF Range, taken, rest

(* A post ends by clearing what it held: all of it is in the post. *)
LEMMA PostOverLeaves ==
    ASSUME ShipperInv, Posting, PostOver, NEW l \in InMemory, l \notin InMemory'
    PROVE  l \in Range(inFlight)
  BY EmptyRange DEF ShipperInv, MemoryOK, PostOver, InMemory

LEMMA ReceivesOneMore ==
    ASSUME ShipperInv, ServerReceives, NEW l \in Range(inFlight)
    PROVE  received'[l] > received[l]
<1>1. l \in Lines /\ received[l] \in Nat
  BY ShipperTypes DEF ShipperInv
<1>2. received'[l] = received[l] + 1
  BY <1>1 DEF ServerReceives
<1>3. QED
  BY <1>1, <1>2

LEMMA StepKeepsLines ==
    ASSUME ShipperInv, [ShipperNext]_shipVars, NEW l \in InMemory
    PROVE  Kept(l)
<1>1. CASE WriteLine \/ RotateLog \/ StopShipper \/ OpenLog \/ SeeRotation \/ UNCHANGED shipVars
  BY <1>1 DEF WriteLine, RotateLog, StopShipper, OpenLog, SeeRotation, shipVars, postVars,
     Kept, InMemory
<1>2. CASE KillShipper
  BY <1>2 DEF KillShipper, Kept
<1>3. CASE ReadNewLines
  <2>1. PICK last \in {written, handleEnd} :
           /\ last = (IF handle = "current" THEN written ELSE handleEnd)
           /\ buffer' = buffer \o LinesFrom(readTo + 1, last)
           /\ inFlight' = inFlight
    BY <1>3 DEF ReadNewLines, postVars
  <2>2. handle \in {"current", "renamed"}
    BY <1>3 DEF ReadNewLines
  <2>3. readTo \in 0..MaxLines /\ last \in readTo..MaxLines
    <3>1. /\ MaxLines \in Nat /\ readTo \in 0..MaxLines /\ written \in 0..MaxLines
          /\ handleEnd \in 0..MaxLines /\ readTo <= written
          /\ handle = "renamed" => readTo <= handleEnd
      BY ShipperAssumption DEF ShipperInv, ShipperTypeOK, FileOK
    <3>2. QED
      BY <2>1, <2>2, <3>1
  <2>4. /\ MaxLines \in Nat /\ buffer \in Seq(Lines) /\ Increasing(buffer)
        /\ \A k \in Range(buffer) : k <= readTo
    BY ShipperAssumption DEF ShipperInv, ShipperTypeOK, MemoryOK, InMemory
  <2>5. Range(buffer') = Range(buffer) \cup ((readTo + 1)..last)
    BY <2>1, <2>3, <2>4, ReadAppends
  <2>6. QED
    BY <2>1, <2>5 DEF Kept, InMemory
<1>4. CASE TakeBatch
  <2>1. /\ inFlight = <<>> /\ buffer \in Seq(Lines) /\ ShipBatch \in 1..Len(buffer)
        /\ inFlight' = SubSeq(buffer, 1, ShipBatch)
        /\ buffer' = SubSeq(buffer, ShipBatch + 1, Len(buffer))
    <3>1. inFlight = <<>> /\ buffer \in Seq(Lines)
      BY <1>4 DEF ShipperInv, ShipperTypeOK, MemoryOK, Posting, TakeBatch
    <3>2. ShipBatch \in Nat \ {0} /\ Len(buffer) \in Nat /\ Len(buffer) >= ShipBatch
      BY <1>4, <3>1, ShipperAssumption DEF TakeBatch
    <3>3. QED
      BY <1>4, <3>1, <3>2 DEF TakeBatch
  <2>2. Range(buffer) \subseteq Range(inFlight') \cup Range(buffer')
    BY <2>1, SlicesCover
  <2>3. l \in Range(buffer)
    BY <2>1, EmptyRange DEF InMemory
  <2>4. QED
    BY <2>2, <2>3 DEF Kept, InMemory
<1>5. CASE TakeAll \/ FinalFlush
  <2>1. inFlight = <<>> /\ buffer' = buffer
    BY <1>5 DEF ShipperInv, MemoryOK, Posting, TakeAll, FinalFlush
  <2>2. QED
    BY <2>1, EmptyRange DEF Kept, InMemory
<1>6. CASE PostAcknowledged
  BY <1>6, PostOverLeaves, ReceivesOneMore DEF PostAcknowledged, Kept
<1>7. CASE AnswerUnreadable
  <2>1. l \in Range(buffer) \/ l \in Range(inFlight)
    BY DEF InMemory
  <2>2. buffer' = buffer /\ ServerReceives
    BY <1>7 DEF AnswerUnreadable
  <2>3. QED
    BY <2>1, <2>2, ReceivesOneMore DEF Kept, InMemory
<1>8. CASE PostFails
  <2>1. CASE attempts + 1 < ShipAttempts
    BY <1>8, <2>1 DEF PostFails, Kept, InMemory
  <2>2. CASE ~(attempts + 1 < ShipAttempts)
    BY <1>8, <2>2, PostOverLeaves DEF PostFails, Kept
  <2>3. QED
    BY <2>1, <2>2
<1>9. QED
  BY <1>1, <1>2, <1>3, <1>4, <1>5, <1>6, <1>7, <1>8 DEF ShipperNext, ShipperStep

(* The agent forgets no line it has read, whatever it slices, clears and    *)
(* posts again: the safety half of ReadLinesLeave.                          *)
THEOREM LinesKept == ShipperSpec => LinesAreKept
<1>1. ShipperInv /\ [ShipperNext]_shipVars
        => [\A l \in InMemory :
               l \in InMemory' \/ received'[l] > received[l] \/ l \in lostLines']_shipVars
  BY StepKeepsLines DEF Kept
<1>2. QED
  BY InitShipperInv, NextShipperInv, <1>1, PTL DEF ShipperSpec, LinesAreKept

-----------------------------------------------------------------------------
(***************************************************************************)
(* SalesChat, for any sellers, calls and messages.                         *)
(* The argument: a paused conversation is answered only by calls that read *)
(* it before the pause; those calls (MayStillAnswer) and the answers sent  *)
(* since are never more than were under way at the pause.                  *)
(***************************************************************************)

ChatRows == [owner : Sellers, paused : BOOLEAN, stored : Nat]
LiveCalls(n) == [step : ChatSteps, manual : BOOLEAN, owner : Sellers, id : 0..n,
                 paused : BOOLEAN, read : Nat, context : SUBSET (1..HistoryLimit)]

(* A webhook beyond the row it holds; the AI is asked only of a row read as *)
(* not paused.                                                              *)
CallOK(c) ==
    /\ c.step \in {"save", "check", "history", "ask"} => ~c.manual
    /\ c.step \in {"history", "ask"} => ~c.paused
    /\ c.step \in {"save", "check", "history", "ask", "keep"} => c.id # 0

(* c may still answer in conversation i. *)
MayAnswer(c, i) ==
    /\ c.step \in {"save", "check", "history", "ask"}
    /\ c.id = i
    /\ ~c.paused
MayStillAnswer(i) == {q \in ChatCalls : MayAnswer(chatCall[q], i)}

ChatInv ==
    /\ ChatTypeOK
    /\ \A q \in ChatCalls : chatCall[q] # NoChatCall => CallOK(chatCall[q])
    /\ \A i \in DOMAIN convo :
          convo[i].paused => replied[i] + Cardinality(MayStillAnswer(i)) <= underWay[i]

LEMMA InitChatInv == ChatInit => ChatInv
  BY SalesChatAssumption DEF ChatInit, ChatInv, ChatTypeOK, NoChatCall

LEMMA MayStillAnswerFinite ==
    ASSUME NEW i
    PROVE  IsFiniteSet(MayStillAnswer(i)) /\ Cardinality(MayStillAnswer(i)) \in Nat
<1>1. MayStillAnswer(i) \subseteq ChatCalls
  BY DEF MayStillAnswer
<1>2. QED
  BY <1>1, SalesChatAssumption, FS_Subset, FS_CardinalityType

(* A call moves on and gets no right to answer in a paused conversation.    *)
LEMMA OneCallMoves ==
    ASSUME ChatInv, NEW q \in ChatCalls, NEW c,
           chatCall' = [chatCall EXCEPT ![q] = c],
           c \in LiveCalls(Len(convo')) \cup {NoChatCall},
           c # NoChatCall => CallOK(c),
           convo' \in Seq(ChatRows),
           Len(convo') >= Len(convo),
           \A i \in DOMAIN convo' :
              convo'[i].paused =>
                 /\ i \in DOMAIN convo /\ convo[i].paused
                 /\ c # NoChatCall /\ MayAnswer(c, i) => MayAnswer(chatCall[q], i),
           arrived' \in 0..MaxMessages,
           underWay' \in [DOMAIN convo' -> Nat],
           replied' \in [DOMAIN convo' -> Nat],
           \A i \in DOMAIN convo : underWay'[i] = underWay[i] /\ replied'[i] = replied[i]
    PROVE  ChatInv'
<1>1. chatCall \in [ChatCalls -> {NoChatCall} \cup LiveCalls(Len(convo))]
  BY DEF ChatInv, ChatTypeOK, LiveCalls
<1>2. chatCall' \in [ChatCalls -> {NoChatCall} \cup LiveCalls(Len(convo'))]
  <2>1. LiveCalls(Len(convo)) \subseteq LiveCalls(Len(convo'))
    <3>1. convo \in Seq(ChatRows)
      BY DEF ChatInv, ChatTypeOK, ChatRows
    <3>2. Len(convo) \in Nat /\ Len(convo') \in Nat
      BY <3>1
    <3>3. 0..Len(convo) \subseteq 0..Len(convo')
      BY <3>2
    <3>4. QED
      BY <3>3 DEF LiveCalls
  <2>2. QED
    BY <1>1, <2>1
<1>3. ChatTypeOK'
  BY <1>2 DEF ChatTypeOK, LiveCalls, ChatRows
<1>4. \A p \in ChatCalls : chatCall'[p] # NoChatCall => CallOK(chatCall'[p])
  BY <1>1 DEF ChatInv
<1>5. ASSUME NEW i \in DOMAIN convo', convo'[i].paused
      PROVE  replied'[i] + Cardinality(MayStillAnswer(i)') <= underWay'[i]
  <2>1. i \in DOMAIN convo /\ convo[i].paused
    BY <1>5
  <2>2. MayStillAnswer(i)' \subseteq MayStillAnswer(i)
    <3>1. ~MayAnswer(NoChatCall, i)
      BY DEF MayAnswer, NoChatCall
    <3>2. QED
      BY <1>1, <1>5, <3>1 DEF MayStillAnswer
  <2>3. /\ Cardinality(MayStillAnswer(i)') \in Nat
        /\ Cardinality(MayStillAnswer(i)') <= Cardinality(MayStillAnswer(i))
    BY <2>2, MayStillAnswerFinite, FS_Subset, FS_CardinalityType
  <2>4. /\ replied[i] + Cardinality(MayStillAnswer(i)) <= underWay[i]
        /\ replied[i] \in Nat /\ underWay[i] \in Nat
    BY <2>1 DEF ChatInv, ChatTypeOK
  <2>5. QED
    BY <2>1, <2>3, <2>4, MayStillAnswerFinite
<1>6. QED
  BY <1>3, <1>4, <1>5 DEF ChatInv

(* What ChatInv says of a call under way, in the form the steps use. *)
LEMMA CallTypes ==
    ASSUME ChatInv
    PROVE  /\ convo \in Seq(ChatRows)
           /\ Len(convo) \in Nat
           /\ DOMAIN convo = 1..Len(convo)
           /\ arrived \in 0..MaxMessages
           /\ underWay \in [DOMAIN convo -> Nat]
           /\ replied \in [DOMAIN convo -> Nat]
           /\ \A q \in ChatCalls :
                 chatCall[q] # NoChatCall => chatCall[q] \in LiveCalls(Len(convo)) /\ CallOK(chatCall[q])
           /\ \A q \in ChatCalls, step \in ChatSteps : AtStep(q, step) => chatCall[q] # NoChatCall
           /\ \A i \in DOMAIN convo : convo[i] \in ChatRows
<1>1. convo \in Seq(ChatRows)
  BY DEF ChatInv, ChatTypeOK, ChatRows
<1>2. \A q \in ChatCalls, step \in ChatSteps : AtStep(q, step) => chatCall[q] # NoChatCall
  BY DEF AtStep, NoChatCall, ChatSteps
<1>3. QED
  BY <1>1, <1>2 DEF ChatInv, ChatTypeOK, LiveCalls

LEMMA HoldingMoves ==
    ASSUME ChatInv, NEW q \in ChatCalls, NEW n \in Nat, n >= Len(convo), NEW i \in 1..n,
           NEW paused \in BOOLEAN,
           chatCall[q] \in LiveCalls(Len(convo))
    PROVE  /\ Holding(chatCall[q], i, paused) \in LiveCalls(n)
           /\ CallOK(Holding(chatCall[q], i, paused))
           /\ Holding(chatCall[q], i, paused).id = i
           /\ Holding(chatCall[q], i, paused).paused = paused
<1> DEFINE c == chatCall[q]
           s == IF c.manual THEN "keep" ELSE "save"
           h == [c EXCEPT !.step = s, !.id = i, !.paused = paused]
<1>1. c \in [step : ChatSteps, manual : BOOLEAN, owner : Sellers, id : 0..Len(convo),
             paused : BOOLEAN, read : Nat, context : SUBSET (1..HistoryLimit)]
  BY DEF LiveCalls
<1>2. s \in ChatSteps /\ i \in 0..n /\ (c.manual => s = "keep") /\ (s = "keep" => c.manual)
      /\ s \in {"save", "keep"}
  BY <1>1 DEF ChatSteps
<1> HIDE DEF c, s
<1>3. h \in [step : ChatSteps, manual : BOOLEAN, owner : Sellers, id : 0..n,
             paused : BOOLEAN, read : Nat, context : SUBSET (1..HistoryLimit)]
  BY <1>1, <1>2
<1>4. h.step = s /\ h.id = i /\ h.paused = paused /\ h.manual = c.manual
  BY <1>1
<1>5. CallOK(h)
  BY <1>2, <1>4 DEF CallOK
<1>6. h = Holding(c, i, paused)
  BY DEF Holding, s
<1>7. QED
  BY <1>3, <1>4, <1>5, <1>6 DEF LiveCalls, c

(* A step of one call that leaves the conversations alone. *)
LEMMA CallStepInv ==
    ASSUME ChatInv, NEW q \in ChatCalls, NEW c,
           chatCall' = [chatCall EXCEPT ![q] = c],
           c \in LiveCalls(Len(convo)) \cup {NoChatCall},
           c # NoChatCall => CallOK(c),
           \A i \in DOMAIN convo :
              convo[i].paused /\ c # NoChatCall /\ MayAnswer(c, i) => MayAnswer(chatCall[q], i),
           arrived' \in 0..MaxMessages,
           UNCHANGED <<convo, underWay, replied>>
    PROVE  ChatInv'
<1>1. convo' = convo /\ underWay' = underWay /\ replied' = replied
  OBVIOUS
<1>2. /\ c \in LiveCalls(Len(convo')) \cup {NoChatCall}
      /\ convo' \in Seq(ChatRows)
      /\ Len(convo') >= Len(convo)
      /\ underWay' \in [DOMAIN convo' -> Nat]
      /\ replied' \in [DOMAIN convo' -> Nat]
      /\ \A i \in DOMAIN convo : underWay'[i] = underWay[i] /\ replied'[i] = replied[i]
  BY <1>1, CallTypes
<1>3. \A i \in DOMAIN convo' :
         convo'[i].paused =>
            /\ i \in DOMAIN convo /\ convo[i].paused
            /\ c # NoChatCall /\ MayAnswer(c, i) => MayAnswer(chatCall[q], i)
  BY <1>1
<1>4. QED
  BY <1>2, <1>3, OneCallMoves

(* A call under way goes to its next step, with the rest of it as it was. *)
LEMMA GoToInv ==
    ASSUME ChatInv, NEW q \in ChatCalls, NEW from \in ChatSteps, NEW step \in ChatSteps,
           AtStep(q, from), GoTo(q, step),
           arrived' = arrived,
           UNCHANGED <<convo, underWay, replied>>,
           CallOK([chatCall[q] EXCEPT !.step = step]),
           \/ step \notin {"save", "check", "history", "ask"}
           \/ from \in {"save", "check", "history", "ask"}
    PROVE  ChatInv'
<1> DEFINE c == [chatCall[q] EXCEPT !.step = step]
<1>1. chatCall[q] \in LiveCalls(Len(convo)) /\ chatCall[q] # NoChatCall
  BY CallTypes
<1>2. /\ c \in LiveCalls(Len(convo))
      /\ c.step = step /\ c.id = chatCall[q].id /\ c.paused = chatCall[q].paused
  BY <1>1 DEF LiveCalls
<1>3. chatCall' = [chatCall EXCEPT ![q] = c]
  BY <1>1 DEF GoTo, ChatInv, ChatTypeOK
<1>4. \A i \in DOMAIN convo : MayAnswer(c, i) => MayAnswer(chatCall[q], i)
  BY <1>2 DEF MayAnswer, AtStep
<1>5. arrived' \in 0..MaxMessages
  BY CallTypes
<1>6. CallOK(c)
  OBVIOUS
<1> HIDE DEF c
<1>7. QED
  BY <1>2, <1>3, <1>4, <1>5, <1>6, CallStepInv

(* The row that the call holds has one message more, and no other change. *)
LEMMA StoredRows ==
    ASSUME ChatInv, NEW q \in ChatCalls, AtStep(q, "save") \/ AtStep(q, "keep"), Stored(q)
    PROVE  /\ convo' \in Seq(ChatRows)
           /\ Len(convo') = Len(convo)
           /\ DOMAIN convo' = DOMAIN convo
           /\ \A i \in DOMAIN convo : convo'[i].paused = convo[i].paused
<1> DEFINE k == chatCall[q].id
<1>1. k \in DOMAIN convo
  <2>1. chatCall[q] \in LiveCalls(Len(convo)) /\ CallOK(chatCall[q])
    BY CallTypes DEF ChatSteps
  <2>2. k \in 0..Len(convo) /\ k # 0
    BY <2>1 DEF LiveCalls, CallOK, AtStep
  <2>3. QED
    BY <2>2, CallTypes
<1>2. [convo[k] EXCEPT !.stored = @ + 1] \in ChatRows
      /\ [convo[k] EXCEPT !.stored = @ + 1].paused = convo[k].paused
  <2>1. \A r \in ChatRows : /\ [r EXCEPT !.stored = @ + 1] \in ChatRows
                           /\ [r EXCEPT !.stored = @ + 1].paused = r.paused
    BY DEF ChatRows
  <2>2. convo[k] \in ChatRows
    BY <1>1, CallTypes
  <2>3. QED
    BY <2>1, <2>2
<1>3. convo' = [convo EXCEPT ![k] = [convo[k] EXCEPT !.stored = @ + 1]]
  BY <1>1, CallTypes DEF Stored
<1> HIDE DEF k
<1>4. QED
  BY <1>1, <1>2, <1>3, CallTypes

LEMMA ArriveInv ==
    ASSUME ChatInv, NEW q \in ChatCalls, NEW o \in Sellers, NEW manual \in BOOLEAN,
           Arrive(q, o, manual)
    PROVE  ChatInv'
<1> DEFINE c == [step |-> "find", manual |-> manual, owner |-> o, id |-> 0,
                 paused |-> FALSE, read |-> 0, context |-> {}]
<1>1. c \in LiveCalls(Len(convo)) /\ CallOK(c)
  BY CallTypes DEF LiveCalls, ChatSteps, CallOK
<1>2. \A i \in DOMAIN convo : ~MayAnswer(c, i)
  BY DEF MayAnswer
<1>3. arrived' \in 0..MaxMessages
  BY CallTypes, SalesChatAssumption DEF Arrive
<1>4. chatCall' = [chatCall EXCEPT ![q] = c] /\ UNCHANGED <<convo, underWay, replied>>
  BY DEF Arrive
<1> HIDE DEF c
<1>5. QED
  BY <1>1, <1>2, <1>3, <1>4, CallStepInv

(* The row is as it was read: FindRow and ReadAgain. *)
LEMMA HoldRowInv ==
    ASSUME ChatInv, NEW q \in ChatCalls, AtStep(q, "find") \/ AtStep(q, "reread"),
           NEW i \in DOMAIN convo,
           chatCall' = [chatCall EXCEPT ![q] = Holding(@, i, convo[i].paused)],
           arrived' = arrived,
           UNCHANGED <<convo, underWay, replied>>
    PROVE  ChatInv'
<1> DEFINE c == Holding(chatCall[q], i, convo[i].paused)
<1>1. chatCall[q] \in LiveCalls(Len(convo))
  BY CallTypes DEF ChatSteps
<1>2. convo[i].paused \in BOOLEAN /\ i \in 1..Len(convo)
  BY CallTypes DEF ChatRows
<1>3. c \in LiveCalls(Len(convo)) /\ CallOK(c) /\ c.id = i /\ c.paused = convo[i].paused
  BY <1>1, <1>2, CallTypes, HoldingMoves
<1>4. \A j \in DOMAIN convo : convo[j].paused => ~MayAnswer(c, j)
  BY <1>3 DEF MayAnswer
<1>5. chatCall' = [chatCall EXCEPT ![q] = c] /\ arrived' \in 0..MaxMessages
  BY CallTypes
<1> HIDE DEF c
<1>6. QED
  BY <1>3, <1>4, <1>5, CallStepInv

LEMMA FindRowInv == ASSUME ChatInv, NEW q \in ChatCalls, FindRow(q) PROVE ChatInv'
<1>1. AtStep(q, "find") /\ arrived' = arrived /\ UNCHANGED <<convo, underWay, replied>>
  BY DEF FindRow
<1>2. ASSUME NEW step \in {"insert", "claim"}, GoTo(q, step) PROVE ChatInv'
  <2>1. chatCall[q] \in LiveCalls(Len(convo))
    BY <1>1, CallTypes DEF ChatSteps
  <2>2. [chatCall[q] EXCEPT !.step = step].step = step
    BY <2>1 DEF LiveCalls
  <2>3. CallOK([chatCall[q] EXCEPT !.step = step])
    BY <2>2 DEF CallOK
  <2>4. QED
    BY <1>1, <1>2, <2>3, GoToInv DEF ChatSteps
<1>3. ASSUME NEW i \in DOMAIN convo,
             chatCall' = [chatCall EXCEPT ![q] = Holding(@, i, convo[i].paused)]
      PROVE  ChatInv'
  BY <1>1, <1>3, HoldRowInv
<1>4. QED
  BY <1>2, <1>3 DEF FindRow

LEMMA ClaimRowInv == ASSUME ChatInv, NEW q \in ChatCalls, ClaimRow(q) PROVE ChatInv'
<1> DEFINE c == [chatCall[q] EXCEPT !.step = "reread"]
<1>1. AtStep(q, "claim") /\ Len(convo) = 1
      /\ convo' = [convo EXCEPT ![1].owner = chatCall[q].owner]
      /\ GoTo(q, "reread") /\ UNCHANGED <<arrived, underWay, replied>>
  BY DEF ClaimRow
<1>2. chatCall[q] \in LiveCalls(Len(convo)) /\ chatCall[q] # NoChatCall
  BY <1>1, CallTypes DEF ChatSteps
<1>3. c \in LiveCalls(Len(convo)) /\ c.step = "reread"
  BY <1>2 DEF LiveCalls, ChatSteps
<1>4. CallOK(c) /\ \A i \in DOMAIN convo : ~MayAnswer(c, i)
  BY <1>3 DEF CallOK, MayAnswer
<1>5. DOMAIN convo = {1} /\ convo[1] \in ChatRows
  BY <1>1, CallTypes
<1>6. [convo[1] EXCEPT !.owner = chatCall[q].owner] \in ChatRows
      /\ [convo[1] EXCEPT !.owner = chatCall[q].owner].paused = convo[1].paused
  <2>1. chatCall[q].owner \in Sellers
    BY <1>2 DEF LiveCalls
  <2>2. QED
    BY <1>5, <2>1 DEF ChatRows
<1>7. convo' = [convo EXCEPT ![1] = [convo[1] EXCEPT !.owner = chatCall[q].owner]]
  BY <1>1
<1>8. /\ convo' \in Seq(ChatRows) /\ Len(convo') = Len(convo) /\ DOMAIN convo' = DOMAIN convo
      /\ \A i \in DOMAIN convo : convo'[i].paused = convo[i].paused
  BY <1>5, <1>6, <1>7, CallTypes
<1>9. chatCall' = [chatCall EXCEPT ![q] = c]
  BY <1>1 DEF GoTo, ChatInv, ChatTypeOK
<1> HIDE DEF c
<1>10. /\ c \in LiveCalls(Len(convo')) \cup {NoChatCall}
       /\ Len(convo') >= Len(convo)
       /\ arrived' \in 0..MaxMessages
       /\ underWay' \in [DOMAIN convo' -> Nat] /\ replied' \in [DOMAIN convo' -> Nat]
       /\ \A i \in DOMAIN convo : underWay'[i] = underWay[i] /\ replied'[i] = replied[i]
  <2>1. Len(convo') = Len(convo) /\ Len(convo) \in Nat /\ DOMAIN convo' = DOMAIN convo
    BY <1>8, CallTypes
  <2>2. underWay' = underWay /\ replied' = replied /\ arrived' = arrived
    BY <1>1
  <2>3. underWay \in [DOMAIN convo -> Nat] /\ replied \in [DOMAIN convo -> Nat]
        /\ arrived \in 0..MaxMessages
    BY CallTypes
  <2>4. QED
    BY <1>3, <2>1, <2>2, <2>3
<1>11. \A i \in DOMAIN convo' :
          convo'[i].paused =>
             /\ i \in DOMAIN convo /\ convo[i].paused
             /\ c # NoChatCall /\ MayAnswer(c, i) => MayAnswer(chatCall[q], i)
  BY <1>4, <1>8
<1>12. QED
  BY <1>4, <1>8, <1>9, <1>10, <1>11, OneCallMoves

LEMMA AddConversationInv ==
    ASSUME ChatInv, NEW q \in ChatCalls, AddConversation(q)
    PROVE  ChatInv'
<1> DEFINE n == Len(convo)
           row == [owner |-> chatCall[q].owner, paused |-> FALSE, stored |-> 0]
           c == Holding(chatCall[q], n + 1, FALSE)
<1>1. AtStep(q, "insert") /\ convo' = Append(convo, row)
      /\ chatCall' = [chatCall EXCEPT ![q] = c]
      /\ underWay' = Append(underWay, 0) /\ replied' = Append(replied, 0)
      /\ arrived' = arrived
  BY DEF AddConversation
<1>2. chatCall[q] \in LiveCalls(n) /\ n \in Nat
  BY <1>1, CallTypes DEF ChatSteps
<1>3. row \in ChatRows
  BY <1>2 DEF LiveCalls, ChatRows
<1>4. /\ convo' \in Seq(ChatRows) /\ Len(convo') = n + 1 /\ DOMAIN convo' = 1..(n + 1)
      /\ \A i \in 1..n : convo'[i] = convo[i]
      /\ convo'[n + 1] = row
  BY <1>1, <1>2, <1>3, CallTypes
<1>5. c \in LiveCalls(n + 1) /\ CallOK(c) /\ c.id = n + 1
  <2>1. n + 1 \in Nat /\ n + 1 >= Len(convo) /\ n + 1 \in 1..(n + 1) /\ FALSE \in BOOLEAN
    BY <1>2
  <2>2. QED
    BY <1>2, <2>1, HoldingMoves, Zenon
<1>6. underWay \in Seq(Nat) /\ replied \in Seq(Nat) /\ Len(underWay) = n /\ Len(replied) = n
  <2>1. underWay \in [1..n -> Nat] /\ replied \in [1..n -> Nat]
    BY CallTypes
  <2> HIDE DEF n
  <2>2. ASSUME NEW f \in [1..n -> Nat] PROVE f \in Seq(Nat) /\ Len(f) = n
    BY <1>2
  <2>3. QED
    BY <2>1, <2>2
<1>7. /\ underWay' \in [DOMAIN convo' -> Nat] /\ replied' \in [DOMAIN convo' -> Nat]
      /\ \A i \in DOMAIN convo : underWay'[i] = underWay[i] /\ replied'[i] = replied[i]
  <2>1. ASSUME NEW f \in Seq(Nat), Len(f) = n
        PROVE  Append(f, 0) \in [1..(n + 1) -> Nat] /\ \A i \in 1..n : Append(f, 0)[i] = f[i]
    <3>1. Append(f, 0) \in Seq(Nat) /\ Len(Append(f, 0)) = n + 1
      BY <2>1
    <3>2. \A i \in 1..n : Append(f, 0)[i] = f[i]
      BY <1>2, <2>1
    <3>3. QED
      BY <3>1, <3>2, LenProperties
  <2>2. QED
    BY <1>1, <1>4, <1>6, <2>1, CallTypes
<1>8. \A i \in DOMAIN convo' :
         convo'[i].paused =>
            /\ i \in DOMAIN convo /\ convo[i].paused
            /\ c # NoChatCall /\ MayAnswer(c, i) => MayAnswer(chatCall[q], i)
  <2>1. \A i \in 1..n : ~MayAnswer(c, i)
    <3>1. \A i \in 1..n : i # n + 1
      BY <1>2
    <3> HIDE DEF c
    <3>2. QED
      BY <1>5, <3>1 DEF MayAnswer
  <2>2. ~row.paused
    OBVIOUS
  <2> HIDE DEF c, row
  <2>3. QED
    BY <1>2, <1>4, <2>1, <2>2, CallTypes
<1> HIDE DEF c
<1>9. /\ c \in LiveCalls(Len(convo')) \cup {NoChatCall}
      /\ Len(convo') >= Len(convo)
      /\ arrived' \in 0..MaxMessages
  BY <1>1, <1>2, <1>4, <1>5, CallTypes
<1>10. QED
  BY <1>1, <1>4, <1>5, <1>7, <1>8, <1>9, OneCallMoves

(* The call's message is stored, or not: SaveInbound and SaveOutbound. *)
LEMMA StoreInv ==
    ASSUME ChatInv, NEW q \in ChatCalls, AtStep(q, "save") \/ AtStep(q, "keep"),
           Stored(q) \/ UNCHANGED convo,
           NEW c, chatCall' = [chatCall EXCEPT ![q] = c],
           c \in LiveCalls(Len(convo)) \cup {NoChatCall},
           c # NoChatCall => CallOK(c),
           \A i \in DOMAIN convo :
              c # NoChatCall /\ MayAnswer(c, i) => MayAnswer(chatCall[q], i),
           UNCHANGED <<arrived, underWay, replied>>
    PROVE  ChatInv'
<1>1. /\ convo' \in Seq(ChatRows)
      /\ Len(convo') = Len(convo)
      /\ DOMAIN convo' = DOMAIN convo
      /\ \A i \in DOMAIN convo : convo'[i].paused = convo[i].paused
  <2>1. CASE Stored(q)
    BY <2>1, StoredRows
  <2>2. CASE UNCHANGED convo
    BY <2>2, CallTypes
  <2>3. QED
    BY <2>1, <2>2
<1>2. /\ c \in LiveCalls(Len(convo')) \cup {NoChatCall}
      /\ Len(convo') >= Len(convo)
  BY <1>1, CallTypes
<1>3. /\ arrived' \in 0..MaxMessages
      /\ underWay' \in [DOMAIN convo' -> Nat] /\ replied' \in [DOMAIN convo' -> Nat]
      /\ \A i \in DOMAIN convo : underWay'[i] = underWay[i] /\ replied'[i] = replied[i]
  BY <1>1, CallTypes
<1>4. \A i \in DOMAIN convo' :
         convo'[i].paused =>
            /\ i \in DOMAIN convo /\ convo[i].paused
            /\ c # NoChatCall /\ MayAnswer(c, i) => MayAnswer(chatCall[q], i)
  BY <1>1
<1>5. QED
  BY <1>1, <1>2, <1>3, <1>4, OneCallMoves

(* What is true of the next step of a call whose row is known. *)
LEMMA NextStep ==
    ASSUME ChatInv, NEW q \in ChatCalls, NEW from \in ChatSteps, AtStep(q, from),
           NEW step \in ChatSteps
    PROVE  LET c == [chatCall[q] EXCEPT !.step = step]
           IN  /\ c \in LiveCalls(Len(convo))
               /\ c.step = step /\ c.manual = chatCall[q].manual
               /\ c.id = chatCall[q].id /\ c.paused = chatCall[q].paused
               /\ GoTo(q, step) => chatCall' = [chatCall EXCEPT ![q] = c]
<1>1. chatCall[q] \in LiveCalls(Len(convo)) /\ chatCall[q].step = from
  BY CallTypes DEF AtStep
<1>2. QED
  BY <1>1 DEF LiveCalls, GoTo, ChatInv, ChatTypeOK

LEMMA SaveInboundInv == ASSUME ChatInv, NEW q \in ChatCalls, SaveInbound(q) PROVE ChatInv'
<1> DEFINE c == [chatCall[q] EXCEPT !.step = "check"]
<1>1. AtStep(q, "save") /\ GoTo(q, "check") /\ (Stored(q) \/ UNCHANGED convo)
      /\ UNCHANGED <<arrived, underWay, replied>>
  BY DEF SaveInbound
<1>2. /\ c \in LiveCalls(Len(convo))
      /\ c.step = "check" /\ c.manual = chatCall[q].manual
      /\ c.id = chatCall[q].id /\ c.paused = chatCall[q].paused
      /\ chatCall' = [chatCall EXCEPT ![q] = c]
  BY <1>1, NextStep DEF ChatSteps
<1>3. CallOK(chatCall[q]) /\ chatCall[q].step = "save"
  BY <1>1, CallTypes DEF ChatSteps, AtStep
<1> HIDE DEF c
<1>4. CallOK(c) /\ \A i \in DOMAIN convo : MayAnswer(c, i) => MayAnswer(chatCall[q], i)
  BY <1>2, <1>3 DEF CallOK, MayAnswer
<1>5. QED
  BY <1>1, <1>2, <1>4, StoreInv

(* A call that is over has nothing to answer. *)
LEMMA EndsInv ==
    ASSUME ChatInv, NEW q \in ChatCalls,
           chatCall' = [chatCall EXCEPT ![q] = NoChatCall],
           UNCHANGED <<convo, arrived, underWay, replied>>
    PROVE  ChatInv'
<1>1. arrived' \in 0..MaxMessages
  BY CallTypes
<1>2. QED
  BY <1>1, CallStepInv

LEMMA CheckPausedInv == ASSUME ChatInv, NEW q \in ChatCalls, CheckPaused(q) PROVE ChatInv'
<1>1. AtStep(q, "check") /\ UNCHANGED <<convo, arrived, underWay, replied>>
  BY DEF CheckPaused
<1>2. CASE chatCall[q].paused
  BY <1>1, <1>2, EndsInv DEF CheckPaused
<1>3. CASE ~chatCall[q].paused
  <2>1. GoTo(q, "history")
    BY <1>3 DEF CheckPaused
  <2>2. CallOK(chatCall[q]) /\ chatCall[q].step = "check"
    BY <1>1, CallTypes DEF ChatSteps, AtStep
  <2>3. CallOK([chatCall[q] EXCEPT !.step = "history"])
    BY <1>1, <1>3, <2>2, NextStep DEF CallOK, ChatSteps
  <2>4. QED
    BY <1>1, <2>1, <2>3, GoToInv DEF ChatSteps
<1>4. QED
  BY <1>2, <1>3

LEMMA ReadHistoryInv == ASSUME ChatInv, NEW q \in ChatCalls, ReadHistory(q) PROVE ChatInv'
<1> DEFINE n == ChatLength(chatCall[q].owner)
           c == [chatCall[q] EXCEPT !.step = "ask", !.read = n, !.context = Shown(n)]
<1>1. AtStep(q, "history") /\ chatCall' = [chatCall EXCEPT ![q] = c]
      /\ UNCHANGED <<convo, arrived, underWay, replied>>
  BY DEF ReadHistory
<1>2. n \in Nat
  <2> DEFINE o == chatCall[q].owner
             i == CHOOSE i \in RowsOf(o) : TRUE
  <2>1. CASE RowsOf(o) = {}
    BY <2>1 DEF ChatLength
  <2>2. CASE RowsOf(o) # {}
    <3>1. i \in RowsOf(o)
      BY <2>2
    <3>2. i \in DOMAIN convo
      BY <3>1 DEF RowsOf
    <3>3. n = convo[i].stored
      BY <2>2 DEF ChatLength
    <3> HIDE DEF i
    <3>4. convo[i].stored \in Nat
      BY <3>2, CallTypes DEF ChatRows
    <3>5. QED
      BY <3>3, <3>4
  <2>3. QED
    BY <2>1, <2>2
<1>3. Shown(n) \in SUBSET (1..HistoryLimit)
  BY <1>2, SalesChatAssumption DEF Shown
<1>4. chatCall[q] \in LiveCalls(Len(convo)) /\ CallOK(chatCall[q]) /\ chatCall[q].step = "history"
  BY <1>1, CallTypes DEF ChatSteps, AtStep
<1> HIDE DEF n
<1>5. /\ c \in LiveCalls(Len(convo))
      /\ c.step = "ask" /\ c.manual = chatCall[q].manual
      /\ c.id = chatCall[q].id /\ c.paused = chatCall[q].paused
  BY <1>2, <1>3, <1>4 DEF LiveCalls, ChatSteps
<1> HIDE DEF c
<1>6. CallOK(c) /\ \A i \in DOMAIN convo : MayAnswer(c, i) => MayAnswer(chatCall[q], i)
  BY <1>4, <1>5 DEF CallOK, MayAnswer
<1>7. arrived' \in 0..MaxMessages
  BY <1>1, CallTypes
<1>8. QED
  BY <1>1, <1>5, <1>6, <1>7, CallStepInv

(* The answer counts, and the call has none left. *)
LEMMA SendReplyInv == ASSUME ChatInv, NEW q \in ChatCalls, SendReply(q) PROVE ChatInv'
<1> DEFINE c == [chatCall[q] EXCEPT !.step = "keep"]
           k == chatCall[q].id
<1>1. AtStep(q, "ask") /\ GoTo(q, "keep") /\ replied' = [replied EXCEPT ![k] = @ + 1]
      /\ UNCHANGED <<convo, arrived, underWay>>
  BY DEF SendReply
<1>2. /\ c \in LiveCalls(Len(convo))
      /\ c.step = "keep" /\ c.manual = chatCall[q].manual
      /\ c.id = k /\ c.paused = chatCall[q].paused
      /\ chatCall' = [chatCall EXCEPT ![q] = c]
  BY <1>1, NextStep DEF ChatSteps
<1>3. /\ chatCall[q] \in LiveCalls(Len(convo)) /\ CallOK(chatCall[q])
      /\ chatCall[q].step = "ask"
  BY <1>1, CallTypes DEF ChatSteps, AtStep
<1>4. k \in DOMAIN convo /\ MayAnswer(chatCall[q], k)
  BY <1>3, CallTypes DEF LiveCalls, CallOK, MayAnswer
<1> HIDE DEF c
<1>5. CallOK(c) /\ \A i : ~MayAnswer(c, i)
  BY <1>2, <1>3 DEF CallOK, MayAnswer
<1>6. ChatTypeOK'
  <2>1. replied' \in [DOMAIN convo -> Nat]
    BY <1>1, <1>4, CallTypes
  <2>2. chatCall' \in [ChatCalls -> {NoChatCall} \cup LiveCalls(Len(convo))]
    BY <1>2 DEF ChatInv, ChatTypeOK, LiveCalls
  <2>3. QED
    BY <1>1, <2>1, <2>2 DEF ChatInv, ChatTypeOK, LiveCalls
<1>7. \A p \in ChatCalls : chatCall'[p] # NoChatCall => CallOK(chatCall'[p])
  BY <1>2, <1>5 DEF ChatInv, ChatTypeOK
<1>8. \A i : MayStillAnswer(i)' = MayStillAnswer(i) \ {q}
  BY <1>2, <1>5 DEF ChatInv, ChatTypeOK, MayStillAnswer
<1>9. ASSUME NEW i \in DOMAIN convo, convo[i].paused
      PROVE  replied'[i] + Cardinality(MayStillAnswer(i) \ {q}) <= underWay[i]
  <2>1. /\ replied[i] + Cardinality(MayStillAnswer(i)) <= underWay[i]
        /\ replied[i] \in Nat /\ underWay[i] \in Nat
    BY <1>9, CallTypes DEF ChatInv
  <2>2. /\ Cardinality(MayStillAnswer(i)) \in Nat
        /\ Cardinality(MayStillAnswer(i) \ {q}) =
              IF q \in MayStillAnswer(i) THEN Cardinality(MayStillAnswer(i)) - 1
              ELSE Cardinality(MayStillAnswer(i))
    BY MayStillAnswerFinite, FS_RemoveElement
  <2>3. CASE i = k
    <3>1. q \in MayStillAnswer(i) /\ replied'[i] = replied[i] + 1
      BY <1>1, <1>4, <2>3, CallTypes DEF MayStillAnswer
    <3>2. QED
      BY <2>1, <2>2, <3>1
  <2>4. CASE i # k
    <3>1. replied'[i] = replied[i]
      BY <1>1, <2>4, CallTypes
    <3>2. QED
      BY <2>1, <2>2, <3>1
  <2>5. QED
    BY <2>3, <2>4
<1>10. QED
  BY <1>1, <1>6, <1>7, <1>8, <1>9 DEF ChatInv

LEMMA SaveOutboundInv == ASSUME ChatInv, NEW q \in ChatCalls, SaveOutbound(q) PROVE ChatInv'
<1>1. AtStep(q, "keep") /\ Stored(q) /\ chatCall' = [chatCall EXCEPT ![q] = NoChatCall]
      /\ UNCHANGED <<arrived, underWay, replied>>
  BY DEF SaveOutbound
<1>2. QED
  BY <1>1, StoreInv

(* Every call that may still answer is one of those that hold the row. *)
LEMMA PauseInv == ASSUME ChatInv, NEW o \in Sellers, Pause(o) PROVE ChatInv'
<1> DEFINE current == {i \in RowsOf(o) : ~convo[i].paused}
<1>1. /\ convo' = [i \in DOMAIN convo |->
               IF i \in current THEN [convo[i] EXCEPT !.paused = TRUE] ELSE convo[i]]
      /\ underWay' = [i \in DOMAIN convo |->
               IF i \in current THEN Cardinality(AnswersFor(i)) ELSE underWay[i]]
      /\ replied' = [i \in DOMAIN convo |-> IF i \in current THEN 0 ELSE replied[i]]
      /\ chatCall' = chatCall /\ arrived' = arrived
  BY DEF Pause
<1>2. \A r \in ChatRows : [r EXCEPT !.paused = TRUE] \in ChatRows
  BY DEF ChatRows
<1>3. ASSUME NEW i
      PROVE  /\ Cardinality(AnswersFor(i)) \in Nat
             /\ Cardinality(MayStillAnswer(i)) <= Cardinality(AnswersFor(i))
  <2>1. AnswersFor(i) \subseteq ChatCalls
    BY DEF AnswersFor
  <2>2. IsFiniteSet(AnswersFor(i))
    BY <2>1, SalesChatAssumption, FS_Subset
  <2>3. MayStillAnswer(i) \subseteq AnswersFor(i)
    <3> SUFFICES ASSUME NEW q \in ChatCalls, MayAnswer(chatCall[q], i)
                 PROVE  q \in AnswersFor(i)
      BY DEF MayStillAnswer
    <3>1. chatCall[q] # NoChatCall
      BY DEF MayAnswer, NoChatCall
    <3>2. CallOK(chatCall[q])
      BY <3>1, CallTypes
    <3>3. QED
      BY <3>1, <3>2 DEF MayAnswer, CallOK, AnswersFor
  <2>4. QED
    BY <2>2, <2>3, FS_Subset, FS_CardinalityType
<1>4. /\ convo' \in Seq(ChatRows) /\ DOMAIN convo' = DOMAIN convo /\ Len(convo') = Len(convo)
      /\ underWay' \in [DOMAIN convo -> Nat] /\ replied' \in [DOMAIN convo -> Nat]
  <2>1. \A i \in DOMAIN convo : convo'[i] \in ChatRows
    BY <1>1, <1>2, CallTypes
  <2>2. underWay' \in [DOMAIN convo -> Nat] /\ replied' \in [DOMAIN convo -> Nat]
    BY <1>1, <1>3, CallTypes
  <2> HIDE DEF current
  <2>3. QED
    BY <1>1, <2>1, <2>2, CallTypes
<1>5. ChatTypeOK'
  BY <1>1, <1>4 DEF ChatInv, ChatTypeOK, ChatRows
<1>6. \A q \in ChatCalls : chatCall'[q] # NoChatCall => CallOK(chatCall'[q])
  BY <1>1 DEF ChatInv
<1>7. ASSUME NEW i \in DOMAIN convo, convo'[i].paused
      PROVE  replied'[i] + Cardinality(MayStillAnswer(i)) <= underWay'[i]
  <2>1. CASE i \in current
    <3>1. underWay'[i] = Cardinality(AnswersFor(i)) /\ replied'[i] = 0
      BY <1>1, <2>1
    <3>2. QED
      BY <1>3, <3>1, MayStillAnswerFinite
  <2>2. CASE i \notin current
    <3>1. convo'[i] = convo[i] /\ underWay'[i] = underWay[i] /\ replied'[i] = replied[i]
      BY <1>1, <2>2
    <3>2. QED
      BY <1>7, <3>1 DEF ChatInv
  <2>3. QED
    BY <2>1, <2>2
<1>8. QED
  BY <1>1, <1>4, <1>5, <1>6, <1>7 DEF ChatInv, MayStillAnswer

LEMMA ResumeInv == ASSUME ChatInv, NEW o \in Sellers, Resume(o) PROVE ChatInv'
<1>1. /\ convo' = [i \in DOMAIN convo |->
               IF i \in RowsOf(o) THEN [convo[i] EXCEPT !.paused = FALSE] ELSE convo[i]]
      /\ UNCHANGED <<chatCall, arrived, underWay, replied>>
  BY DEF Resume
<1>2. \A r \in ChatRows : /\ [r EXCEPT !.paused = FALSE] \in ChatRows
                          /\ ~[r EXCEPT !.paused = FALSE].paused
  BY DEF ChatRows
<1>3. \A i \in DOMAIN convo : convo'[i] \in ChatRows /\ (convo'[i].paused => convo[i].paused)
  BY <1>1, <1>2, CallTypes
<1>4. convo' \in Seq(ChatRows) /\ DOMAIN convo' = DOMAIN convo /\ Len(convo') = Len(convo)
  BY <1>1, <1>3, CallTypes
<1>5. ChatTypeOK'
  BY <1>1, <1>4 DEF ChatInv, ChatTypeOK, ChatRows
<1>6. QED
  BY <1>1, <1>3, <1>4, <1>5 DEF ChatInv, MayStillAnswer

LEMMA NextChatInv == ChatInv /\ [ChatNext]_chatVars => ChatInv'
<1> SUFFICES ASSUME ChatInv, [ChatNext]_chatVars PROVE ChatInv'
  OBVIOUS
<1>1. CASE UNCHANGED chatVars
  BY <1>1 DEF chatVars, ChatInv, ChatTypeOK, MayStillAnswer
<1>2. ASSUME NEW q \in ChatCalls, ReadAgain(q) PROVE ChatInv'
  BY <1>2, HoldRowInv DEF ReadAgain
<1>3. ASSUME NEW q \in ChatCalls, ChatCallEnds(q) PROVE ChatInv'
  BY <1>3, EndsInv DEF ChatCallEnds
<1>4. QED
  BY <1>1, <1>2, <1>3, ArriveInv, FindRowInv, ClaimRowInv, AddConversationInv, SaveInboundInv,
     CheckPausedInv, ReadHistoryInv, SendReplyInv, SaveOutboundInv, PauseInv, ResumeInv
  DEF ChatNext

(* Conversations and the webhooks under way are always well formed. *)
THEOREM ChatTypeCorrect == ChatSpec => []ChatTypeOK
<1>1. ChatInv => ChatTypeOK
  BY DEF ChatInv
<1>2. QED
  BY InitChatInv, NextChatInv, <1>1, PTL DEF ChatSpec

(* After a pause no more answers go out than webhooks held the             *)
(* conversation, for any number of sellers, webhooks and conversations.    *)
THEOREM PauseHolds == ChatSpec => []PauseBoundsReplies
<1>1. ChatInv => PauseBoundsReplies
  <2> SUFFICES ASSUME ChatInv, NEW i \in DOMAIN convo, convo[i].paused
               PROVE  replied[i] <= underWay[i]
    BY DEF PauseBoundsReplies
  <2>1. replied[i] + Cardinality(MayStillAnswer(i)) <= underWay[i]
        /\ replied[i] \in Nat /\ underWay[i] \in Nat
    BY CallTypes DEF ChatInv
  <2>2. QED
    BY <2>1, MayStillAnswerFinite
<1>2. QED
  BY InitChatInv, NextChatInv, <1>1, PTL DEF ChatSpec

-----------------------------------------------------------------------------
(***************************************************************************)
(* EvidenceQueries, for any number of questions, any threshold and any     *)
(* number of retries.  The argument: since the breaker last forgot its     *)
(* failures, each query it let through has failed, and was counted, or is  *)
(* still in flight; it lets one through only while it has counted fewer    *)
(* than Threshold.  The retries that the queries in flight still have are  *)
(* counted with the requests made, so that a retry changes nothing.        *)
(***************************************************************************)

(* Queries in flight. *)
FlightsOf(asks) == {f \in AskCalls \X Tasks : f[2] \in asks[f[1]].flying}
Flights == FlightsOf(ask)
Questions == [sure : BOOLEAN, left : [Tasks -> 0..2], flying : SUBSET Tasks,
              tries : [Tasks -> 0..Retries]]

(* The retries that the queries in flight still have. *)
OwedOf(asks) ==
    {o \in FlightsOf(asks) \X (1..Retries) : o[2] > asks[o[1][1]].tries[o[1][2]]}
Owed == OwedOf(ask)

(* A question has a query in flight for a task that is not over; a baseline *)
(* flies alone, and so does the only task of a sure question.  Only what    *)
(* flies has been retried.                                                  *)
QuestionOK(question) ==
    /\ \A t \in Tasks \ question.flying : question.tries[t] = 0
    /\ \A t \in question.flying : question.left[t] > 0
    /\ "baseline" \in question.flying => \A e \in EvidenceTasks : question.left[e] = 0
    /\ question.sure => \A e \in EvidenceTasks \ {"chosen"} : question.left[e] = 0

(* Each query let through has failed or is in flight, with its retries. *)
Within(queries) == requests + Cardinality(Owed) <= (1 + Retries) * queries

BreakerInv ==
    /\ BreakerTypeOK
    /\ \A a \in AskCalls : QuestionOK(ask[a])
    /\ breaker.state = "closed" => breaker.failures < Threshold
    /\ Within(breaker.failures + Cardinality(Flights))
    /\ Within((Threshold - 1) + Seats)

(* The little arithmetic of products that is needed. *)
LEMMA Products ==
    ASSUME NEW m \in Nat, NEW n \in Nat
    PROVE  /\ (1 + Retries) * n \in Nat
           /\ (1 + Retries) * (n + 1) = (1 + Retries) * n + (1 + Retries)
           /\ n * Retries + n = (1 + Retries) * n
           /\ m <= n => (1 + Retries) * m <= (1 + Retries) * n
<1>1. Retries \in Nat
  BY BreakerAssumption
<1>2. ASSUME m <= n PROVE (1 + Retries) * m <= (1 + Retries) * n
  <2>1. PICK d \in Nat : n = m + d
    <3>1. n - m \in Nat /\ n = m + (n - m)
      BY <1>2
    <3> QED BY <3>1
  <2>2. (1 + Retries) * n = (1 + Retries) * m + (1 + Retries) * d
    BY <1>1, <2>1
  <2>3. (1 + Retries) * m \in Nat /\ (1 + Retries) * d \in Nat
    BY <1>1
  <2> QED
    BY <2>2, <2>3
<1> QED
  BY <1>1, <1>2

LEMMA RetrySet == IsFiniteSet(1..Retries) /\ Cardinality(1..Retries) = Retries
<1>1. Retries \in Nat /\ 1 \in Int /\ Retries \in Int
  BY BreakerAssumption
<1>2. /\ IsFiniteSet(1..Retries)
      /\ Cardinality(1..Retries) = IF 1 > Retries THEN 0 ELSE Retries - 1 + 1
  BY <1>1, FS_Interval
<1> QED
  BY <1>1, <1>2

(* At most as many queries are in flight as questions have evidence tasks:  *)
(* a baseline, which flies alone, takes the place of the chosen task.       *)
LEMMA FlightsFit ==
    ASSUME NEW asks \in [AskCalls -> Questions], \A a \in AskCalls : QuestionOK(asks[a])
    PROVE  /\ IsFiniteSet(FlightsOf(asks))
           /\ Cardinality(FlightsOf(asks)) \in Nat
           /\ Seats \in Nat
           /\ Cardinality(FlightsOf(asks)) <= Seats
           /\ IsFiniteSet(OwedOf(asks))
           /\ Cardinality(OwedOf(asks)) \in Nat
           /\ Cardinality(OwedOf(asks)) <= Cardinality(FlightsOf(asks)) * Retries
<1> DEFINE InFlight == FlightsOf(asks)
           Seat(f) == <<f[1], IF f[2] = "baseline" THEN "chosen" ELSE f[2]>>
           seat == [f \in InFlight |-> Seat(f)]
           Places == AskCalls \X EvidenceTasks
<1>1. IsFiniteSet(EvidenceTasks)
  <2>1. IsFiniteSet({"chosen"} \cup {"correlate"} \cup {"search"})
    BY FS_Singleton, FS_AddElement
  <2>2. EvidenceTasks \in SUBSET ({"chosen"} \cup {"correlate"} \cup {"search"})
    BY BreakerAssumption
  <2> QED
    BY <2>1, <2>2, FS_Subset
<1>2. /\ IsFiniteSet(Places)
      /\ Cardinality(Places) = Cardinality(AskCalls) * Cardinality(EvidenceTasks)
  BY <1>1, FS_Product, BreakerAssumption
<1>3. seat \in [InFlight -> Places]
  <2> SUFFICES ASSUME NEW f \in InFlight PROVE Seat(f) \in Places
    OBVIOUS
  <2>1. f[1] \in AskCalls /\ f[2] \in EvidenceTasks \cup {"baseline"}
    BY DEF FlightsOf, Tasks
  <2> QED
    BY <2>1, BreakerAssumption
<1>4. ASSUME NEW f \in InFlight, NEW g \in InFlight, Seat(f) = Seat(g)
      PROVE  f = g
  <2>1. /\ f = <<f[1], f[2]>> /\ f[1] \in AskCalls /\ f[2] \in Tasks
        /\ f[2] \in asks[f[1]].flying
        /\ g = <<g[1], g[2]>> /\ g[1] \in AskCalls /\ g[2] \in Tasks
        /\ g[2] \in asks[g[1]].flying
    BY DEF FlightsOf
  <2>2. f[1] = g[1]
    BY <1>4
  <2>3. ~("baseline" \in asks[f[1]].flying /\ "chosen" \in asks[f[1]].flying)
    BY <2>1, BreakerAssumption DEF QuestionOK, Tasks, Questions
  <2> QED
    BY <1>4, <2>1, <2>2, <2>3
<1>5. seat \in Injection(InFlight, Places)
  BY <1>3, <1>4 DEF Injection, IsInjective
<1>6. IsFiniteSet(InFlight) /\ Cardinality(InFlight) <= Cardinality(Places)
  <2> HIDE DEF seat, Places, InFlight
  <2> QED
    BY <1>2, <1>5, FS_Injection
<1>7. Cardinality(InFlight) \in Nat /\ Seats \in Nat /\ Cardinality(InFlight) <= Seats
  <2>1. Cardinality(InFlight) \in Nat /\ Cardinality(Places) \in Nat
    BY <1>2, <1>6, FS_CardinalityType
  <2> QED
    BY <1>2, <1>6, <2>1 DEF Seats
<1>8. /\ IsFiniteSet(InFlight \X (1..Retries))
      /\ Cardinality(InFlight \X (1..Retries)) = Cardinality(InFlight) * Retries
  <2> HIDE DEF InFlight
  <2> QED
    BY <1>6, RetrySet, FS_Product
<1>9. OwedOf(asks) \in SUBSET (InFlight \X (1..Retries))
  BY DEF OwedOf
<1>10. /\ IsFiniteSet(OwedOf(asks)) /\ Cardinality(OwedOf(asks)) \in Nat
       /\ Cardinality(OwedOf(asks)) <= Cardinality(InFlight) * Retries
  <2> HIDE DEF InFlight
  <2> QED
    BY <1>8, <1>9, FS_Subset, FS_CardinalityType
<1> QED
  BY <1>6, <1>7, <1>10

(* What a question keeps in flight keeps its retries. *)
KeepsTries(a, question) ==
    \A t \in question.flying : question.tries[t] = ask[a].tries[t]

(* A step that sends nothing only takes from the retries that are owed. *)
LEMMA OwedShrinks ==
    ASSUME BreakerInv, NEW a \in AskCalls, NEW q \in Questions, QuestionOK(q),
           ask' = [ask EXCEPT ![a] = q], q.flying \subseteq ask[a].flying, KeepsTries(a, q)
    PROVE  Cardinality(Owed') \in Nat /\ Cardinality(Owed') <= Cardinality(Owed)
<1>1. ask \in [AskCalls -> Questions] /\ \A b \in AskCalls : QuestionOK(ask[b])
  BY DEF BreakerInv, BreakerTypeOK, Questions
<1>2. \A b \in AskCalls : ask'[b] = IF b = a THEN q ELSE ask[b]
  BY <1>1
<1>3. Owed' \in SUBSET Owed
  <2> SUFFICES ASSUME NEW f \in AskCalls \X Tasks, f[2] \in ask'[f[1]].flying,
                      NEW n \in 1..Retries, n > ask'[f[1]].tries[f[2]]
               PROVE  f[2] \in ask[f[1]].flying /\ n > ask[f[1]].tries[f[2]]
    BY DEF Owed, OwedOf, FlightsOf
  <2> QED
    BY <1>2 DEF KeepsTries
<1>4. IsFiniteSet(Owed)
  BY <1>1, FlightsFit DEF Owed
<1> QED
  BY <1>3, <1>4, FS_Subset, FS_CardinalityType

(* With every question done nothing is in flight. *)
LEMMA NothingFlies ==
    ASSUME NEW asks, asks = [a \in AskCalls |-> Done]
    PROVE  /\ asks \in [AskCalls -> Questions]
           /\ \A a \in AskCalls : QuestionOK(asks[a])
           /\ Cardinality(FlightsOf(asks)) = 0
           /\ Cardinality(OwedOf(asks)) = 0
           /\ (1 + Retries) * (0 + 0) = 0
           /\ (1 + Retries) * ((Threshold - 1) + Seats) \in Nat
<1>1. Done \in Questions /\ QuestionOK(Done)
  BY BreakerAssumption DEF Done, Questions, QuestionOK, NoTries
<1>2. FlightsOf(asks) = {}
  BY DEF FlightsOf, Done
<1>3. asks \in [AskCalls -> Questions] /\ \A a \in AskCalls : QuestionOK(asks[a])
  BY <1>1
<1>4. OwedOf(asks) = {}
  BY <1>2 DEF OwedOf
<1>5. (Threshold - 1) + Seats \in Nat
  BY <1>3, FlightsFit, BreakerAssumption
<1>6. (1 + Retries) * (0 + 0) = 0 /\ (1 + Retries) * ((Threshold - 1) + Seats) \in Nat
  BY <1>5, Products, BreakerAssumption
<1> QED
  BY <1>2, <1>3, <1>4, <1>6, FS_EmptySet

LEMMA InitBreakerInv == BreakerInit => BreakerInv
BY NothingFlies, BreakerAssumption
   DEF BreakerInit, BreakerInv, BreakerTypeOK, ClosedBreaker, Flights, Owed, Within, Questions

LEMMA AgentRestartInv == RestartAgent => BreakerInv'
BY NothingFlies, BreakerAssumption
   DEF RestartAgent, BreakerInv, BreakerTypeOK, ClosedBreaker, Flights, Owed, Within, Questions

(* One question's queries change: the flights are those of the others and   *)
(* its own.                                                                 *)
LEMMA Landing ==
    ASSUME BreakerInv, NEW a \in AskCalls, NEW t \in ask[a].flying,
           NEW question, ask' = [ask EXCEPT ![a] = question],
           question.flying = ask[a].flying \ {t}
    PROVE  Flights' = Flights \ {<<a, t>>} /\ <<a, t>> \in Flights
<1>1. t \in Tasks /\ ask[a].flying \subseteq Tasks
  BY DEF BreakerInv, BreakerTypeOK, Questions
<1>2. \A b \in AskCalls : ask'[b] = IF b = a THEN question ELSE ask[b]
  BY DEF BreakerInv, BreakerTypeOK, Questions
<1> QED
  BY <1>1, <1>2 DEF Flights, FlightsOf

(* What a question becomes when one of its queries is lost. *)
LEMMA LossFacts ==
    ASSUME BreakerInv, NEW a \in AskCalls, NEW t \in Tasks, ask[a].left[t] > 0,
           t = "baseline" => \A e \in EvidenceTasks : ask[a].left[e] = 0,
           NEW question,
           question = AfterLoss(a, t)
    PROVE  /\ question \in Questions
           /\ QuestionOK(question)
           /\ question.flying = ask[a].flying \ {t}
           /\ KeepsTries(a, question)
<1>1. /\ ask[a] \in Questions
      /\ QuestionOK(ask[a])
  BY DEF BreakerInv, BreakerTypeOK, Questions
<1>q. /\ ask[a].sure \in BOOLEAN /\ ask[a].left \in [Tasks -> 0..2]
      /\ ask[a].tries \in [Tasks -> 0..Retries]
      /\ \A u \in Tasks \ ask[a].flying : ask[a].tries[u] = 0
      /\ ask[a].flying \subseteq Tasks
      /\ \A u \in ask[a].flying : ask[a].left[u] # 0
      /\ "baseline" \in ask[a].flying => \A e \in EvidenceTasks : ask[a].left[e] = 0
      /\ ask[a].sure => \A e \in EvidenceTasks \ {"chosen"} : ask[a].left[e] = 0
  BY <1>1 DEF QuestionOK, Questions
<1>e. "baseline" \notin EvidenceTasks /\ "chosen" \in EvidenceTasks
  BY BreakerAssumption
<1>l. ask[a].left[t] # 0 /\ ask[a].left[t] - 1 \in 0..2
  BY <1>q
<1>r. /\ [ask[a].tries EXCEPT ![t] = 0] \in [Tasks -> 0..Retries]
      /\ \A u \in Tasks \ (ask[a].flying \ {t}) : [ask[a].tries EXCEPT ![t] = 0][u] = 0
      /\ \A u \in ask[a].flying \ {t} : [ask[a].tries EXCEPT ![t] = 0][u] = ask[a].tries[u]
  BY <1>q, BreakerAssumption
<1>2. CASE t = "baseline"
  <2>1. question = [ask[a] EXCEPT !.flying = @ \ {t}, !.tries[t] = 0,
                                  !.left[t] = ask[a].left[t] - 1]
    BY <1>2 DEF AfterLoss, Landed
  <2>2. ask[a].flying \subseteq {"baseline"}
    BY <1>q, <1>2 DEF Tasks
  <2>3. /\ question.sure = ask[a].sure
        /\ question.left = [ask[a].left EXCEPT ![t] = ask[a].left[t] - 1]
        /\ question.flying = ask[a].flying \ {t}
        /\ question.tries = [ask[a].tries EXCEPT ![t] = 0]
        /\ question = [sure |-> question.sure, left |-> question.left,
                       flying |-> question.flying, tries |-> question.tries]
    BY <1>1, <2>1 DEF Questions
  <2>4. question.left \in [Tasks -> 0..2] /\ \A e \in EvidenceTasks : question.left[e] = ask[a].left[e]
    BY <1>q, <1>e, <1>l, <1>2, <2>3 DEF Tasks
  <2>5. question.flying = {}
    BY <1>2, <2>2, <2>3
  <2>6. QuestionOK(question) /\ KeepsTries(a, question)
    BY <1>q, <1>r, <2>3, <2>4, <2>5 DEF QuestionOK, KeepsTries
  <2> QED
    BY <1>q, <1>r, <2>3, <2>4, <2>5, <2>6 DEF Questions
<1>3. CASE t # "baseline" /\ ask[a].sure
  <2>1. question = Done
    BY <1>3 DEF AfterLoss
  <2>2. t = "chosen"
    BY <1>q, <1>l, <1>3 DEF Tasks
  <2>3. ask[a].flying \subseteq {"chosen"}
    BY <1>q, <1>e, <1>l, <1>3, <2>2 DEF Tasks
  <2>4. Done.flying = ask[a].flying \ {t}
    BY <2>2, <2>3 DEF Done
  <2>5. Done \in Questions /\ QuestionOK(Done) /\ KeepsTries(a, Done)
    BY BreakerAssumption DEF Done, QuestionOK, Questions, NoTries, KeepsTries
  <2> QED
    BY <2>1, <2>4, <2>5
<1>4. CASE t # "baseline" /\ ~ask[a].sure
  <2>1. question = [ask[a] EXCEPT !.flying = @ \ {t}, !.tries[t] = 0, !.left[t] = 0]
    BY <1>4 DEF AfterLoss, Landed
  <2>2. /\ question.sure = ask[a].sure
        /\ question.left = [ask[a].left EXCEPT ![t] = 0]
        /\ question.flying = ask[a].flying \ {t}
        /\ question.tries = [ask[a].tries EXCEPT ![t] = 0]
        /\ question = [sure |-> question.sure, left |-> question.left,
                       flying |-> question.flying, tries |-> question.tries]
    BY <1>1, <2>1 DEF Questions
  <2>3. /\ question.left \in [Tasks -> 0..2]
        /\ \A u \in Tasks : question.left[u] = IF u = t THEN 0 ELSE ask[a].left[u]
    BY <1>q, <2>2
  <2>4. "baseline" \notin ask[a].flying
    BY <1>q, <1>l, <1>4 DEF Tasks
  <2>5. \A u \in question.flying : question.left[u] > 0
    BY <1>q, <2>2, <2>3
  <2>6. QuestionOK(question) /\ KeepsTries(a, question)
    BY <1>q, <1>r, <1>4, <2>2, <2>4, <2>5 DEF QuestionOK, KeepsTries
  <2> QED
    BY <1>q, <1>r, <2>2, <2>3, <2>6 DEF Questions
<1> QED
  BY <1>2, <1>3, <1>4

(* A question that is settled: one with nothing left has nothing in flight. *)
LEMMA SettleFacts ==
    ASSUME BreakerInv, NEW a \in AskCalls,
           NEW question \in Questions,
           QuestionOK(question), KeepsTries(a, question),
           Settle(a, question)
    PROVE  \E q \in Questions :
              /\ ask' = [ask EXCEPT ![a] = q]
              /\ QuestionOK(q)
              /\ q.flying = question.flying
              /\ KeepsTries(a, q)
<1>1. CASE \A t \in Tasks : question.left[t] = 0
  <2>1. question.flying = {}
    BY <1>1 DEF QuestionOK, Questions
  <2>2. /\ Done \in Questions
        /\ QuestionOK(Done) /\ Done.flying = {} /\ KeepsTries(a, Done)
    BY BreakerAssumption DEF Done, QuestionOK, Tasks, Questions, NoTries, KeepsTries
  <2> QED
    BY <1>1, <2>1, <2>2 DEF Settle
<1>2. CASE ~\A t \in Tasks : question.left[t] = 0
  BY <1>2 DEF Settle
<1> QED
  BY <1>1, <1>2

(* The questions stay well formed when one is replaced. *)
LEMMA QuestionsStay ==
    ASSUME BreakerInv, NEW a \in AskCalls,
           NEW q \in Questions,
           QuestionOK(q),
           ask' = [ask EXCEPT ![a] = q]
    PROVE  /\ ask' \in [AskCalls ->
                  Questions]
           /\ \A b \in AskCalls : QuestionOK(ask'[b])
           /\ \A b \in AskCalls : ask'[b] = IF b = a THEN q ELSE ask[b]
BY DEF BreakerInv, BreakerTypeOK, Questions

(* A step in which no request is made and the queries that have failed or   *)
(* are in flight stay as many keeps the bounds.                             *)
LEMMA WithinStays ==
    ASSUME BreakerInv, requests' = requests,
           Cardinality(Owed') \in Nat, Cardinality(Owed') <= Cardinality(Owed),
           breaker'.failures + Cardinality(Flights') = breaker.failures + Cardinality(Flights)
    PROVE  /\ Within(breaker.failures + Cardinality(Flights))'
           /\ Within((Threshold - 1) + Seats)'
<1>1. requests \in Nat /\ Cardinality(Owed) \in Nat /\ Cardinality(Flights) \in Nat
      /\ Seats \in Nat /\ breaker.failures \in Nat
  BY FlightsFit DEF BreakerInv, BreakerTypeOK, Owed, Flights, Questions
<1>2. /\ (1 + Retries) * (breaker.failures + Cardinality(Flights)) \in Nat
      /\ (1 + Retries) * ((Threshold - 1) + Seats) \in Nat
  BY <1>1, Products, BreakerAssumption
<1>3. requests + Cardinality(Owed) <= (1 + Retries) * (breaker.failures + Cardinality(Flights))
      /\ requests + Cardinality(Owed) <= (1 + Retries) * ((Threshold - 1) + Seats)
  BY DEF BreakerInv, Within
<1>4. requests' + Cardinality(Owed') <= requests + Cardinality(Owed)
  BY <1>1
<1>5. Seats' = Seats
  BY DEF Seats
<1> QED
  BY <1>1, <1>2, <1>3, <1>4, <1>5 DEF Within

LEMMA RetrieveInv ==
    ASSUME BreakerInv, NEW a \in AskCalls, Retrieve(a) PROVE BreakerInv'
<1>s. PICK sure \in BOOLEAN : \E left \in Work(sure) :
         ask' = [ask EXCEPT ![a] = [Done EXCEPT !.sure = sure, !.left = left]]
  BY DEF Retrieve
<1>1. PICK left \in Work(sure) :
         ask' = [ask EXCEPT ![a] = [Done EXCEPT !.sure = sure, !.left = left]]
  BY <1>s
<1> DEFINE q == [Done EXCEPT !.sure = sure, !.left = left]
<1>2. left \in [Tasks -> 0..2] /\ (sure => \A e \in EvidenceTasks \ {"chosen"} : left[e] = 0)
  BY DEF Work
<1>3. q \in Questions /\ QuestionOK(q) /\ q.flying = {} /\ KeepsTries(a, q)
  <2>1. Done \in Questions /\ Done.flying = {} /\ Done.tries = NoTries
    BY BreakerAssumption DEF Done, Questions, NoTries
  <2>2. /\ q \in Questions
        /\ q.sure = sure /\ q.left = left /\ q.flying = {} /\ q.tries = NoTries
    BY <1>2, <2>1 DEF Questions
  <2> HIDE DEF q
  <2> QED
    BY <1>2, <2>2 DEF QuestionOK, NoTries, KeepsTries
<1>4. ask' = [ask EXCEPT ![a] = q]
  BY <1>1
<1> HIDE DEF q
<1>5. /\ ask' \in [AskCalls -> Questions]
      /\ \A c \in AskCalls : QuestionOK(ask'[c])
      /\ \A c \in AskCalls : ask'[c] = IF c = a THEN q ELSE ask[c]
  BY <1>3, <1>4, QuestionsStay
<1>6. Flights' = Flights
  BY <1>3, <1>5 DEF Flights, FlightsOf, Retrieve, Done
<1>7. UNCHANGED <<breaker, requests>>
  BY DEF Retrieve
<1>8. Cardinality(Owed') \in Nat /\ Cardinality(Owed') <= Cardinality(Owed)
  BY <1>3, <1>4, OwedShrinks
<1>9. Within(breaker.failures + Cardinality(Flights))' /\ Within((Threshold - 1) + Seats)'
  BY <1>6, <1>7, <1>8, WithinStays
<1> QED
  BY <1>5, <1>7, <1>9 DEF BreakerInv, BreakerTypeOK, Questions

(* A query that is let through owes all its retries. *)
LEMMA SendOwes ==
    ASSUME BreakerInv, NEW a \in AskCalls, NEW t \in Tasks, t \notin ask[a].flying,
           NEW q \in Questions, ask' = [ask EXCEPT ![a] = q],
           q.flying = ask[a].flying \cup {t}, q.tries = ask[a].tries
    PROVE  Cardinality(Owed') <= Cardinality(Owed) + Retries
<1> DEFINE one == {<<a, t>>}
           new == one \X (1..Retries)
<1>1. ask \in [AskCalls -> Questions] /\ \A b \in AskCalls : QuestionOK(ask[b])
  BY DEF BreakerInv, BreakerTypeOK, Questions
<1>2. \A b \in AskCalls : ask'[b] = IF b = a THEN q ELSE ask[b]
  BY <1>1
<1>3. Owed' \in SUBSET (Owed \cup new)
  <2> SUFFICES ASSUME NEW f \in AskCalls \X Tasks, f[2] \in ask'[f[1]].flying,
                      NEW n \in 1..Retries, n > ask'[f[1]].tries[f[2]]
               PROVE  (f[2] \in ask[f[1]].flying /\ n > ask[f[1]].tries[f[2]]) \/ f = <<a, t>>
    BY DEF Owed, OwedOf, FlightsOf
  <2> QED
    BY <1>2
<1>4. IsFiniteSet(Owed) /\ Cardinality(Owed) \in Nat
  BY <1>1, FlightsFit DEF Owed
<1>5. IsFiniteSet(new) /\ Cardinality(new) = Retries
  <2> HIDE DEF one
  <2>1. IsFiniteSet(one) /\ Cardinality(one) = 1
    BY FS_Singleton DEF one
  <2>2. IsFiniteSet(new) /\ Cardinality(new) = Cardinality(one) * Cardinality(1..Retries)
    BY <2>1, RetrySet, FS_Product
  <2> QED
    BY <2>1, <2>2, RetrySet, BreakerAssumption
<1> HIDE DEF new
<1>6. /\ IsFiniteSet(Owed \cup new)
      /\ Cardinality(Owed \cup new) = Cardinality(Owed) + Retries - Cardinality(Owed \cap new)
  BY <1>4, <1>5, FS_Union
<1>7. Cardinality(Owed \cap new) \in Nat
  BY <1>4, FS_Intersection, FS_CardinalityType
<1>8. Cardinality(Owed') <= Cardinality(Owed \cup new) /\ Cardinality(Owed') \in Nat
  BY <1>3, <1>6, FS_Subset, FS_CardinalityType
<1> QED
  BY <1>4, <1>6, <1>7, <1>8, BreakerAssumption

LEMMA SendInv ==
    ASSUME BreakerInv, NEW a \in AskCalls, NEW t \in Tasks, SendQuery(a, t)
    PROVE  BreakerInv'
<1> DEFINE q == [ask[a] EXCEPT !.flying = @ \cup {t}]
<1>1. /\ ask[a] \in Questions
      /\ QuestionOK(ask[a])
  BY DEF BreakerInv, BreakerTypeOK, Questions
<1>2. MayQuery(a, t) /\ ask' = [ask EXCEPT ![a] = q]
  BY DEF SendQuery
<1>3. /\ q \in Questions
      /\ q.flying = ask[a].flying \cup {t} /\ q.tries = ask[a].tries
  BY <1>1 DEF Questions
<1>4. QuestionOK(q)
  BY <1>1, <1>2, BreakerAssumption DEF QuestionOK, MayQuery, Tasks, Questions
<1> HIDE DEF q
<1>5. /\ ask' \in [AskCalls -> Questions]
      /\ \A b \in AskCalls : QuestionOK(ask'[b])
      /\ \A b \in AskCalls : ask'[b] = IF b = a THEN q ELSE ask[b]
  BY <1>2, <1>3, <1>4, QuestionsStay
<1>6. Flights' = Flights \cup {<<a, t>>} /\ <<a, t>> \notin Flights
  BY <1>2, <1>3, <1>5 DEF Flights, FlightsOf, MayQuery
<1>7. /\ IsFiniteSet(Flights) /\ Cardinality(Flights) \in Nat
      /\ Cardinality(Owed) \in Nat
  BY FlightsFit DEF BreakerInv, BreakerTypeOK, Flights, Owed, Questions
<1>8. Cardinality(Flights') = Cardinality(Flights) + 1
  BY <1>6, <1>7, FS_AddElement
<1>9. /\ Seats \in Nat /\ Seats' = Seats /\ Cardinality(Flights') <= Seats
      /\ Cardinality(Owed') \in Nat
      /\ Cardinality(Owed') <= Cardinality(Flights') * Retries
  BY <1>5, FlightsFit DEF Flights, Owed, Seats
<1>10. Cardinality(Owed') <= Cardinality(Owed) + Retries
  BY <1>2, <1>3, SendOwes DEF MayQuery
<1>11. /\ breaker \in [failures : Nat, state : {"closed", "open", "due"}] /\ requests \in Nat
       /\ breaker.state = "closed" => breaker.failures < Threshold
       /\ requests + Cardinality(Owed)
             <= (1 + Retries) * (breaker.failures + Cardinality(Flights))
  BY DEF BreakerInv, BreakerTypeOK, Within
<1>12. ASSUME NEW failures \in Nat, failures < Threshold, breaker'.failures = failures,
              breaker' \in [failures : Nat, state : {"closed", "open", "due"}],
              breaker'.state = "closed", requests' \in Nat,
              requests' + Cardinality(Owed')
                 <= (1 + Retries) * (failures + Cardinality(Flights'))
       PROVE  BreakerInv'
  <2>1. /\ failures + Cardinality(Flights') \in Nat
        /\ (Threshold - 1) + Seats \in Nat
        /\ failures + Cardinality(Flights') <= (Threshold - 1) + Seats
    BY <1>7, <1>8, <1>9, <1>12, BreakerAssumption
  <2>2. /\ (1 + Retries) * (failures + Cardinality(Flights'))
              <= (1 + Retries) * ((Threshold - 1) + Seats)
        /\ (1 + Retries) * (failures + Cardinality(Flights')) \in Nat
        /\ (1 + Retries) * ((Threshold - 1) + Seats) \in Nat
    BY <2>1, Products
  <2>3. requests' + Cardinality(Owed') <= (1 + Retries) * ((Threshold - 1) + Seats)
    BY <1>9, <1>12, <2>2
  <2> QED
    BY <1>5, <1>9, <1>12, <2>3 DEF BreakerInv, BreakerTypeOK, Within, Questions
<1>13. CASE breaker.state = "closed"
  <2>1. requests' = requests + 1 /\ breaker' = breaker
    BY <1>13 DEF SendQuery
  <2> DEFINE n == breaker.failures + Cardinality(Flights)
  <2>2. n \in Nat /\ breaker'.failures + Cardinality(Flights') = n + 1
    BY <1>7, <1>8, <1>11, <2>1
  <2>3. (1 + Retries) * (n + 1) = (1 + Retries) * n + (1 + Retries) /\ (1 + Retries) * n \in Nat
    BY <2>2, Products
  <2>4. requests + Cardinality(Owed) <= (1 + Retries) * n
    BY <1>11
  <2> HIDE DEF n
  <2>5. requests' + Cardinality(Owed') <= (1 + Retries) * (n + 1)
    BY <1>7, <1>9, <1>10, <1>11, <2>1, <2>3, <2>4, BreakerAssumption
  <2> QED
    BY <1>11, <1>12, <1>13, <2>1, <2>2, <2>5
<1>14. CASE breaker.state # "closed"
  <2>1. requests' = 1 /\ breaker' = [failures |-> 0, state |-> "closed"]
    BY <1>14 DEF SendQuery, ClosedBreaker
  <2>2. Cardinality(Flights') \in Nat /\ Cardinality(Flights') >= 1
    BY <1>7, <1>8
  <2>3. /\ Cardinality(Flights') * Retries + Cardinality(Flights')
              = (1 + Retries) * Cardinality(Flights')
        /\ Cardinality(Flights') * Retries \in Nat
    BY <2>2, Products, BreakerAssumption
  <2>4. requests' + Cardinality(Owed') <= (1 + Retries) * (0 + Cardinality(Flights'))
    BY <1>9, <2>1, <2>2, <2>3
  <2> QED
    BY <1>12, <2>1, <2>4, BreakerAssumption
<1> QED
  BY <1>13, <1>14

(* A retry is a request that was owed. *)
LEMMA RetryInv ==
    ASSUME BreakerInv, NEW a \in AskCalls, NEW t \in Tasks, RetryRequest(a, t)
    PROVE  BreakerInv'
<1> DEFINE q == [ask[a] EXCEPT !.tries[t] = @ + 1]
           n == ask[a].tries[t] + 1
<1>1. /\ ask \in [AskCalls -> Questions] /\ ask[a] \in Questions
      /\ \A b \in AskCalls : QuestionOK(ask[b])
      /\ t \in ask[a].flying /\ ask[a].tries[t] < Retries
  BY DEF BreakerInv, BreakerTypeOK, Questions, RetryRequest
<1>2. ask[a].tries \in [Tasks -> 0..Retries] /\ n \in 1..Retries
  BY <1>1, BreakerAssumption DEF Questions
<1>3. /\ q.sure = ask[a].sure /\ q.left = ask[a].left /\ q.flying = ask[a].flying
      /\ q.tries = [ask[a].tries EXCEPT ![t] = n]
      /\ q = [sure |-> q.sure, left |-> q.left, flying |-> q.flying, tries |-> q.tries]
  BY <1>1 DEF Questions
<1>4. ask' = [ask EXCEPT ![a] = q] /\ requests' = requests + 1 /\ breaker' = breaker
  BY DEF RetryRequest
<1> HIDE DEF q
<1>5. q.tries \in [Tasks -> 0..Retries] /\ q.tries[t] = n
      /\ \A u \in Tasks : u # t => q.tries[u] = ask[a].tries[u]
  BY <1>2, <1>3, BreakerAssumption
<1>6. q \in Questions
  BY <1>1, <1>3, <1>5 DEF Questions
<1>7. QuestionOK(q)
  BY <1>1, <1>3, <1>5 DEF QuestionOK
<1>8. /\ ask' \in [AskCalls -> Questions]
      /\ \A b \in AskCalls : QuestionOK(ask'[b])
      /\ \A b \in AskCalls : ask'[b] = IF b = a THEN q ELSE ask[b]
  BY <1>4, <1>6, <1>7, QuestionsStay
<1>9. Flights' = Flights
  BY <1>3, <1>8 DEF Flights, FlightsOf
<1>10. <<<<a, t>>, n>> \in Owed
  BY <1>1, <1>2 DEF Owed, OwedOf, FlightsOf
<1>11. Owed' \in SUBSET (Owed \ {<<<<a, t>>, n>>})
  <2> SUFFICES ASSUME NEW f \in AskCalls \X Tasks, f[2] \in ask'[f[1]].flying,
                      NEW k \in 1..Retries, k > ask'[f[1]].tries[f[2]]
               PROVE  /\ f[2] \in ask[f[1]].flying /\ k > ask[f[1]].tries[f[2]]
                      /\ ~(f = <<a, t>> /\ k = n)
    BY DEF Owed, OwedOf, FlightsOf
  <2>1. CASE f[1] = a /\ f[2] = t
    BY <2>1, <1>1, <1>2, <1>3, <1>5, <1>8
  <2>2. CASE ~(f[1] = a /\ f[2] = t)
    BY <2>2, <1>3, <1>5, <1>8
  <2> QED
    BY <2>1, <2>2
<1>12. IsFiniteSet(Owed) /\ Cardinality(Owed) \in Nat
  BY <1>1, FlightsFit DEF Owed
<1>13. Cardinality(Owed') \in Nat /\ Cardinality(Owed') + 1 <= Cardinality(Owed)
  <2>1. /\ Cardinality(Owed \ {<<<<a, t>>, n>>}) = Cardinality(Owed) - 1
        /\ IsFiniteSet(Owed \ {<<<<a, t>>, n>>})
    BY <1>10, <1>12, FS_RemoveElement
  <2> QED
    BY <1>11, <1>12, <2>1, FS_Subset, FS_CardinalityType
<1>14. /\ requests \in Nat /\ breaker.failures \in Nat /\ Cardinality(Flights) \in Nat
       /\ Seats \in Nat /\ Seats' = Seats
  BY <1>1, FlightsFit DEF BreakerInv, BreakerTypeOK, Flights, Seats
<1>15. requests' + Cardinality(Owed') <= requests + Cardinality(Owed)
  BY <1>4, <1>12, <1>13, <1>14
<1>16. /\ (1 + Retries) * (breaker.failures + Cardinality(Flights)) \in Nat
       /\ (1 + Retries) * ((Threshold - 1) + Seats) \in Nat
  BY <1>14, Products, BreakerAssumption
<1>17. /\ Within(breaker.failures + Cardinality(Flights))'
       /\ Within((Threshold - 1) + Seats)'
  BY <1>4, <1>9, <1>12, <1>13, <1>14, <1>15, <1>16 DEF BreakerInv, Within
<1> QED
  BY <1>4, <1>8, <1>14, <1>17 DEF BreakerInv, BreakerTypeOK, Questions

LEMMA SucceedInv ==
    ASSUME BreakerInv, NEW a \in AskCalls, NEW t \in Tasks, QuerySucceeds(a, t)
    PROVE  BreakerInv'
<1>1. /\ ask[a] \in Questions
      /\ QuestionOK(ask[a])
      /\ t \in ask[a].flying
  BY DEF BreakerInv, BreakerTypeOK, QuerySucceeds, Questions
<1>2. /\ ask[a].left[t] > 0
      /\ t = "baseline" => \A e \in EvidenceTasks : ask[a].left[e] = 0
  BY <1>1 DEF QuestionOK, Questions
<1>3. ASSUME NEW n \in {ask[a].left[t] - 1} \cup (IF t = "baseline" THEN {0} ELSE {}),
             Settle(a, Landed(a, t, n))
      PROVE  \E question \in Questions :
                QuestionOK(question) /\ KeepsTries(a, question) /\ Settle(a, question)
  <2> DEFINE question == Landed(a, t, n)
  <2>1. n \in 0..2 /\ n < ask[a].left[t]
    BY <1>1, <1>2 DEF Questions
  <2>2. /\ question.sure = ask[a].sure
        /\ question.left = [ask[a].left EXCEPT ![t] = n]
        /\ question.flying = ask[a].flying \ {t}
        /\ question.tries = [ask[a].tries EXCEPT ![t] = 0]
        /\ question = [sure |-> question.sure, left |-> question.left,
                       flying |-> question.flying, tries |-> question.tries]
    <3>1. question = [ask[a] EXCEPT !.flying = @ \ {t}, !.tries[t] = 0, !.left[t] = n]
      BY DEF Landed
    <3> HIDE DEF question
    <3> QED
      BY <1>1, <3>1 DEF Questions
  <2> HIDE DEF question
  <2>3. /\ question.tries \in [Tasks -> 0..Retries] /\ question.tries[t] = 0
        /\ \A u \in Tasks : u # t => question.tries[u] = ask[a].tries[u]
        /\ question.left \in [Tasks -> 0..2] /\ question.left[t] = n
        /\ \A u \in Tasks : u # t => question.left[u] = ask[a].left[u]
        /\ ask[a].flying \subseteq Tasks
    BY <1>1, <2>1, <2>2, BreakerAssumption DEF Questions
  <2>4. question \in Questions
    BY <1>1, <2>2, <2>3 DEF Questions
  <2>5. QuestionOK(question) /\ KeepsTries(a, question)
    BY <1>1, <2>1, <2>2, <2>3, BreakerAssumption DEF QuestionOK, KeepsTries, Tasks
  <2> QED
    BY <1>3, <2>4, <2>5 DEF question
<1>4. ASSUME Settle(a, AfterLoss(a, t))
      PROVE  \E question \in Questions :
                QuestionOK(question) /\ KeepsTries(a, question) /\ Settle(a, question)
  BY <1>1, <1>2, <1>4, LossFacts DEF Questions
<1>5. PICK question \in Questions :
         QuestionOK(question) /\ KeepsTries(a, question) /\ Settle(a, question)
  BY <1>3, <1>4 DEF QuerySucceeds
<1>6. PICK q \in Questions :
         /\ ask' = [ask EXCEPT ![a] = q]
         /\ QuestionOK(q)
         /\ q.flying = question.flying
  BY <1>5, SettleFacts
<1>7. /\ ask' \in [AskCalls -> Questions]
      /\ \A b \in AskCalls : QuestionOK(ask'[b])
  BY <1>6, QuestionsStay
<1>8. /\ Cardinality(Flights') \in Nat /\ Cardinality(Owed') \in Nat
      /\ Cardinality(Owed') <= Cardinality(Flights') * Retries
      /\ Seats \in Nat /\ Seats' = Seats /\ Cardinality(Flights') <= Seats
  BY <1>7, FlightsFit DEF Flights, Owed, Seats
<1>9. requests' = 0 /\ breaker' = [failures |-> 0, state |-> "closed"]
  BY DEF QuerySucceeds, ClosedBreaker
<1>10. /\ Cardinality(Flights') * Retries + Cardinality(Flights')
             = (1 + Retries) * Cardinality(Flights')
       /\ Cardinality(Flights') * Retries \in Nat
       /\ (1 + Retries) * Cardinality(Flights') <= (1 + Retries) * ((Threshold - 1) + Seats)
       /\ (1 + Retries) * ((Threshold - 1) + Seats) \in Nat
  <2>1. (Threshold - 1) + Seats \in Nat /\ Cardinality(Flights') <= (Threshold - 1) + Seats
    BY <1>8, BreakerAssumption
  <2> DEFINE F == Cardinality(Flights')
             most == (Threshold - 1) + Seats
  <2>2. F \in Nat /\ most \in Nat /\ F <= most
    BY <1>8, <2>1
  <2> HIDE DEF F, most
  <2>3. /\ F * Retries + F = (1 + Retries) * F
        /\ F * Retries \in Nat
        /\ (1 + Retries) * F <= (1 + Retries) * most
        /\ (1 + Retries) * most \in Nat
    BY <2>2, Products, BreakerAssumption
  <2> QED
    BY <2>3 DEF F, most
<1>11. requests' + Cardinality(Owed') <= (1 + Retries) * (0 + Cardinality(Flights'))
  BY <1>8, <1>9, <1>10
<1>12. requests' + Cardinality(Owed') <= (1 + Retries) * ((Threshold - 1) + Seats)
  BY <1>8, <1>9, <1>10
<1> QED
  BY <1>7, <1>8, <1>9, <1>11, <1>12, BreakerAssumption
     DEF BreakerInv, BreakerTypeOK, Within, Questions

LEMMA FailInv ==
    ASSUME BreakerInv, NEW a \in AskCalls, NEW t \in Tasks, QueryFails(a, t)
    PROVE  BreakerInv'
<1> DEFINE question == AfterLoss(a, t)
<1>1. /\ ask[a] \in Questions
      /\ QuestionOK(ask[a])
      /\ t \in ask[a].flying
      /\ ask[a].left[t] > 0
      /\ t = "baseline" => \A e \in EvidenceTasks : ask[a].left[e] = 0
  BY DEF BreakerInv, BreakerTypeOK, QueryFails, QuestionOK, Questions
<1>2. /\ question \in Questions
      /\ QuestionOK(question)
      /\ question.flying = ask[a].flying \ {t}
      /\ KeepsTries(a, question)
  BY <1>1, LossFacts
<1>3. Settle(a, question)
  BY DEF QueryFails
<1> HIDE DEF question
<1>4. PICK q \in Questions :
         /\ ask' = [ask EXCEPT ![a] = q]
         /\ QuestionOK(q)
         /\ q.flying = question.flying
         /\ KeepsTries(a, q)
  BY <1>2, <1>3, SettleFacts
<1>5. /\ ask' \in [AskCalls -> Questions]
      /\ \A b \in AskCalls : QuestionOK(ask'[b])
  BY <1>4, QuestionsStay
<1>6. Flights' = Flights \ {<<a, t>>} /\ <<a, t>> \in Flights
  BY <1>1, <1>2, <1>4, Landing
<1>7. IsFiniteSet(Flights) /\ Cardinality(Flights) \in Nat
  BY FlightsFit DEF BreakerInv, BreakerTypeOK, Flights, Questions
<1>8. Cardinality(Flights') = Cardinality(Flights) - 1
  BY <1>6, <1>7, FS_RemoveElement
<1>9. /\ breaker'.failures = breaker.failures + 1 /\ breaker.failures \in Nat
      /\ breaker'.state = "closed" => breaker'.failures < Threshold
      /\ breaker' \in [failures : Nat, state : {"closed", "open", "due"}]
      /\ requests' = requests
  BY BreakerAssumption DEF QueryFails, OneMoreFailure, BreakerInv, BreakerTypeOK
<1>10. breaker'.failures + Cardinality(Flights') = breaker.failures + Cardinality(Flights)
  BY <1>7, <1>8, <1>9
<1>11. Cardinality(Owed') \in Nat /\ Cardinality(Owed') <= Cardinality(Owed)
  BY <1>2, <1>4, OwedShrinks
<1>12. Within(breaker.failures + Cardinality(Flights))' /\ Within((Threshold - 1) + Seats)'
  BY <1>9, <1>10, <1>11, WithinStays
<1> QED
  BY <1>5, <1>9, <1>12 DEF BreakerInv, BreakerTypeOK, Questions

LEMMA RefusedInv ==
    ASSUME BreakerInv, NEW a \in AskCalls, NEW t \in Tasks, QueryRefused(a, t)
    PROVE  BreakerInv'
<1> DEFINE question == AfterLoss(a, t)
<1>1. /\ ask[a].left[t] > 0
      /\ t = "baseline" => \A e \in EvidenceTasks : ask[a].left[e] = 0
      /\ t \notin ask[a].flying
  BY DEF QueryRefused, MayQuery
<1>2. /\ question \in Questions
      /\ QuestionOK(question)
      /\ question.flying = ask[a].flying
      /\ KeepsTries(a, question)
  <2> DEFINE lost == AfterLoss(a, t)
  <2> HIDE DEF lost
  <2>1. /\ lost \in Questions /\ QuestionOK(lost)
        /\ lost.flying = ask[a].flying \ {t}
        /\ KeepsTries(a, lost)
    BY <1>1, LossFacts DEF lost
  <2> QED
    BY <1>1, <2>1 DEF lost
<1>3. Settle(a, question)
  BY DEF QueryRefused
<1> HIDE DEF question
<1>4. PICK q \in Questions :
         /\ ask' = [ask EXCEPT ![a] = q]
         /\ QuestionOK(q)
         /\ q.flying = question.flying
         /\ KeepsTries(a, q)
  BY <1>2, <1>3, SettleFacts
<1>5. /\ ask' \in [AskCalls -> Questions]
      /\ \A b \in AskCalls : QuestionOK(ask'[b])
      /\ \A b \in AskCalls : ask'[b] = IF b = a THEN q ELSE ask[b]
  BY <1>4, QuestionsStay
<1>6. Flights' = Flights
  BY <1>2, <1>4, <1>5 DEF Flights, FlightsOf
<1>7. UNCHANGED <<breaker, requests>>
  BY DEF QueryRefused
<1>8. Cardinality(Owed') \in Nat /\ Cardinality(Owed') <= Cardinality(Owed)
  BY <1>2, <1>4, OwedShrinks
<1>9. Within(breaker.failures + Cardinality(Flights))' /\ Within((Threshold - 1) + Seats)'
  BY <1>6, <1>7, <1>8, WithinStays
<1> QED
  BY <1>5, <1>7, <1>9 DEF BreakerInv, BreakerTypeOK, Questions

LEMMA NextBreakerInv == BreakerInv /\ [BreakerNext]_breakerVars => BreakerInv'
<1> SUFFICES ASSUME BreakerInv, [BreakerNext]_breakerVars PROVE BreakerInv'
  OBVIOUS
<1>1. CASE UNCHANGED breakerVars
  BY <1>1 DEF breakerVars, BreakerInv, BreakerTypeOK, QuestionOK, Flights, FlightsOf,
     Owed, OwedOf, Within, Seats
<1>2. CASE ResetIsDue
  BY <1>2 DEF ResetIsDue, BreakerInv, BreakerTypeOK, QuestionOK, Flights, FlightsOf,
     Owed, OwedOf, Within, Seats
<1>3. CASE RestartAgent
  BY <1>3, AgentRestartInv
<1>4. ASSUME NEW a \in AskCalls, Retrieve(a) PROVE BreakerInv'
  BY <1>4, RetrieveInv
<1>5. ASSUME NEW a \in AskCalls, NEW t \in Tasks,
             \/ SendQuery(a, t) \/ RetryRequest(a, t) \/ QueryRefused(a, t)
             \/ QuerySucceeds(a, t) \/ QueryFails(a, t)
      PROVE  BreakerInv'
  BY <1>5, SendInv, RetryInv, RefusedInv, SucceedInv, FailInv
<1> QED
  BY <1>1, <1>2, <1>3, <1>4, <1>5 DEF BreakerNext

(* The state of the breaker and of the questions is always well formed. *)
THEOREM BreakerTypeCorrect == BreakerSpec => []BreakerTypeOK
<1>1. BreakerInv => BreakerTypeOK
  BY DEF BreakerInv
<1> QED
  BY InitBreakerInv, NextBreakerInv, <1>1, PTL DEF BreakerSpec

(* The breaker bounds the requests that an Elasticsearch which answers      *)
(* nothing gets, the retries of the client counted, for any number of       *)
(* questions.                                                               *)
THEOREM BreakerHolds == BreakerSpec => []BreakerBoundsRequests
<1>1. BreakerInv => BreakerBoundsRequests
  <2> SUFFICES ASSUME BreakerInv PROVE BreakerBoundsRequests
    OBVIOUS
  <2>1. requests \in Nat /\ Cardinality(Owed) \in Nat /\ Seats \in Nat
    BY FlightsFit DEF BreakerInv, BreakerTypeOK, Owed, Questions
  <2>2. (1 + Retries) * ((Threshold - 1) + Seats) \in Nat
    BY <2>1, Products, BreakerAssumption
  <2> QED
    BY <2>1, <2>2 DEF BreakerInv, Within, BreakerBoundsRequests
<1> QED
  BY InitBreakerInv, NextBreakerInv, <1>1, PTL DEF BreakerSpec
=============================================================================
