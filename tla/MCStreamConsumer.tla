--------------------------- MODULE MCStreamConsumer ---------------------------
(* A small instance of StreamConsumer, and the loops of _lanes compared    *)
(* with the closed form it schedules by.                                   *)
EXTENDS StreamConsumer
LOCAL INSTANCE SequencesExt

\* A message that cannot be decoded, then a job published twice.
MCEvents == <<2, 1, 1>>
MCKinds == <<"broken", "job", "job">>
MCSubjects == [v \in Event |-> v]

Positions(s) == [i \in 1..Len(s) |-> i]

\* partitions.setdefault(_entity_key(message), []).append(message), message by message.
Partitions(keys) ==
  LET AddTo(parts, i) ==
        IF \E p \in 1..Len(parts) : keys[parts[p][1]] = keys[i]
          THEN [p \in 1..Len(parts) |->
                  IF keys[parts[p][1]] = keys[i] THEN Append(parts[p], i) ELSE parts[p]]
          ELSE Append(parts, <<i>>)
  IN FoldLeft(AddTo, <<>>, Positions(keys))

\* A lane of its own while index < width, else the lane index % width.
Dealt(keys, width) ==
  LET parts == Partitions(keys)
      Deal(lanes, p) ==
        IF p - 1 < width THEN Append(lanes, parts[p])
        ELSE [lanes EXCEPT ![((p - 1) % width) + 1] = @ \o parts[p]]
  IN FoldLeft(Deal, <<>>, Positions(parts))

\* For every batch and width the loops deal each message once, into the lane that
\* LaneDealing names and behind exactly the messages it puts before it.
ASSUME LanesAreDealtAsScheduled ==
  \A n \in 0..4 : \A keys \in [1..n -> 1..4] : \A width \in 1..3 :
    LET lanes == Dealt(keys, width) IN
    /\ FoldLeft(LAMBDA sum, lane : sum + Len(lane), 0, lanes) = n
    /\ \A l \in 1..Len(lanes) : \A p \in 1..Len(lanes[l]) :
         /\ Lane(keys, width, lanes[l][p]) = l - 1
         /\ {lanes[l][q] : q \in 1..(p - 1)} =
              {j \in 1..n : Precedes(keys, width, j, lanes[l][p])}
=============================================================================
