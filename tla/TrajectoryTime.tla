---------------------------- MODULE TrajectoryTime ---------------------------
(***************************************************************************)
(* rc::TrajectoryTime and the arguments of getSlamTrajectory(): instants a *)
(* program states with unsigned longs, kept and sent as signed ones, whose *)
(* sign tells the sensor which end of the trajectory they are relative to. *)
(* The query itself is one of DynamicsService.                             *)
(***************************************************************************)
EXTENDS DynamicsService, Integers

CONSTANT LongMax  \* largest long; an unsigned long holds 0..ULongMax

ASSUME TrajectoryTimeAssumption == LongMax \in Nat \ {0}

ULongMax == 2 * LongMax + 1
Long == -(LongMax + 1) .. LongMax
ULong == 0..ULongMax

-----------------------------------------------------------------------------
\* Unsigned negation, and the conversion of an unsigned long to a long.
Negated(n) == IF n = 0 THEN 0 ELSE ULongMax + 1 - n

Signed(n) == IF n > LongMax THEN n - (ULongMax + 1) ELSE n

Invalid == [relative |-> FALSE, sec |-> -1, nsec |-> -1]

\* Slip: the constructor lets negative absolute times pass.
Unvalidated(sec, nsec, relative) ==
  [relative |-> relative, sec |-> sec, nsec |-> nsec]

\* The constructor; Invalid stands for the invalid_argument it throws.
Time(sec, nsec, relative) ==
  IF ~relative /\ (sec < 0 \/ nsec < 0) THEN Invalid
  ELSE [relative |-> relative, sec |-> sec, nsec |-> nsec]

Absolute(sec, nsec) == Time(Signed(sec), Signed(nsec), FALSE)

RelativeToStart(sec, nsec) == Time(Signed(sec), Signed(nsec), TRUE)

RelativeToEnd(sec, nsec) ==
  Time(Signed(Negated(sec)), Signed(Negated(nsec)), TRUE)

-----------------------------------------------------------------------------
(* What a program means, and what the sensor makes of its request.         *)

\* An instant as a program states it.
Instant == [from: {"epoch", "start", "end"}, sec: ULong, nsec: ULong]

Constructed(i) ==
  CASE i.from = "epoch" -> Absolute(i.sec, i.nsec)
    [] i.from = "start" -> RelativeToStart(i.sec, i.nsec)
    [] i.from = "end" -> RelativeToEnd(i.sec, i.nsec)

\* getSlamTrajectory(): the flag of a field is sent only for a relative time.
Request(start, end) ==
  [start_time |-> [sec |-> start.sec, nsec |-> start.nsec],
   end_time |-> [sec |-> end.sec, nsec |-> end.nsec],
   flags |-> {f \in {"start_time_relative", "end_time_relative"} :
                \/ f = "start_time_relative" /\ start.relative
                \/ f = "end_time_relative" /\ end.relative}]

\* The sensor's reading of one field: negative values count from the end of
\* the trajectory (trajectory_time.h:49), and zero is the end for the field
\* end_time, its start for start_time (remote_interface.h:331).
Read(time, relative, edge) ==
  IF ~relative THEN [from |-> "epoch", sec |-> time.sec, nsec |-> time.nsec]
  ELSE IF time.sec < 0 \/ time.nsec < 0
  THEN [from |-> "end", sec |-> -time.sec, nsec |-> -time.nsec]
  ELSE [from |-> IF time.sec = 0 /\ time.nsec = 0 THEN edge ELSE "start",
        sec |-> time.sec, nsec |-> time.nsec]

ReadStart(rq) ==
  Read(rq.start_time, "start_time_relative" \in rq.flags, "start")

ReadEnd(rq) == Read(rq.end_time, "end_time_relative" \in rq.flags, "end")

-----------------------------------------------------------------------------
\* Both values fit a long, so that no conversion changes their sign.
InRange(i) == i.sec <= LongMax /\ i.nsec <= LongMax

\* The other edge without an offset has no form of its own in the request.
Expressible(i, edge) ==
  i.sec = 0 /\ i.nsec = 0 => i.from \in {"epoch", edge}

RequestsAsMeant ==
  \A i, j \in Instant :
    LET start == Constructed(i)
        end == Constructed(j)
        rq == Request(start, end)
    IN  /\ i.from = "epoch" /\ ~InRange(i) <=> start = Invalid
        /\ start # Invalid /\ InRange(i) /\ Expressible(i, "start")
             => ReadStart(rq) = i
        /\ end # Invalid /\ InRange(j) /\ Expressible(j, "end")
             => ReadEnd(rq) = j

\* A getSlamTrajectory() on the wire asks the sensor for the part of the
\* trajectory that the program means, whatever times that fit a long it has
\* passed; an absolute time that does not fit throws and is never sent.  The
\* full trajectory is what RelativeToStart() and RelativeToEnd() ask for, as
\* remote_interface.h:329 says.
TrajectoryAsMeant ==
  call.phase = "sent" /\ call.service = "get_trajectory" => RequestsAsMeant
=============================================================================
