----------------------------- MODULE MCRecording -----------------------------
(***************************************************************************)
(* Recording for a type with every kind of field that the printing tells   *)
(* apart: required and repeated scalars, an optional message with an       *)
(* optional field, and a repeated message.                                 *)
(***************************************************************************)
EXTENDS Recording

Field(name, label, type) == [name |-> name, label |-> label, type |-> type]
Of(type, values) == [type |-> type, values |-> values]

MCTypes == << <<Field("x", "required", Scalar), Field("y", "optional", Scalar)>>,
              <<Field("time", "required", Scalar), Field("pose", "optional", 1),
                Field("covariance", "repeated", Scalar),
                Field("marks", "repeated", 1)>> >>

MCScalars == 0..12

Inner(x, y) == Of(1, <<x, y>>)
Outer(time, pose, covariance, marks) == Of(2, <<time, pose, covariance, marks>>)

\* The first two have one shape, and the third one cannot be given a header.
MCMessages ==
  {Outer(<<1>>, <<Inner(<<2>>, <<>>)>>, <<3, 4>>, <<>>),
   Outer(<<9>>, <<Inner(<<10>>, <<>>)>>, <<11, 12>>, <<>>),
   Outer(<<5>>, <<>>, <<6>>, <<Inner(<<7>>, <<8>>)>>)}

\* Nothing, a pose of which nothing was read, one value of two, and fields of
\* which another type has none.
MCFragments ==
  {Unset(2),
   Outer(<<1>>, <<Unset(1)>>, <<>>, <<>>),
   Outer(<<1>>, <<Inner(<<2>>, <<>>)>>, <<3>>, <<>>),
   Outer(<<>>, <<Inner(<<>>, <<8>>)>>, <<>>, <<Unset(1)>>)}

MCMessage ==
  MCMessages \cup MCFragments \cup
    {Unset(1), Inner(<<2>>, <<>>), Inner(<<10>>, <<>>), Inner(<<7>>, <<8>>),
     Inner(<<>>, <<8>>)}
=============================================================================
