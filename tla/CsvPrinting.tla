----------------------------- MODULE CsvPrinting -----------------------------
(***************************************************************************)
(* csv::Header and csv::Line of tools/csv_printing.h over protobuf         *)
(* messages.  A message holds a sequence of values for each field of its   *)
(* type: none or one for a singular field, any number for a repeated one.  *)
(* The names of a header stand as paths instead of being joined by "_",    *)
(* which could make one name of two paths.                                 *)
(*                                                                         *)
(* The two recurse over nested messages.  Here they are functions on the   *)
(* set Message, and the operator for one field is given the function.      *)
(***************************************************************************)
EXTENDS Naturals, SequencesExt

CONSTANTS
  Types,    \* the fields of each message type
  Scalars,  \* what the fields that are not messages may hold
  Message   \* the messages

Scalar == 0  \* in place of the number of a field's message type

IsMessage(field) == field.type # Scalar

\* GetDescriptor()
Fields(m) == Types[m.type]

\* A default instance, whose fields are not set.
Unset(type) == [type |-> type, values |-> [i \in DOMAIN Types[type] |-> <<>>]]

\* A type comes after those of its fields; Message has the messages that another
\* one nests, and the default instances printed for them.
CsvAssumption ==
  /\ Types \in Seq(Seq([name: STRING, label: {"required", "optional", "repeated"},
                        type: Nat]))
  /\ \A t \in DOMAIN Types : \A i \in DOMAIN Types[t] : Types[t][i].type < t
  /\ 0 \in Scalars
  /\ \A m \in Message :
       /\ m.type \in DOMAIN Types
       /\ \A i \in DOMAIN Fields(m) :
            IF IsMessage(Fields(m)[i])
            THEN /\ m.values[i] \in Seq({n \in Message : n.type = Fields(m)[i].type})
                 /\ Fields(m)[i].label = "required" =>
                      Unset(Fields(m)[i].type) \in Message
            ELSE m.values[i] \in Seq(Scalars)

ASSUME CsvAssumption

-----------------------------------------------------------------------------
\* How a field is printed: an optional one that is not set is left out.
Printed(field, values) ==
  IF field.label = "repeated" THEN "repeated"
  ELSE IF field.label = "optional" /\ values = <<>> THEN "not"
  ELSE IF IsMessage(field) THEN "message" ELSE "scalar"

\* GetMessage(), GetBool() and the others: the default where nothing is set.
Value(field, values) ==
  IF values # <<>> THEN values[1]
  ELSE IF IsMessage(field) THEN Unset(field.type) ELSE 0

\* The header asks a repeated field for one message: protobuf throws or aborts,
\* depending on how it is built.
FieldFails(field, values, fails) ==
  \/ Printed(field, values) = "repeated" /\ IsMessage(field) /\ values # <<>>
  \/ Printed(field, values) = "message" /\ fails[Value(field, values)]

HeaderFails[m \in Message] ==
  \E i \in DOMAIN Fields(m) : FieldFails(Fields(m)[i], m.values[i], HeaderFails)

\* Header& operator<<(const Message&), where it does not fail.
Columns(field, values, header) ==
  CASE Printed(field, values) = "repeated" ->
         [k \in DOMAIN values |-> <<field.name, k - 1>>]
    [] Printed(field, values) = "not" -> <<>>
    [] Printed(field, values) = "message" ->
         LET inner == header[Value(field, values)]
         IN  [k \in DOMAIN inner |-> <<field.name>> \o inner[k]]
    [] Printed(field, values) = "scalar" -> << <<field.name>> >>

Header[m \in Message] ==
  FlattenSeq([i \in DOMAIN Fields(m) |-> Columns(Fields(m)[i], m.values[i], Header)])

\* Line& operator<<(const Message&).
Entries(field, values, line) ==
  CASE Printed(field, values) = "repeated" ->
         IF IsMessage(field)
         THEN FlattenSeq([k \in DOMAIN values |-> line[values[k]]]) ELSE values
    [] Printed(field, values) = "not" -> <<>>
    [] Printed(field, values) = "message" -> line[Value(field, values)]
    [] Printed(field, values) = "scalar" -> << Value(field, values) >>

Line[m \in Message] ==
  FlattenSeq([i \in DOMAIN Fields(m) |-> Entries(Fields(m)[i], m.values[i], Line)])

-----------------------------------------------------------------------------
(* What the two are for. *)

\* The values of a message, each with the path to it; those in repeated
\* messages have none.
FieldNamed(field, values, named) ==
  CASE Printed(field, values) = "repeated" ->
         {<< <<field.name, k - 1>>, values[k] >> :
            k \in IF IsMessage(field) THEN {} ELSE DOMAIN values}
    [] Printed(field, values) = "not" -> {}
    [] Printed(field, values) = "message" ->
         {<< <<field.name>> \o e[1], e[2] >> : e \in named[Value(field, values)]}
    [] Printed(field, values) = "scalar" -> {<< <<field.name>>, Value(field, values) >>}

Named[m \in Message] ==
  UNION {FieldNamed(Fields(m)[i], m.values[i], Named) : i \in DOMAIN Fields(m)}

\* Messages of one shape set the same optional fields and repeat the others as
\* often as each other.
FieldShape(field, values, shape) ==
  CASE Printed(field, values) = "repeated" -> <<Len(values)>>
    [] Printed(field, values) = "not" -> <<>>
    [] Printed(field, values) = "message" -> <<shape[Value(field, values)]>>
    [] Printed(field, values) = "scalar" -> <<0>>

Shape[m \in Message] ==
  [i \in DOMAIN Fields(m) |-> FieldShape(Fields(m)[i], m.values[i], Shape)]

SameShape(m, n) == m.type = n.type /\ Shape[m] = Shape[n]

\* Under each column of `header` the line has the message's value of that name.
LineUnder(header, line, m) ==
  /\ Len(line) = Len(header)
  /\ \A k \in DOMAIN header : <<header[k], line[k]>> \in Named[m]
=============================================================================
