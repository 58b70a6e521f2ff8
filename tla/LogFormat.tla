----------------------------- MODULE LogFormat -----------------------------
(***************************************************************************)
(* Logger::log and pushValue in common/logging.hpp: what a call puts in    *)
(* the logger's queue.  An element is a character of the format or a value.*)
(***************************************************************************)
EXTENDS Integers, Sequences, FiniteSets

CONSTANTS
    Percent,        \* the character '%'
    Invalid         \* what log() ends in when it calls FATAL
----------------------------------------------------------------------------
(* log(): what a call pushes, from the characters of its format and its    *)
(* arguments.                                                              *)

Scan(s, args, lenient) ==
    LET scan[i \in 1 .. Len(s) + 1] == [used \in 0 .. Len(args) |->
          IF i > Len(s)
            THEN IF used = Len(args) \/ lenient THEN <<>> ELSE <<Invalid>>
          ELSE IF s[i] # Percent
            THEN <<s[i]>> \o scan[i + 1][used]
          ELSE IF i < Len(s) /\ s[i + 1] = Percent
            THEN <<Percent>> \o scan[i + 2][used]
          ELSE IF used = Len(args)
            THEN <<Invalid>>
            ELSE <<args[used + 1]>> \o scan[i + 1][used + 1]]
    IN scan[1][0]

\* Defect for the mutation runs: a format may end before its arguments.
LogLenient(s, args) == Scan(s, args, TRUE)
Log(s, args) == Scan(s, args, FALSE)

Fatal(elements) == \E i \in DOMAIN elements : elements[i] = Invalid
----------------------------------------------------------------------------
(* What a line should look like, without a scan: of every run of % signs   *)
(* each pair is one % and an odd one at the end is a place for a value.    *)

\* How many % signs in a row end at i.
Run(s, i) == Cardinality({j \in 1 .. i : \A k \in j .. i : s[k] = Percent})

Places(s) == {i \in DOMAIN s : /\ Run(s, i) % 2 = 1
                               /\ i + 1 \in DOMAIN s => s[i + 1] # Percent}

Shown(s) == {i \in DOMAIN s : Run(s, i) % 2 = 0} \cup Places(s)

Matches(s, args) == Cardinality(Places(s)) = Len(args)

Rendering(s, args) ==
    LET UpTo(S, i) == Cardinality({j \in S : j <= i})
        at(n) == CHOOSE i \in Shown(s) : UpTo(Shown(s), i) = n
    IN [n \in 1 .. Cardinality(Shown(s)) |->
          IF at(n) \in Places(s) THEN args[UpTo(Places(s), at(n))] ELSE s[at(n)]]
=============================================================================
