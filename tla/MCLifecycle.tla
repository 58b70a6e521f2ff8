---------------------------- MODULE MCLifecycle ----------------------------
(* The exchange and a client, with the shortest pauses with which nothing   *)
(* dangles.                                                                *)
EXTENDS Lifecycle

MCPrograms == {Exchange, Client}

MCPauseTurns == [c \in Components |-> CASE c = "server" -> 3
                                        [] c = "gateway" -> 3
                                        [] c = "publisher" -> 4
                                        [] OTHER -> 2]

Formats == UNION {[1 .. n -> {"%", "c"}] : n \in 0 .. 3}
MCLine == [format |-> <<"%">>, args |-> <<"v">>]
MCBookLines == {[format |-> f, args |-> a] : f \in Formats,
                    a \in {<<>>, <<"v">>, <<"v", "w">>}}
=============================================================================
