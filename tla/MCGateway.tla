----------------------------- MODULE MCGateway -----------------------------
(***************************************************************************)
(* The shipped timeouts (10, 5, 8, 15, 15 s, and 15 s for the shutdown) in *)
(* ticks that keep their order; a configuration with a request timeout     *)
(* longer than the shutdown timeout; one whose read timeout exceeds the    *)
(* write timeout; and one that Validate must refuse, with equal request    *)
(* and write timeouts.                                                     *)
(***************************************************************************)
EXTENDS Gateway, TLC

CONSTANTS x1, x2

Options(request, grpcRead, grpcWrite, read, write) ==
    [request |-> request, grpcRead |-> grpcRead, grpcWrite |-> grpcWrite,
     read |-> read, write |-> write]

MCRoutes == (x1 :> Methods) @@ (x2 :> {"createOrder"})

MCOptionSets == {Options(3, 1, 2, 4, 4), Options(5, 1, 4, 1, 6),
                 Options(2, 1, 1, 4, 3), Options(2, 1, 1, 2, 2)}
=============================================================================
