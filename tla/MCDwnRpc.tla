------------------------------ MODULE MCDwnRpc ------------------------------
(* Instances of DwnRpc. *)
EXTENDS DwnRpc

CONSTANTS listen, write

\* A subscription and a message share the first host, which is listed with a
\* ws: URL for the target of the message; the message is first tried at the
\* second, by HTTP.
TwoHosts == (listen :> <<1, 2>>) @@ (write :> <<2, 1>>)
OverSocket == {<<write, 2>>}
=============================================================================
