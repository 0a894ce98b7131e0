-------------------------------- MODULE MCServer ------------------------------
(* Small instances of Server for TLC. *)
EXTENDS Server, TLC

CONSTANTS r1, r2, r3, r4, k1, k2, near, far

Ask(kind, token, address) ==
    [kind |-> kind, token |-> token, address |-> address,
     idem |-> None, body |-> "none", wait |-> FALSE, target |-> None]

\* The same idempotency key; the body says whether to wait.
Run(token, body) ==
    [Ask("run", token, near) EXCEPT !.idem = "once", !.body = body, !.wait = body = "held"]

Revoke(token, target) == [Ask("revoke", token, far) EXCEPT !.target = target]

Stranger == Ask("run", "wrong", near)

SomeForms == {
    \* a command, and the same from another key
    r1 :> Run(k1, "held") @@ r2 :> Run(k2, "held"),
    \* a command, its retry, and the changed command
    r1 :> Run(k1, "held") @@ r2 :> Run(k1, "held") @@ r3 :> Run(k1, "brief"),
    \* two admins who revoke one another, and themselves, beside a stream
    r1 :> Revoke(k1, k2) @@ r2 :> Revoke(k2, k1) @@ r3 :> Revoke(k1, k1)
        @@ r4 :> Ask("stream", k2, far),
    \* strangers at the address of a caller
    r1 :> Stranger @@ r2 :> Stranger @@ r3 :> Stranger @@ r4 :> Ask("run", k2, near)}

===============================================================================
