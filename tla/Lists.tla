------------------------------- MODULE Lists -------------------------------
(* Removal from the kernel's doubly linked lists (frag6_remque, TAILQ_REMOVE *)
(* and LIST_REMOVE): the other elements stay in their order.                 *)
EXTENDS Naturals, Sequences

\* List s without the elements in gone.
Without(s, gone) ==
    LET left[n \in 0..Len(s)] ==
            IF n = 0 THEN <<>>
            ELSE IF s[n] \in gone THEN left[n - 1] ELSE Append(left[n - 1], s[n])
    IN  left[Len(s)]

=============================================================================
