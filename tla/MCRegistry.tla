----------------------------- MODULE MCRegistry -----------------------------
(* Instances of Registry.                                                   *)
EXTENDS Registry

TwoDescriptors == 1 .. 2

ThreeOffers == {[kind |-> "shared_memory", max_message_size |-> 1],
                [kind |-> "shared_memory", max_message_size |-> 2],
                [kind |-> "unix_socket", max_message_size |-> 1]}

=============================================================================
