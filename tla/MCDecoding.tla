------------------------------ MODULE MCDecoding ------------------------------
(* Every type of both versions of the protocol.                            *)
EXTENDS Decoding

V1 == INSTANCE SchemaV1
V2 == INSTANCE SchemaV2

MCSchema ==
    [name \in ({"v1"} \X DOMAIN V1!Types) \cup ({"v2"} \X DOMAIN V2!Types) |->
        IF name[1] = "v1" THEN V1!Types[name[2]] ELSE V2!Types[name[2]]]
=============================================================================
