-------------------------- MODULE MCProviderRouting --------------------------
(* A small instance of ProviderRouting: one provider, and requests that can *)
(* and requests that cannot use it.                                         *)
EXTENDS ProviderRouting

CONSTANT k1

const_Registry == <<k1>>
const_Rank == [k \in Providers |-> 1]
const_Policies == {{k1}, {}}
=============================================================================
