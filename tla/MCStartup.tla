------------------------------ MODULE MCStartup ------------------------------
(* Builds of a component with two interface threads, as Dispatcher, Worker,  *)
(* Repository and fTPM have.                                                 *)
EXTENDS Startup

CONSTANTS i1, i2

MCInterfaces == {i1, i2}
Variants(passive) == [passive : passive, fault : SUBSET {"fault"},
                      returns : {{}, {i1}, {i2}}]
MCBuilds   == Variants({{}, {i1}, {i1, i2}})
OnePassive == [passive : {{i1}}, fault : {{}}, returns : {{}}]
==============================================================================
