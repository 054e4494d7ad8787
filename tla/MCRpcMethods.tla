---------------------------- MODULE MCRpcMethods ----------------------------
(* The inspect module; a module with the same service in lower case and two *)
(* methods that differ in case; one with a name too long for the hash; and  *)
(* files that do not build: a capital in the file name, services that       *)
(* differ in case, handlers that get the same identifier, no package, no    *)
(* cc_generic_services.                                                     *)
EXTENDS RpcMethods

MCLowerOf == [w \in {"ngxrpc", "inspect", "other", "long", "Mixed", "mixed", "Application",
                     "application", "interface", "Interface", "requeststatus", "A", "a", "b", "c", "/", "."} |->
                CASE w = "Mixed" -> "mixed" [] w = "Application" -> "application"
                  [] w = "Interface" -> "interface" [] w = "A" -> "a" [] OTHER -> w]

Proto(name, package, services) ==
    [name |-> <<name>>, package |-> package, generic |-> TRUE, services |-> services]
Srv(name, methods) == [name |-> name, methods |-> methods]

Inspect == Proto("inspect", <<"ngxrpc", "inspect">>,
                 <<Srv(<<"Application">>, <<<<"interface">>, <<"requeststatus">>>>)>>)
Other == Proto("other", <<"ngxrpc", "inspect">>,
               <<Srv(<<"application">>, <<<<"Interface">>, <<"interface">>>>), Srv(<<"A">>, <<<<"b">>>>)>>)
LongName == Proto("long", <<"a", "b">>, <<Srv(<<"a">>, <<<<"b", "c", "c">>>>)>>)
Capital == Proto("Mixed", <<"a">>, <<Srv(<<"a">>, <<<<"b">>>>)>>)
TwoCases == Proto("a", <<"a">>, <<Srv(<<"A">>, <<<<"b">>>>), Srv(<<"a">>, <<<<"b">>>>)>>)
OneId == Proto("b", <<"a">>, <<Srv(<<"a", "b">>, <<<<"c">>>>), Srv(<<"a">>, <<<<"b", "c">>>>)>>)
NoPackage == Proto("c", <<>>, <<Srv(<<"a">>, <<<<"b">>>>)>>)
NotGeneric == [Capital EXCEPT !.generic = FALSE]

MCProtos == {Inspect, Other, LongName, Capital, TwoCases, OneId, NoPackage, NotGeneric}
MCForwarding == {<<"ngxrpc", "inspect", sep, "application", sep, "requeststatus">> : sep \in {"/", "."}}
MCForwardPath == <<"ngxrpc", "inspect", "/", "application", "/", "interface">>
=============================================================================
