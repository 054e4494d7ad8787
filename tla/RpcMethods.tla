----------------------------- MODULE RpcMethods -----------------------------
(***************************************************************************)
(* From a .proto file to the method that serves a URI: the protoc plugin    *)
(* (ngx_rpc_generator.cpp and its templates) and the build, the directives  *)
(* of the generated modules (ngx_http_inspect_module.cpp is one of them),   *)
(* the method table (ngx_http_rpc_postconfiguration) and its lookup         *)
(* (ngx_http_rpc_http_handler), over reloads of the configuration.          *)
(*                                                                          *)
(* A name is a sequence of words, which its underscores separate, so that   *)
(* an identifier put together from names is their concatenation.  A word is *)
(* written in lower case or not; Lower is what the plugin's Lower and       *)
(* nginx's ngx_hash_key_lc make of a name.                                  *)
(***************************************************************************)
EXTENDS Integers, FiniteSets, Sequences, Functions

CONSTANTS
    Protos,         \* the .proto files: name, package, generic, services
    LowerOf,        \* every word in lower case
    NameLimit,      \* the longest name that fits a bucket of the hash
    MaxDirectives,  \* bound: directives in a configuration
    MaxReads,       \* bound: configurations that are read
    Forwarding,     \* names that the method with which inspect_impl.h forwards has,
    ForwardPath     \* and the URI it forwards to

Separators == {"/", "."}
Words == DOMAIN LowerOf \ Separators

ASSUME MethodsAssumption ==
    /\ NameLimit \in Nat /\ MaxDirectives \in Nat /\ MaxReads \in Nat
    /\ \A w \in Words : LowerOf[w] \in Words /\ LowerOf[LowerOf[w]] = LowerOf[w]
    /\ \A sep \in Separators : sep \in DOMAIN LowerOf /\ LowerOf[sep] = sep

(* A .proto file; of two with the same name only one is compiled, since the *)
(* plugin writes their modules to the same files.                           *)
ASSUME ProtosAssumption ==
    /\ Protos \subseteq [name : Seq(Words), package : Seq(Words), generic : BOOLEAN,
                         services : Seq([name : Seq(Words), methods : Seq(Seq(Words))])]
    /\ \A f, g \in Protos : f.generic /\ g.generic /\ f.name = g.name => f = g

VARIABLES
    built,      \* the modules in nginx, in the order of their configuration
    left,       \* .proto files that are not tried yet
    method_array,   \* the methods of the configuration that is being read
    instances,  \* the number of instances that were made, none is ever deleted
    table,      \* method_hash of the configuration that is served
    reads,      \* configurations read so far
    stage,      \* "build", "conf", "serving"
    answer      \* the last request: its URI and the method found for it

vars == <<built, left, method_array, instances, table, reads, stage, answer>>

NoMethod == [uri |-> <<>>, impl |-> 0, handler |-> <<>>, proto |-> <<>>]

-----------------------------------------------------------------------------
(* The plugin.                                                              *)

Lower(name) == [i \in DOMAIN name |-> LowerOf[name[i]]]

(* PROTO_SERVER_NAME_LOWER                                                  *)
ServiceLower(s) == Lower(s.name)

(* Identifiers of the generated files for a service: its class, its         *)
(* directive and the fields of the configuration; for a method, its handler.*)
ClassId(s) == s.name \o <<"server">>
SetHandlerId(f, s) == <<"ngx_conf_set">> \o Lower(f.name) \o ServiceLower(s) \o <<"hanlder">>
ConfFields(s) == {ServiceLower(s) \o x : x \in {<<"log">>, <<"conf", "file">>, <<"log", "file">>, <<"impl">>}}
HandlerId(f, s, m) == <<"ngxrpc">> \o Lower(f.name) \o ServiceLower(s) \o m

(* The files that Generate writes have the name of the .proto file, those   *)
(* the generated sources include and the generated config lists are in      *)
(* lower case.                                                              *)
Written(f) == {f.name \o <<x>> : x \in {"impl.h", "module.cpp"}}
Listed(f) == {Lower(f.name) \o <<x>> : x \in {"impl.h", "module.cpp"}}

MethodsOf(f) == UNION {{<<s, m>> : m \in DOMAIN f.services[s].methods} : s \in DOMAIN f.services}

Service(f, k) == f.services[k[1]]
Method(f, k) == Service(f, k).methods[k[2]]

(* Generate refuses a file without cc_generic_services; the compiler needs  *)
(* the listed files, a package for "using namespace", and every identifier  *)
(* defined once.                                                            *)
Builds(f) ==
    /\ f.generic
    /\ f.package # <<>>
    /\ Listed(f) \subseteq Written(f)
    /\ \A s, t \in DOMAIN f.services : s # t =>
          /\ ClassId(f.services[s]) # ClassId(f.services[t])
          /\ SetHandlerId(f, f.services[s]) # SetHandlerId(f, f.services[t])
          /\ ConfFields(f.services[s]) \cap ConfFields(f.services[t]) = {}
    /\ \A j, k \in MethodsOf(f) : j # k =>
          HandlerId(f, Service(f, j), Method(f, j)) # HandlerId(f, Service(f, k), Method(f, k))

Build(f) ==
    /\ stage = "build" /\ f \in left
    /\ left' = left \ {f}
    /\ built' = IF Builds(f) THEN Append(built, f) ELSE built
    /\ UNCHANGED <<method_array, instances, table, reads, stage, answer>>

-----------------------------------------------------------------------------
(* The configuration.                                                       *)

Init ==
    /\ built = <<>> /\ left = Protos
    /\ method_array = <<>> /\ instances = 0
    /\ table = <<>>
    /\ reads = 0 /\ stage = "build"
    /\ answer = [uri |-> <<>>, method |-> NoMethod]

(* A configuration is read: ngx_http_rpc_create_main_conf.                  *)
ReadConf ==
    /\ stage # "conf" /\ built # <<>> /\ reads < MaxReads
    /\ stage' = "conf" /\ reads' = reads + 1
    /\ method_array' = <<>> /\ left' = {}
    /\ UNCHANGED <<built, instances, table, answer>>

(* The two names a method is registered with.                               *)
Uri(f, s, m, sep) == f.package \o <<sep>> \o s.name \o <<sep>> \o m

\* Mutant of Entry: the handler of the first method in every entry.
EntryOfFirst(f, k, i, sep) ==
    [uri |-> Uri(f, Service(f, k), Method(f, k), sep), impl |-> i, proto |-> f.name,
     handler |-> HandlerId(f, Service(f, k), Service(f, k).methods[1])]
Entry(f, k, i, sep) ==
    [uri |-> Uri(f, Service(f, k), Method(f, k), sep), impl |-> i, proto |-> f.name,
     handler |-> HandlerId(f, Service(f, k), Method(f, k))]

(* The methods of a service one after the other, each under both its names. *)
\* Mutant of ServiceEntries: only the last method.
LastEntries(f, s, i) ==
    [n \in 1 .. 2 |-> Entry(f, <<s, Len(f.services[s].methods)>>, i, IF n = 1 THEN "/" ELSE ".")]
ServiceEntries(f, s, i) ==
    [n \in 1 .. 2 * Len(f.services[s].methods) |->
       Entry(f, <<s, (n + 1) \div 2>>, i, IF n % 2 = 1 THEN "/" ELSE ".")]

(* inspect_impl.h forwards to another method of the service that forwards.  *)
ASSUME ForwardAssumption ==
    \A f \in Protos : \A k \in MethodsOf(f) : \A sep \in Separators :
        Lower(Uri(f, Service(f, k), Method(f, k), sep)) \in Forwarding =>
            \E m \in Range(Service(f, k).methods) : Lower(Uri(f, Service(f, k), m, "/")) = ForwardPath

(* A directive belongs to the first module that has one of its name.        *)
Owner(id) ==
    LET p == CHOOSE p \in DOMAIN built :
               /\ \E s \in DOMAIN built[p].services : SetHandlerId(built[p], built[p].services[s]) = id
               /\ \A q \in 1 .. p - 1 : \A s \in DOMAIN built[q].services :
                     SetHandlerId(built[q], built[q].services[s]) # id
        s == CHOOSE s \in DOMAIN built[p].services : SetHandlerId(built[p], built[p].services[s]) = id
    IN  <<p, s>>

(* The directives read so far, each with its instance.                      *)
Directives == Cardinality({method_array[i].impl : i \in DOMAIN method_array})

DirectiveIds == UNION {{SetHandlerId(built[p], built[p].services[s]) : s \in DOMAIN built[p].services} :
                          p \in DOMAIN built}

(* ngx_conf_set_..._hanlder in some location: a new instance, and every     *)
(* method of the service under both its names.  The same service may be     *)
(* configured in several locations.                                         *)
SetHandler(id) ==
    LET o == Owner(id)
    IN  /\ stage = "conf" /\ Directives < MaxDirectives
        /\ instances' = instances + 1
        /\ method_array' = method_array \o ServiceEntries(built[o[1]], o[2], instances + 1)
        /\ UNCHANGED <<built, left, table, reads, stage, answer>>

(* ngx_http_rpc_postconfiguration: ngx_hash_init stores the names in lower  *)
(* case, in the order of the array.  It refuses a name that does not fit a  *)
(* bucket; whether it refuses a table that is too full depends on nginx.    *)
Stored(a) == [i \in DOMAIN a |-> [a[i] EXCEPT !.uri = Lower(@)]]

Fits(a) == \A i \in DOMAIN a : Len(a[i].uri) <= NameLimit

PostConfiguration ==
    /\ stage = "conf"
    /\ Fits(method_array)
    /\ table' = Stored(method_array)
    /\ stage' = "serving"
    /\ UNCHANGED <<built, left, method_array, instances, reads, answer>>

(* A configuration that is refused: the first one ends nginx, a later one   *)
(* leaves the old table in use.                                             *)
Refuse ==
    /\ stage = "conf" /\ reads > 1
    /\ stage' = "serving"
    /\ UNCHANGED <<built, left, method_array, instances, table, reads, answer>>

-----------------------------------------------------------------------------
(* ngx_http_rpc_http_handler: ngx_hash_find with the URI as it was sent     *)
(* compares the stored names with it and takes the first one.               *)
FirstOf(hits) == IF hits = {} THEN NoMethod ELSE table[CHOOSE i \in hits : \A j \in hits : i <= j]
Find(uri) == FirstOf({i \in DOMAIN table : table[i].uri = uri})

Names == UNION {UNION {{Uri(f, Service(f, k), Method(f, k), sep) : sep \in Separators} : k \in MethodsOf(f)} :
                   f \in Protos}

Request(uri) ==
    /\ stage # "build" /\ table # <<>>
    /\ answer' = [uri |-> uri, method |-> Find(uri)]
    /\ UNCHANGED <<built, left, method_array, instances, table, reads, stage>>

Next ==
    \/ \E f \in Protos : Build(f)
    \/ ReadConf
    \/ \E id \in DirectiveIds : SetHandler(id)
    \/ PostConfiguration \/ Refuse
    \/ \E uri \in Names \cup {Lower(u) : u \in Names} : Request(uri)

Spec == Init /\ [][Next]_vars

-----------------------------------------------------------------------------
(* The compiled functions with the identifier of an entry, of its module.   *)
Compiled(e) == UNION {{<<f, k>> : k \in MethodsOf(f)} : f \in {g \in Range(built) : g.name = e.proto}}
Handlers(e) ==
    {x \in Compiled(e) : HandlerId(x[1], Service(x[1], x[2]), Method(x[1], x[2])) = e.handler}

(* A request is served by one compiled method, and the URI is the name of   *)
(* this method in lower case, through both steps that ignore case (the      *)
(* plugin's identifiers and the hash), across modules, repeated directives  *)
(* and reloads.  So a URI with a capital in it is declined, the very name   *)
(* that the module has registered included.                                 *)
CaseOnly ==
    answer.method # NoMethod =>
        /\ Cardinality(Handlers(answer.method)) = 1
        /\ \A x \in Handlers(answer.method) : \E sep \in Separators :
              answer.uri = Lower(Uri(x[1], Service(x[1], x[2]), Method(x[1], x[2]), sep))

(* The URI to which inspect_impl.h forwards is served whenever the method   *)
(* that forwards is, and by the same instance, unless another module has a  *)
(* service of the same name up to case.                                     *)
ForwardReaches ==
    \A uri \in Forwarding :
        LET e == Find(uri)
            t == Find(ForwardPath)
        IN  e # NoMethod => t # NoMethod /\ (t.impl = e.impl \/ t.proto # e.proto)
=============================================================================
