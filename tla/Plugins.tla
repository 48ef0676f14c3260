------------------------------ MODULE Plugins ------------------------------
(***************************************************************************)
(* From a filter's registration to the code that serves a request: the     *)
(* package registries of sahl and luwes, the SDK's registries, and the     *)
(* configurations, filters and access loggers Envoy creates by name.       *)
(*                                                                         *)
(* A registration is named by its place in the order they were made, a     *)
(* configuration by the order Envoy loaded them in; 0 is none.             *)
(***************************************************************************)
EXTENDS Naturals, Sequences

CONSTANTS
    Names,          \* the names filters and loggers are registered under
    MaxRegistered, MaxConfigs, MaxInstances   \* bounds

(* The registries of package sahl and of the root package; network filters *)
(* are given to the SDK directly.                                          *)
Sources == {"sahl", "luwes", "loggers", "network"}

KindOf(source) ==
    CASE source = "loggers" -> "accessLogger"
      [] source = "network" -> "network"
      [] OTHER -> "http"

Kinds == {"http", "network", "accessLogger"}

(* handler: a handler of requests; config: one with a configFn, which      *)
(* stores in package variables what the handler reads; factory: a function *)
(* that makes the handler, or the factory, of a configuration.             *)
(* nil: the handler or the function is nil, which no registry looks at;    *)
(* nilConfig: a nil handler with a configFn; absent: a nil in the place of *)
(* the configuration factory itself.                                       *)
Styles(source) ==
    CASE source = "sahl"    -> {"handler", "config", "factory", "nil", "nilConfig"}
      [] source = "luwes"   -> {"factory", "nil", "absent"}
      [] source = "loggers" -> {"factory", "nil"}
      [] source = "network" -> {"factory", "absent"}

Registration ==
    [source : Sources, name : Names,
     style : {"handler", "config", "factory", "nil", "nilConfig", "absent"}]

ASSUME BoundsAssumption ==
    MaxRegistered \in Nat /\ MaxConfigs \in Nat /\ MaxInstances \in Nat

VARIABLES
    made,       \* the registrations, in order
    registry,   \* those in each package's registry
    sdk,        \* the registration behind each name, by kind
    serving,    \* the init functions are done
    packageVar, \* the configuration whose configFn last stored there
    configs,    \* the configurations, in order
    instances,  \* filters and loggers, in order
    panicked,
    \* what happened so far
    wired,      \* registrations given to the SDK
    ran         \* <<configuration, registration whose code ran, state it had>>

vars == <<made, registry, sdk, serving, packageVar, configs, instances, panicked, wired, ran>>

(* status: also "empty", of a factory that is nil; handler: the            *)
(* configuration whose state the handler closes over                       *)
Config ==
    [kind : Kinds, name : Names, def : 0..MaxRegistered, handler : 0..MaxConfigs,
     status : {"loaded", "empty", "refused", "destroyed"}]

TypeOK ==
    /\ made \in Seq(Registration) /\ Len(made) <= MaxRegistered
    /\ registry \in [Sources -> SUBSET DOMAIN made]
    /\ sdk \in [Kinds -> [Names -> {0} \union DOMAIN made]]
    /\ serving \in BOOLEAN /\ panicked \in BOOLEAN
    /\ configs \in Seq(Config) /\ Len(configs) <= MaxConfigs
    /\ packageVar \in [1..MaxRegistered -> {0} \union DOMAIN configs]
    /\ instances \in Seq([config : DOMAIN configs, plugin : BOOLEAN, open : BOOLEAN])
    /\ Len(instances) <= MaxInstances
    /\ wired \subseteq DOMAIN made
    /\ ran \subseteq (DOMAIN configs) \X (DOMAIN made) \X ({0} \union DOMAIN configs)

Init ==
    /\ made = << >> /\ registry = [s \in Sources |-> {}]
    /\ sdk = [k \in Kinds |-> [n \in Names |-> 0]]
    /\ serving = FALSE /\ panicked = FALSE
    /\ packageVar = [d \in 1..MaxRegistered |-> 0]
    /\ configs = << >> /\ instances = << >>
    /\ wired = {} /\ ran = {}

-----------------------------------------------------------------------------
(* Registration                                                            *)

(* mustAdd, RegisterRaw, RegisterAccessLogger look before they store.      *)
Registered(s, n) == \E d \in registry[s] : made[d].name = n

Register(s, n) ==
    /\ s # "network" /\ ~serving /\ ~panicked /\ Len(made) < MaxRegistered
    /\ \/ /\ Registered(s, n) /\ panicked' = TRUE
          /\ UNCHANGED <<made, registry>>
       \/ /\ ~Registered(s, n)
          /\ \E style \in Styles(s) :
               made' = Append(made, [source |-> s, name |-> n, style |-> style])
          /\ registry' = [registry EXCEPT ![s] = @ \union {Len(made) + 1}]
          /\ UNCHANGED panicked
    /\ UNCHANGED <<sdk, serving, packageVar, configs, instances, wired, ran>>

(* Factories and RegisterHttpFilterConfigFactories, and their counterparts *)
(* for access loggers: a snapshot goes to the SDK, name by name.           *)
Taken(k, s) == \E d \in registry[s] : sdk[k][made[d].name] # 0

Wire(s) ==
    LET k == KindOf(s) IN
    /\ s # "network" /\ ~serving /\ ~panicked
    /\ \/ Taken(k, s) /\ panicked' = TRUE /\ UNCHANGED <<sdk, wired>>
       \/ /\ ~Taken(k, s)
          /\ sdk' = [sdk EXCEPT ![k] =
                       [n \in Names |->
                          IF \E d \in registry[s] : made[d].name = n
                          THEN CHOOSE d \in registry[s] : made[d].name = n
                          ELSE @[n]]]
          /\ wired' = wired \union registry[s]
          /\ UNCHANGED panicked
    /\ UNCHANGED <<made, registry, serving, packageVar, configs, instances, ran>>

(* RegisterNetworkFilterConfigFactories of one factory                     *)
RegisterNetwork(n) ==
    /\ ~serving /\ ~panicked /\ Len(made) < MaxRegistered
    /\ \/ /\ sdk["network"][n] # 0 /\ panicked' = TRUE
          /\ UNCHANGED <<made, sdk, wired>>
       \/ /\ sdk["network"][n] = 0
          /\ \E style \in Styles("network") :
               made' = Append(made, [source |-> "network", name |-> n, style |-> style])
          /\ sdk' = [sdk EXCEPT !["network"][n] = Len(made) + 1]
          /\ wired' = wired \union {Len(made) + 1}
          /\ UNCHANGED panicked
    /\ UNCHANGED <<registry, serving, packageVar, configs, instances, ran>>

(* The module is loaded; Envoy starts with its configurations.             *)
Start ==
    /\ ~serving /\ ~panicked
    /\ serving' = TRUE
    /\ UNCHANGED <<made, registry, sdk, packageVar, configs, instances, panicked, wired, ran>>

-----------------------------------------------------------------------------
(* Configurations                                                          *)

Attempt(k, n, status, handler) ==
    configs' = Append(configs, [kind |-> k, name |-> n, def |-> sdk[k][n],
                                status |-> status, handler |-> handler])

(* A factory that is nil without an error: sahl and the HTTP and network   *)
(* hooks refuse it, the access logger hook does not look.                  *)
NilStatus_Unchecked(k) == "empty"

NilStatus(k) == IF k = "accessLogger" THEN "empty" ELSE "refused"

(* configFactory.Create makes a handler for each configuration.            *)
Handler_First(d, c) ==
    IF \E b \in DOMAIN configs : configs[b].def = d /\ configs[b].status = "loaded"
    THEN CHOOSE b \in DOMAIN configs : configs[b].def = d /\ configs[b].status = "loaded"
    ELSE c

Handler(d, c) == c

(* ConfigNew, by name: a configuration factory that is absent is refused   *)
(* like a name nobody registered; the plugin's code may fail; a configFn   *)
(* may have stored its configuration by then, and runs before Create sees  *)
(* that the handler is nil.                                                *)
ConfigNew(k, n) ==
    LET d == sdk[k][n]
        c == Len(configs) + 1
        style == IF d = 0 THEN "absent" ELSE made[d].style
        stored == [packageVar EXCEPT ![d] = c] IN
    /\ serving /\ ~panicked /\ c <= MaxConfigs
    /\ \/ /\ style = "absent"
          /\ Attempt(k, n, "refused", 0) /\ UNCHANGED <<packageVar, panicked>>
       \/ /\ style \in {"nil", "nilConfig"} /\ panicked' = TRUE
          /\ UNCHANGED <<configs, packageVar>>
       \/ /\ style = "handler" /\ Attempt(k, n, "loaded", 0)
          /\ UNCHANGED <<packageVar, panicked>>
       \/ /\ style = "config"
          /\ Attempt(k, n, "loaded", 0) /\ packageVar' = stored /\ UNCHANGED panicked
       \/ /\ style \in {"config", "nilConfig"}
          /\ Attempt(k, n, "refused", 0) /\ packageVar' \in {packageVar, stored}
          /\ UNCHANGED panicked
       \/ /\ style = "factory"
          /\ \/ Attempt(k, n, "loaded", Handler(d, c))
             \/ Attempt(k, n, "refused", 0)
             \/ Attempt(k, n, NilStatus(k), 0)
          /\ UNCHANGED <<packageVar, panicked>>
    /\ UNCHANGED <<made, registry, sdk, serving, instances, wired, ran>>

(* Envoy destroys a configuration when nothing it made is left; the hook   *)
(* tells the factory, whether there is one or not.                         *)
ConfigDestroy(c) ==
    /\ ~panicked
    /\ \/ configs[c].status = "empty" /\ panicked' = TRUE /\ UNCHANGED configs
       \/ /\ configs[c].status = "loaded"
          /\ \A i \in DOMAIN instances : instances[i].open => instances[i].config # c
          /\ configs' = [configs EXCEPT ![c].status = "destroyed"]
          /\ UNCHANGED panicked
    /\ UNCHANGED <<made, registry, sdk, serving, packageVar, instances, wired, ran>>

-----------------------------------------------------------------------------
(* Filters and loggers                                                     *)

Opened(c, plugin) ==
    instances' = Append(instances, [config |-> c, plugin |-> plugin, open |-> TRUE])

(* The HTTP hook records a filter its factory did not make and dispatches  *)
(* nothing to it; the others give Envoy a nil pointer.                     *)
InstanceNew(c) ==
    /\ ~panicked /\ Len(instances) < MaxInstances
    /\ \/ /\ configs[c].status = "empty" /\ panicked' = TRUE
          /\ UNCHANGED instances
       \/ /\ configs[c].status = "loaded"
          /\ \/ Opened(c, TRUE)
             \/ made[configs[c].def].source = "luwes" /\ Opened(c, FALSE)
          /\ UNCHANGED panicked
    /\ UNCHANGED <<made, registry, sdk, serving, packageVar, configs, wired, ran>>

(* What the plugin's code finds                                            *)
State(c) ==
    IF made[configs[c].def].style = "config" THEN packageVar[configs[c].def]
    ELSE configs[c].handler

Dispatches(i) == instances[i].plugin

Callback(i) ==
    LET c == instances[i].config IN
    /\ ~panicked /\ instances[i].open /\ Dispatches(i)
    /\ panicked' = ~instances[i].plugin
    /\ ran' = ran \union {<<c, configs[c].def, State(c)>>}
    /\ UNCHANGED <<made, registry, sdk, serving, packageVar, configs, instances, wired>>

InstanceDestroy(i) ==
    /\ ~panicked /\ instances[i].open
    /\ instances' = [instances EXCEPT ![i].open = FALSE]
    /\ UNCHANGED <<made, registry, sdk, serving, packageVar, configs, panicked, wired, ran>>

Next ==
    \/ \E s \in Sources, n \in Names : Register(s, n)
    \/ \E s \in Sources : Wire(s)
    \/ \E n \in Names : RegisterNetwork(n)
    \/ Start
    \/ \E k \in Kinds, n \in Names : ConfigNew(k, n)
    \/ \E c \in DOMAIN configs : ConfigDestroy(c) \/ InstanceNew(c)
    \/ \E i \in DOMAIN instances : Callback(i) \/ InstanceDestroy(i)

Spec == Init /\ [][Next]_vars

-----------------------------------------------------------------------------
(* mustAdd and the SDK's registries: a name stands for one registration in *)
(* all the init functions, and what runs under it is that registration's   *)
(* code.  A handler that RegisterFactory's constructor made for one        *)
(* configuration never serves another, whatever was loaded, refused or     *)
(* destroyed meanwhile.                                                    *)
OwnCode ==
    \A run \in ran :
        LET config == configs[run[1]]
            def == made[run[2]] IN
        /\ def.name = config.name /\ KindOf(def.source) = config.kind
        /\ \A e \in wired :
             made[e].name = def.name /\ KindOf(made[e].source) = config.kind => e = run[2]
        /\ def.style = "factory" => run[3] = run[1]

(* What brings a running Envoy down is a nil that no hook looks at: the    *)
(* handler or the function of a registration, called or missed when a      *)
(* configuration is loaded, or the factory of an access logger's           *)
(* configuration.  A nil configuration factory, handler factory's result,  *)
(* HTTP or network factory, and filter are refused or passed over, whatever*)
(* is loaded and destroyed around them.                                    *)
PanicsAreUncheckedNils ==
    panicked /\ serving =>
        \/ \E d \in wired :
             /\ made[d].style \in {"nil", "nilConfig"}
             /\ made[d].source \in {"sahl", "luwes", "loggers"}
        \/ \E c \in DOMAIN configs : configs[c].kind = "accessLogger" /\ configs[c].status = "empty"

=============================================================================
