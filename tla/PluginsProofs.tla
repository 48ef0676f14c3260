---------------------------- MODULE PluginsProofs ----------------------------
(***************************************************************************)
(* The registries tell the plugins apart, for any number of names,         *)
(* registrations, configurations and filters.                              *)
(***************************************************************************)
EXTENDS Plugins, TLAPS

Attempted == [kind : Kinds, name : Names, def : Nat, handler : Nat,
              status : {"loaded", "empty", "refused", "destroyed"}]

Instance == [config : Nat, plugin : BOOLEAN, open : BOOLEAN]

Typed ==
    /\ made \in Seq(Registration)
    /\ registry \in [Sources -> SUBSET DOMAIN made]
    /\ sdk \in [Kinds -> [Names -> {0} \union DOMAIN made]]
    /\ serving \in BOOLEAN /\ panicked \in BOOLEAN
    /\ configs \in Seq(Attempted)
    /\ instances \in Seq(Instance)
    /\ wired \subseteq DOMAIN made

(* A registry holds registrations of its package, no name twice.           *)
RegistryInv ==
    /\ \A d \in DOMAIN made : made[d].style \in Styles(made[d].source)
    /\ \A s \in Sources : \A d \in registry[s] :
         /\ made[d].source = s
         /\ \A e \in registry[s] : made[e].name = made[d].name => e = d

(* What was given to the SDK is found there under its name, and the SDK    *)
(* holds nothing else.                                                     *)
SdkInv ==
    /\ \A d \in wired : sdk[KindOf(made[d].source)][made[d].name] = d
    /\ \A k \in Kinds, n \in Names : sdk[k][n] # 0 =>
         LET d == sdk[k][n] IN
         d \in wired /\ made[d].name = n /\ KindOf(made[d].source) = k

(* A configuration belongs to the registration of its name; a handler made *)
(* for a configuration is its own; only access loggers may be left empty.  *)
ConfigInv ==
    \A c \in DOMAIN configs :
        LET config == configs[c] IN
        /\ config.status # "refused" =>
             config.def # 0 /\ config.def = sdk[config.kind][config.name]
        /\ config.status = "loaded" /\ made[config.def].style = "factory" =>
             config.handler = c
        /\ config.status = "empty" => config.kind = "accessLogger"

(* What is in use has a configuration that is loaded.                      *)
InstanceInv ==
    \A i \in DOMAIN instances :
        /\ instances[i].config \in DOMAIN configs
        /\ instances[i].open => configs[instances[i].config].status = "loaded"

(* What ran was the code of the configuration's name, on its own state.    *)
RanInv ==
    \A run \in ran :
        /\ run[1] \in DOMAIN configs /\ run[2] # 0
        /\ run[2] = sdk[configs[run[1]].kind][configs[run[1]].name]
        /\ made[run[2]].style = "factory" => run[3] = run[1]

PluginInv ==
    Typed /\ RegistryInv /\ SdkInv /\ ConfigInv /\ InstanceInv /\ RanInv /\ PanicsAreUncheckedNils

-----------------------------------------------------------------------------
LEMMA KindType == \A s \in Sources : KindOf(s) \in Kinds
  BY DEF Sources, KindOf, Kinds

LEMMA MadeType ==
    ASSUME Typed
    PROVE  /\ DOMAIN made \subseteq Nat \ {0}
           /\ \A d \in DOMAIN made : made[d].name \in Names /\ made[d].source \in Sources
<1>1. \A d \in DOMAIN made : made[d] \in Registration
  BY DEF Typed
<1>2. DOMAIN made \subseteq Nat \ {0}
  BY DEF Typed
<1> QED
  BY <1>1, <1>2 DEF Registration

LEMMA ConfigType ==
    ASSUME Typed
    PROVE  \A c \in DOMAIN configs : configs[c].kind \in Kinds /\ configs[c].name \in Names
<1>1. \A c \in DOMAIN configs :
        configs[c] \in Attempted
  BY DEF Typed
<1> QED
  BY <1>1 DEF Attempted

(* made only grows.                                                        *)
LEMMA Grown ==
    ASSUME Typed, NEW new \in Registration, made' = Append(made, new)
    PROVE  /\ made' \in Seq(Registration) /\ Len(made) + 1 \in Nat \ {0}
           /\ DOMAIN made' = DOMAIN made \union {Len(made) + 1}
           /\ Len(made) + 1 \notin DOMAIN made
           /\ made'[Len(made) + 1] = new
           /\ \A d \in DOMAIN made : made'[d] = made[d]
           /\ DOMAIN made \subseteq Nat \ {0}
  BY DEF Typed

LEMMA PluginInit == Init => PluginInv
<1> SUFFICES ASSUME Init PROVE PluginInv
  OBVIOUS
<1>1. made = << >> /\ configs = << >> /\ instances = << >>
  BY DEF Init
<1>2. /\ made \in Seq(Registration) /\ DOMAIN made = {}
      /\ DOMAIN configs = {} /\ DOMAIN instances = {}
      /\ configs \in Seq(Attempted)
      /\ instances \in Seq(Instance)
  BY <1>1
<1>3. Typed
  BY <1>2 DEF Init, Typed
<1>4. RegistryInv /\ SdkInv /\ RanInv /\ PanicsAreUncheckedNils
  BY <1>2 DEF Init, RegistryInv, SdkInv, RanInv, PanicsAreUncheckedNils
<1>5. ConfigInv /\ InstanceInv
  BY <1>2 DEF ConfigInv, InstanceInv
<1> QED
  BY <1>3, <1>4, <1>5 DEF PluginInv

-----------------------------------------------------------------------------
(* The init functions                                                      *)

(* Registrations and SDK names that are only added disturb nothing that was*)
(* loaded by then.                                                         *)
LEMMA Undisturbed ==
    ASSUME PluginInv, UNCHANGED <<configs, instances, ran>>,
           \A k \in Kinds, n \in Names : sdk[k][n] # 0 => sdk'[k][n] = sdk[k][n],
           \A d \in DOMAIN made : made'[d] = made[d]
    PROVE  ConfigInv' /\ InstanceInv' /\ RanInv'
<1>1. \A c \in DOMAIN configs : configs[c].kind \in Kinds /\ configs[c].name \in Names
  BY ConfigType DEF PluginInv
<1>2. \A k \in Kinds, n \in Names : sdk[k][n] # 0 => sdk[k][n] \in DOMAIN made
  BY DEF PluginInv, Typed
<1>3. ASSUME NEW c \in DOMAIN configs, configs[c].status # "refused"
      PROVE  /\ configs[c].def = sdk'[configs[c].kind][configs[c].name]
             /\ made'[configs[c].def] = made[configs[c].def]
  BY <1>1, <1>2, <1>3 DEF PluginInv, ConfigInv
<1>4. ConfigInv'
  BY <1>3 DEF PluginInv, ConfigInv
<1>5. InstanceInv'
  BY DEF PluginInv, InstanceInv
<1>6. RanInv'
  BY <1>1, <1>2 DEF PluginInv, RanInv
<1> QED
  BY <1>4, <1>5, <1>6

LEMMA StepRegister ==
    ASSUME PluginInv, NEW s \in Sources, NEW n \in Names, Register(s, n)
    PROVE  PluginInv'
<1>1. /\ UNCHANGED <<sdk, serving, configs, instances, wired, ran>> /\ ~serving
  BY DEF Register
<1>2. PanicsAreUncheckedNils'
  BY <1>1 DEF PanicsAreUncheckedNils
<1>3. CASE UNCHANGED <<made, registry>>
  <2>1. panicked' \in BOOLEAN
    BY DEF Register, PluginInv, Typed
  <2> QED
    BY <1>1, <1>2, <1>3, <2>1
    DEF PluginInv, Typed, RegistryInv, SdkInv, ConfigInv, InstanceInv, RanInv
<1>4. ASSUME ~Registered(s, n), NEW style \in Styles(s),
             made' = Append(made, [source |-> s, name |-> n, style |-> style]),
             registry' = [registry EXCEPT ![s] = @ \union {Len(made) + 1}],
             panicked' = panicked
      PROVE  PluginInv'
  <2> DEFINE new == [source |-> s, name |-> n, style |-> style]
             m == Len(made) + 1
  <2>1. new \in Registration
    BY DEF Styles, Registration, Sources
  <2>2. /\ made' \in Seq(Registration) /\ m \in Nat \ {0}
        /\ DOMAIN made' = DOMAIN made \union {m} /\ m \notin DOMAIN made
        /\ made'[m] = new
        /\ \A d \in DOMAIN made : made'[d] = made[d]
    BY <1>4, <2>1, Grown DEF PluginInv
  <2>3. registry \in [Sources -> SUBSET DOMAIN made]
    BY DEF PluginInv, Typed
  <2> HIDE DEF new, m
  <2>4. registry' = [registry EXCEPT ![s] = @ \union {m}]
    BY <1>4 DEF m
  <2>5. /\ registry' \in [Sources -> SUBSET DOMAIN made']
        /\ \A t \in Sources \ {s} : registry'[t] = registry[t]
        /\ registry'[s] = registry[s] \union {m}
    BY <2>2, <2>3, <2>4
  <2>6. Typed'
    BY <1>1, <1>4, <2>2, <2>5 DEF PluginInv, Typed
  <2>7. RegistryInv'
    <3>1. new.source = s /\ new.name = n /\ new.style \in Styles(s)
      BY DEF new
    <3>2. \A d \in registry[s] : made[d].name # n
      BY <1>4 DEF Registered
    <3> QED
      BY <2>2, <2>3, <2>5, <3>1, <3>2 DEF PluginInv, RegistryInv
  <2>8. SdkInv'
    BY <1>1, <2>2 DEF PluginInv, Typed, SdkInv
  <2>9. ConfigInv' /\ InstanceInv' /\ RanInv'
    BY <1>1, <2>2, Undisturbed
  <2> QED
    BY <1>2, <2>6, <2>7, <2>8, <2>9 DEF PluginInv
<1> QED
  BY <1>3, <1>4 DEF Register

LEMMA StepWire ==
    ASSUME PluginInv, NEW s \in Sources, Wire(s)
    PROVE  PluginInv'
<1> DEFINE k == KindOf(s)
<1>1. /\ UNCHANGED <<made, registry, serving, configs, instances, ran>> /\ ~serving
      /\ panicked' \in BOOLEAN
  BY DEF Wire, PluginInv, Typed
<1>2. PanicsAreUncheckedNils'
  BY <1>1 DEF PanicsAreUncheckedNils
<1>3. k \in Kinds
  BY KindType
<1>4. CASE UNCHANGED <<sdk, wired>>
  BY <1>1, <1>2, <1>4
  DEF PluginInv, Typed, RegistryInv, SdkInv, ConfigInv, InstanceInv, RanInv
<1>5. ASSUME ~Taken(k, s),
             sdk' = [sdk EXCEPT ![k] =
                       [n \in Names |->
                          IF \E d \in registry[s] : made[d].name = n
                          THEN CHOOSE d \in registry[s] : made[d].name = n
                          ELSE @[n]]],
             wired' = wired \union registry[s]
      PROVE  PluginInv'
  <2>1. /\ registry[s] \subseteq DOMAIN made /\ DOMAIN made \subseteq Nat \ {0}
        /\ wired \subseteq DOMAIN made
        /\ \A d \in DOMAIN made : made[d].name \in Names /\ made[d].source \in Sources
        /\ sdk \in [Kinds -> [Names -> {0} \union DOMAIN made]]
    BY MadeType DEF PluginInv, Typed
  <2>2. \A n \in Names : (\E d \in registry[s] : made[d].name = n) => sdk[k][n] = 0
    BY <1>5 DEF Taken
  <2>3. ASSUME NEW d \in registry[s]
        PROVE  sdk'[k][made[d].name] = d
    <3>1. \A e \in registry[s] : made[e].name = made[d].name => e = d
      BY DEF PluginInv, RegistryInv
    <3>2. d = CHOOSE e \in registry[s] : made[e].name = made[d].name
      BY <3>1
    <3> HIDE DEF k
    <3> QED
      BY <1>3, <1>5, <2>1, <3>2
  <2>4. ASSUME NEW n \in Names, \A d \in registry[s] : made[d].name # n
        PROVE  sdk'[k][n] = sdk[k][n]
    <3> HIDE DEF k
    <3> QED
      BY <1>3, <1>5, <2>1, <2>4
  <2>5. \A j \in Kinds \ {k} : sdk'[j] = sdk[j]
    <3> HIDE DEF k
    <3> QED
      BY <1>5, <2>1
  <2>6. DOMAIN sdk' = Kinds /\ DOMAIN sdk'[k] = Names
        /\ sdk' = [j \in Kinds |-> IF j = k THEN sdk'[k] ELSE sdk[j]]
        /\ sdk'[k] = [n \in Names |-> sdk'[k][n]]
    <3> HIDE DEF k
    <3> QED
      BY <1>3, <1>5, <2>1
  <2>7. \A n \in Names :
          \/ \E d \in registry[s] : made[d].name = n /\ sdk'[k][n] = d
          \/ (\A d \in registry[s] : made[d].name # n) /\ sdk'[k][n] = sdk[k][n]
    BY <2>3, <2>4
  <2> HIDE DEF k
  <2>8. Typed'
    <3>1. sdk'[k] \in [Names -> {0} \union DOMAIN made]
      BY <1>3, <2>1, <2>6, <2>7
    <3>2. sdk' \in [Kinds -> [Names -> {0} \union DOMAIN made]]
      BY <1>3, <2>1, <2>6, <3>1
    <3> QED
      BY <1>1, <1>5, <2>1, <3>2 DEF PluginInv, Typed
  <2>9. \A j \in Kinds, n \in Names : sdk[j][n] # 0 => sdk'[j][n] = sdk[j][n]
    BY <2>2, <2>5, <2>7
  <2>10. SdkInv'
    <3>1. ASSUME NEW d \in wired
          PROVE  sdk'[KindOf(made[d].source)][made[d].name] = d
      BY <2>1, <2>9, KindType DEF PluginInv, SdkInv
    <3>2. ASSUME NEW d \in registry[s]
          PROVE  sdk'[KindOf(made[d].source)][made[d].name] = d
      BY <2>3 DEF PluginInv, RegistryInv, k
    <3>3. ASSUME NEW j \in Kinds, NEW n \in Names, sdk'[j][n] # 0
          PROVE  /\ sdk'[j][n] \in wired \union registry[s]
                 /\ made[sdk'[j][n]].name = n /\ KindOf(made[sdk'[j][n]].source) = j
      <4>1. CASE sdk'[j][n] = sdk[j][n]
        BY <3>3, <4>1 DEF PluginInv, SdkInv
      <4>2. CASE j = k /\ \E d \in registry[s] : made[d].name = n /\ sdk'[k][n] = d
        BY <4>2 DEF PluginInv, RegistryInv, k
      <4> QED
        BY <2>5, <2>7, <4>1, <4>2
    <3>4. made' = made /\ wired' = wired \union registry[s]
      BY <1>1, <1>5
    <3> QED
      BY <3>1, <3>2, <3>3, <3>4 DEF SdkInv
  <2>11. ConfigInv' /\ InstanceInv' /\ RanInv'
    BY <1>1, <2>9, Undisturbed
  <2>12. RegistryInv'
    BY <1>1 DEF PluginInv, RegistryInv
  <2> QED
    BY <1>2, <2>8, <2>10, <2>11, <2>12 DEF PluginInv
<1> QED
  BY <1>4, <1>5 DEF Wire

LEMMA StepRegisterNetwork ==
    ASSUME PluginInv, NEW n \in Names, RegisterNetwork(n)
    PROVE  PluginInv'
<1> DEFINE new(style) == [source |-> "network", name |-> n, style |-> style]
           m == Len(made) + 1
<1>1. /\ UNCHANGED <<registry, serving, configs, instances, ran>> /\ ~serving
      /\ panicked' \in BOOLEAN
  BY DEF RegisterNetwork, PluginInv, Typed
<1>2. PanicsAreUncheckedNils'
  BY <1>1 DEF PanicsAreUncheckedNils
<1>3. CASE UNCHANGED <<made, sdk, wired>>
  BY <1>1, <1>2, <1>3
  DEF PluginInv, Typed, RegistryInv, SdkInv, ConfigInv, InstanceInv, RanInv
<1>4. ASSUME NEW style \in Styles("network"),
             sdk["network"][n] = 0, made' = Append(made, new(style)),
             sdk' = [sdk EXCEPT !["network"][n] = m], wired' = wired \union {m}
      PROVE  PluginInv'
  <2> DEFINE last == new(style)
  <2>1. last \in Registration
    BY DEF Registration, Sources, Styles
  <2>2. /\ made' \in Seq(Registration) /\ m \in Nat \ {0}
        /\ DOMAIN made' = DOMAIN made \union {m} /\ m \notin DOMAIN made
        /\ made'[m] = last
        /\ \A d \in DOMAIN made : made'[d] = made[d]
        /\ DOMAIN made \subseteq Nat \ {0}
    BY <1>4, <2>1, Grown DEF PluginInv
  <2>3. /\ sdk \in [Kinds -> [Names -> {0} \union DOMAIN made]]
        /\ registry \in [Sources -> SUBSET DOMAIN made]
        /\ wired \subseteq DOMAIN made
    BY DEF PluginInv, Typed
  <2>4. "network" \in Kinds /\ KindOf("network") = "network"
    BY DEF Kinds, KindOf
  <2>5. last.source = "network" /\ last.name = n /\ last.style \in Styles("network")
    OBVIOUS
  <2> HIDE DEF last, m
  <2>6. /\ sdk' \in [Kinds -> [Names -> {0} \union DOMAIN made']]
        /\ sdk'["network"][n] = m
        /\ \A k \in Kinds, o \in Names : k # "network" \/ o # n => sdk'[k][o] = sdk[k][o]
    BY <1>4, <2>2, <2>3, <2>4
  <2>7. Typed'
    BY <1>1, <1>4, <2>2, <2>3, <2>6 DEF PluginInv, Typed
  <2>8. RegistryInv'
    BY <1>1, <2>2, <2>3, <2>5 DEF PluginInv, RegistryInv
  <2>9. SdkInv'
    <3>1. ASSUME NEW d \in wired
          PROVE  sdk'[KindOf(made'[d].source)][made'[d].name] = d
      <4>1. made'[d] = made[d] /\ made[d].name \in Names /\ KindOf(made[d].source) \in Kinds
        BY <2>2, <2>3, MadeType, KindType DEF PluginInv
      <4>2. sdk[KindOf(made[d].source)][made[d].name] = d /\ d # 0
        BY <2>2, <2>3 DEF PluginInv, SdkInv
      <4> QED
        BY <1>4, <2>6, <4>1, <4>2
    <3>2. sdk'[KindOf(made'[m].source)][made'[m].name] = m
      BY <2>2, <2>4, <2>5, <2>6
    <3>3. ASSUME NEW k \in Kinds, NEW o \in Names, sdk'[k][o] # 0
          PROVE  /\ sdk'[k][o] \in wired \union {m}
                 /\ made'[sdk'[k][o]].name = o /\ KindOf(made'[sdk'[k][o]].source) = k
      <4>1. CASE k = "network" /\ o = n
        BY <2>2, <2>4, <2>5, <2>6, <4>1
      <4>2. CASE k # "network" \/ o # n
        BY <2>2, <2>3, <2>6, <3>3, <4>2 DEF PluginInv, SdkInv
      <4> QED
        BY <4>1, <4>2
    <3>4. wired' = wired \union {m}
      BY <1>4
    <3> QED
      BY <3>1, <3>2, <3>3, <3>4 DEF SdkInv
  <2>10. ConfigInv' /\ InstanceInv' /\ RanInv'
    <3>1. \A k \in Kinds, o \in Names : sdk[k][o] # 0 => sdk'[k][o] = sdk[k][o]
      BY <1>4, <2>6
    <3> QED
      BY <1>1, <2>2, <3>1, Undisturbed
  <2> QED
    BY <1>2, <2>7, <2>8, <2>9, <2>10 DEF PluginInv
<1> QED
  BY <1>3, <1>4 DEF RegisterNetwork

-----------------------------------------------------------------------------
(* Configurations                                                          *)

(* A new configuration is the last one.                                    *)
LEMMA Loaded ==
    ASSUME PluginInv, NEW new \in Attempted, configs' = Append(configs, new),
           UNCHANGED <<made, registry, sdk, serving, instances, panicked, wired, ran>>,
           ~panicked,
           new.status # "refused" =>
             new.def # 0 /\ new.def = sdk[new.kind][new.name],
           new.status = "loaded" /\ made[new.def].style = "factory" =>
             new.handler = Len(configs) + 1,
           new.status = "empty" => new.kind = "accessLogger"
    PROVE  PluginInv'
<1>1. /\ configs \in Seq(Attempted) /\ DOMAIN configs = 1..Len(configs) /\ Len(configs) \in Nat
      /\ configs' \in Seq(Attempted)
      /\ DOMAIN configs' = DOMAIN configs \union {Len(configs) + 1}
      /\ configs'[Len(configs) + 1] = new
      /\ \A c \in DOMAIN configs : configs'[c] = configs[c]
  BY DEF PluginInv, Typed
<1>2. Typed' /\ RegistryInv' /\ SdkInv'
  BY <1>1 DEF PluginInv, Typed, RegistryInv, SdkInv
<1>3. ConfigInv'
  <2>1. ASSUME NEW c \in DOMAIN configs
        PROVE  /\ configs'[c].status # "refused" =>
                    configs'[c].def # 0
                    /\ configs'[c].def = sdk[configs'[c].kind][configs'[c].name]
               /\ configs'[c].status = "loaded" /\ made[configs'[c].def].style = "factory" =>
                    configs'[c].handler = c
               /\ configs'[c].status = "empty" => configs'[c].kind = "accessLogger"
    BY <1>1 DEF PluginInv, ConfigInv
  <2> QED
    BY <1>1, <2>1 DEF ConfigInv
<1>4. InstanceInv' /\ RanInv'
  BY <1>1 DEF PluginInv, InstanceInv, RanInv
<1>5. PanicsAreUncheckedNils'
  BY DEF PanicsAreUncheckedNils
<1> QED
  BY <1>2, <1>3, <1>4, <1>5 DEF PluginInv

LEMMA StepConfigNew ==
    ASSUME PluginInv, NEW k \in Kinds, NEW n \in Names, ConfigNew(k, n)
    PROVE  PluginInv'
<1> DEFINE d == sdk[k][n]
           c == Len(configs) + 1
           style == IF d = 0 THEN "absent" ELSE made[d].style
           new(status, handler) == [kind |-> k, name |-> n, def |-> d,
                                    status |-> status, handler |-> handler]
<1>1. /\ UNCHANGED <<made, registry, sdk, serving, instances, wired, ran>>
      /\ serving /\ ~panicked
  BY DEF ConfigNew
<1>2. d \in {0} \union DOMAIN made /\ d \in Nat /\ c \in Nat
  BY MadeType DEF PluginInv, Typed
<1>3. CASE style \in {"nil", "nilConfig"} /\ panicked' = TRUE /\ UNCHANGED <<configs, packageVar>>
  <2>1. d \in wired /\ made[d].style \in {"nil", "nilConfig"} /\ d \in DOMAIN made
    BY <1>3 DEF PluginInv, SdkInv, Typed
  <2>2. made[d].source \in {"sahl", "luwes", "loggers"}
    <3>1. made[d].style \in Styles(made[d].source) /\ made[d].source \in Sources
      BY <2>1, MadeType DEF PluginInv, RegistryInv
    <3> QED
      BY <2>1, <3>1 DEF Styles, Sources
  <2>3. PanicsAreUncheckedNils'
    BY <1>1, <1>3, <2>1, <2>2 DEF PanicsAreUncheckedNils
  <2> QED
    BY <1>1, <1>3, <2>3
    DEF PluginInv, Typed, RegistryInv, SdkInv, ConfigInv, InstanceInv, RanInv
<1>4. ASSUME NEW handler \in Nat, NEW status \in {"refused", "loaded", "empty"},
             panicked' = panicked, Attempt(k, n, status, handler),
             status # "refused" => d # 0,
             status = "loaded" /\ made[d].style = "factory" => handler = c,
             status = "empty" => k = "accessLogger"
      PROVE  PluginInv'
  <2>1. new(status, handler) \in Attempted
    BY <1>2 DEF Attempted
  <2>2. configs' = Append(configs, new(status, handler))
    BY <1>4 DEF Attempt
  <2> QED
    BY <1>1, <1>4, <2>1, <2>2, Loaded
<1>5. CASE style \in {"absent", "config", "nilConfig"} /\ Attempt(k, n, "refused", 0) /\ UNCHANGED panicked
  BY <1>4, <1>5
<1>6. CASE style \in {"handler", "config"} /\ Attempt(k, n, "loaded", 0) /\ UNCHANGED panicked
  BY <1>4, <1>6
<1>7. CASE /\ style = "factory" /\ UNCHANGED panicked
           /\ \/ Attempt(k, n, "loaded", Handler(d, c)) \/ Attempt(k, n, "refused", 0)
              \/ Attempt(k, n, NilStatus(k), 0)
  BY <1>2, <1>4, <1>7 DEF Handler, NilStatus
<1> QED
  BY <1>3, <1>5, <1>6, <1>7 DEF ConfigNew

LEMMA StepConfigDestroy ==
    ASSUME PluginInv, NEW c \in DOMAIN configs, ConfigDestroy(c)
    PROVE  PluginInv'
<1>1. configs \in Seq(Attempted)
  BY DEF PluginInv, Typed
<1>2. /\ UNCHANGED <<made, registry, sdk, serving, instances, wired, ran>>
      /\ ~panicked
  BY DEF ConfigDestroy
<1>3. CASE configs[c].status = "empty" /\ panicked' = TRUE /\ UNCHANGED configs
  <2>1. PanicsAreUncheckedNils'
    BY <1>2, <1>3 DEF PanicsAreUncheckedNils, PluginInv, ConfigInv
  <2> QED
    BY <1>2, <1>3, <2>1
    DEF PluginInv, Typed, RegistryInv, SdkInv, ConfigInv, InstanceInv, RanInv
<1>4. CASE /\ configs[c].status = "loaded" /\ UNCHANGED panicked
           /\ \A i \in DOMAIN instances : instances[i].open => instances[i].config # c
           /\ configs' = [configs EXCEPT ![c].status = "destroyed"]
  <2>1. configs[c] \in Attempted
    BY <1>1
  <2>2. [configs[c] EXCEPT !.status = "destroyed"] \in Attempted
    BY <2>1 DEF Attempted
  <2>3. /\ configs' \in Seq(Attempted) /\ DOMAIN configs' = DOMAIN configs
        /\ \A b \in DOMAIN configs \ {c} : configs'[b] = configs[b]
        /\ configs'[c] = [configs[c] EXCEPT !.status = "destroyed"]
    BY <1>1, <1>4, <2>2
  <2>4. /\ configs'[c].kind = configs[c].kind /\ configs'[c].name = configs[c].name
        /\ configs'[c].def = configs[c].def /\ configs'[c].handler = configs[c].handler
        /\ configs'[c].status = "destroyed"
    BY <2>1, <2>3 DEF Attempted
  <2>5. Typed' /\ RegistryInv' /\ SdkInv'
    BY <1>2, <1>4, <2>3 DEF PluginInv, Typed, RegistryInv, SdkInv
  <2>6. ConfigInv'
    <3>1. ASSUME NEW b \in DOMAIN configs
          PROVE  /\ configs'[b].status # "refused" =>
                      configs'[b].def # 0
                      /\ configs'[b].def = sdk[configs'[b].kind][configs'[b].name]
                 /\ configs'[b].status = "loaded" /\ made[configs'[b].def].style = "factory" =>
                      configs'[b].handler = b
                 /\ configs'[b].status = "empty" => configs'[b].kind = "accessLogger"
      BY <1>4, <2>3, <2>4 DEF PluginInv, ConfigInv
    <3> QED
      BY <1>2, <2>3, <3>1 DEF ConfigInv
  <2>7. InstanceInv'
    BY <1>2, <1>4, <2>3 DEF PluginInv, InstanceInv
  <2>8. RanInv'
    <3>1. \A b \in DOMAIN configs : configs'[b].kind = configs[b].kind
                                    /\ configs'[b].name = configs[b].name
      BY <2>3, <2>4
    <3> QED
      BY <1>2, <2>3, <3>1 DEF PluginInv, RanInv
  <2>9. PanicsAreUncheckedNils'
    BY <1>2, <1>4 DEF PanicsAreUncheckedNils
  <2> QED
    BY <2>5, <2>6, <2>7, <2>8, <2>9 DEF PluginInv
<1> QED
  BY <1>3, <1>4 DEF ConfigDestroy

-----------------------------------------------------------------------------
(* Filters and loggers                                                     *)

LEMMA StepInstanceNew ==
    ASSUME PluginInv, NEW c \in DOMAIN configs, InstanceNew(c)
    PROVE  PluginInv'
<1>1. /\ UNCHANGED <<made, registry, sdk, serving, packageVar, configs, wired, ran>>
      /\ ~panicked
  BY DEF InstanceNew
<1>2. CASE configs[c].status = "empty" /\ panicked' = TRUE /\ UNCHANGED instances
  <2>1. PanicsAreUncheckedNils'
    BY <1>1, <1>2 DEF PanicsAreUncheckedNils, PluginInv, ConfigInv
  <2> QED
    BY <1>1, <1>2, <2>1
    DEF PluginInv, Typed, RegistryInv, SdkInv, ConfigInv, InstanceInv, RanInv
<1>3. ASSUME NEW plugin \in BOOLEAN, configs[c].status = "loaded", Opened(c, plugin),
             UNCHANGED panicked
      PROVE  PluginInv'
  <2> DEFINE new == [config |-> c, plugin |-> plugin, open |-> TRUE]
  <2>1. instances \in Seq(Instance) /\ configs \in Seq(Attempted)
    BY DEF PluginInv, Typed
  <2>2. new \in Instance
    BY <2>1 DEF Instance
  <2>3. instances' = Append(instances, new)
    BY <1>3 DEF Opened
  <2>4. new.config = c
    OBVIOUS
  <2> HIDE DEF new
  <2>5. /\ instances' \in Seq(Instance)
        /\ DOMAIN instances' = DOMAIN instances \union {Len(instances) + 1}
        /\ instances'[Len(instances) + 1] = new
        /\ \A i \in DOMAIN instances : instances'[i] = instances[i]
    BY <2>1, <2>2, <2>3
  <2>6. InstanceInv'
    BY <1>1, <1>3, <2>4, <2>5 DEF PluginInv, InstanceInv
  <2>7. Typed'
    BY <1>1, <1>3, <2>5 DEF PluginInv, Typed
  <2> QED
    BY <1>1, <1>3, <2>6, <2>7
    DEF PluginInv, RegistryInv, SdkInv, ConfigInv, RanInv, PanicsAreUncheckedNils
<1> QED
  BY <1>2, <1>3 DEF InstanceNew

LEMMA StepCallback ==
    ASSUME PluginInv, NEW i \in DOMAIN instances, Callback(i)
    PROVE  PluginInv'
<1> DEFINE c == instances[i].config
<1>1. /\ UNCHANGED <<made, registry, sdk, serving, configs, instances, wired>>
      /\ ~panicked /\ instances[i].open /\ instances[i].plugin
      /\ panicked' = ~instances[i].plugin
      /\ ran' = ran \union {<<c, configs[c].def, State(c)>>}
  BY DEF Callback, Dispatches
<1>2. c \in DOMAIN configs /\ configs[c].status = "loaded"
  BY <1>1 DEF PluginInv, InstanceInv
<1>3. /\ configs[c].def # 0 /\ configs[c].def = sdk[configs[c].kind][configs[c].name]
      /\ made[configs[c].def].style = "factory" => State(c) = c
  BY <1>2 DEF PluginInv, ConfigInv, State
<1> HIDE DEF c
<1>4. RanInv'
  BY <1>1, <1>2, <1>3 DEF PluginInv, RanInv
<1>5. panicked' = FALSE
  BY <1>1
<1>6. Typed' /\ PanicsAreUncheckedNils'
  BY <1>1, <1>5 DEF PluginInv, Typed, PanicsAreUncheckedNils
<1> QED
  BY <1>1, <1>4, <1>6 DEF PluginInv, RegistryInv, SdkInv, ConfigInv, InstanceInv

LEMMA StepInstanceDestroy ==
    ASSUME PluginInv, NEW i \in DOMAIN instances, InstanceDestroy(i)
    PROVE  PluginInv'
<1>1. /\ UNCHANGED <<made, registry, sdk, serving, packageVar, configs, panicked, wired, ran>>
      /\ ~panicked /\ instances' = [instances EXCEPT ![i].open = FALSE]
  BY DEF InstanceDestroy
<1>2. instances \in Seq(Instance) /\ instances[i] \in Instance
  BY DEF PluginInv, Typed
<1>3. [instances[i] EXCEPT !.open = FALSE] \in Instance
  BY <1>2 DEF Instance
<1>4. /\ instances' \in Seq(Instance) /\ DOMAIN instances' = DOMAIN instances
      /\ \A j \in DOMAIN instances \ {i} : instances'[j] = instances[j]
      /\ instances'[i] = [instances[i] EXCEPT !.open = FALSE]
  BY <1>1, <1>2, <1>3
<1>5. instances'[i].config = instances[i].config /\ ~instances'[i].open
  BY <1>2, <1>4 DEF Instance
<1>6. InstanceInv'
  BY <1>1, <1>4, <1>5 DEF PluginInv, InstanceInv
<1>7. Typed'
  BY <1>1, <1>4 DEF PluginInv, Typed
<1> QED
  BY <1>1, <1>6, <1>7 DEF PluginInv, RegistryInv, SdkInv, ConfigInv, RanInv, PanicsAreUncheckedNils

-----------------------------------------------------------------------------
LEMMA PluginStep == PluginInv /\ [Next]_vars => PluginInv'
<1> SUFFICES ASSUME PluginInv, [Next]_vars PROVE PluginInv'
  OBVIOUS
<1>1. CASE Start
  BY <1>1 DEF Start, PluginInv, Typed, RegistryInv, SdkInv, ConfigInv, InstanceInv, RanInv,
     PanicsAreUncheckedNils
<1>2. CASE UNCHANGED vars
  BY <1>2 DEF vars, PluginInv, Typed, RegistryInv, SdkInv, ConfigInv, InstanceInv, RanInv,
     PanicsAreUncheckedNils
<1> QED
  BY <1>1, <1>2, StepRegister, StepWire, StepRegisterNetwork, StepConfigNew,
     StepConfigDestroy, StepInstanceNew, StepCallback, StepInstanceDestroy DEF Next

(* mustAdd and the SDK's registries: whatever was registered, loaded,      *)
(* refused and destroyed in whatever order, the code that runs under a name*)
(* is that of its one registration, and a handler RegisterFactory made for *)
(* a configuration serves no other.                                        *)
THEOREM NamesSelectOwnCode == Spec => []OwnCode
<1>1. PluginInv => OwnCode
  <2> SUFFICES ASSUME PluginInv, NEW run \in ran
               PROVE  LET config == configs[run[1]]
                          def == made[run[2]] IN
                      /\ def.name = config.name /\ KindOf(def.source) = config.kind
                      /\ \A e \in wired :
                           made[e].name = def.name /\ KindOf(made[e].source) = config.kind =>
                             e = run[2]
                      /\ def.style = "factory" => run[3] = run[1]
    BY DEF OwnCode
  <2>1. configs[run[1]].kind \in Kinds /\ configs[run[1]].name \in Names
    BY ConfigType DEF PluginInv, RanInv
  <2> QED
    BY <2>1 DEF PluginInv, RanInv, SdkInv
<1> QED
  BY <1>1, PluginInit, PluginStep, PTL DEF Spec

(* ConfigNew, ConfigDestroy, filter_new: the only nils of plugins that     *)
(* bring a running Envoy down are nil handlers and functions of the        *)
(* registrations, and access logger factories, for any number of them.     *)
THEOREM OnlyUncheckedNilsPanic == Spec => []PanicsAreUncheckedNils
<1>1. PluginInv => PanicsAreUncheckedNils
  BY DEF PluginInv
<1> QED
  BY <1>1, PluginInit, PluginStep, PTL DEF Spec

-----------------------------------------------------------------------------
(* Types                                                                   *)

InstanceOf(cs) == [config : cs, plugin : BOOLEAN, open : BOOLEAN]

(* A handler closes over the state of a configuration there is.            *)
HandlerMade == \A c \in DOMAIN configs : configs[c].handler \in {0} \union DOMAIN configs

(* TypeOK of what is appended to or overwritten, place by place            *)
LEMMA Places ==
    ASSUME TypeOK
    PROVE  /\ Len(made) \in Nat /\ DOMAIN made = 1..Len(made)
           /\ \A d \in DOMAIN made : d \in 1..MaxRegistered /\ made[d] \in Registration
           /\ Len(configs) \in Nat /\ DOMAIN configs = 1..Len(configs)
           /\ \A c \in DOMAIN configs : c \in 1..MaxConfigs /\ configs[c] \in Config
           /\ Len(instances) \in Nat /\ DOMAIN instances = 1..Len(instances)
           /\ \A i \in DOMAIN instances : instances[i] \in InstanceOf(DOMAIN configs)
<1>1. Len(made) \in Nat /\ DOMAIN made = 1..Len(made) /\ Len(made) <= MaxRegistered
      /\ \A d \in DOMAIN made : made[d] \in Registration
  BY DEF TypeOK
<1>2. Len(configs) \in Nat /\ DOMAIN configs = 1..Len(configs) /\ Len(configs) <= MaxConfigs
      /\ \A c \in DOMAIN configs : configs[c] \in Config
  BY DEF TypeOK
<1>3. Len(instances) \in Nat /\ DOMAIN instances = 1..Len(instances)
      /\ \A i \in DOMAIN instances : instances[i] \in InstanceOf(DOMAIN configs)
  <2>1. instances \in Seq(InstanceOf(DOMAIN configs))
    BY DEF TypeOK, InstanceOf
  <2> QED
    BY <2>1
<1> QED
  BY <1>1, <1>2, <1>3, BoundsAssumption

LEMMA TypeInit == Init => TypeOK
<1> SUFFICES ASSUME Init PROVE TypeOK
  OBVIOUS
<1>1. made = << >> /\ configs = << >> /\ instances = << >>
  BY DEF Init
<1>2. /\ made \in Seq(Registration) /\ Len(made) = 0
      /\ configs \in Seq(Config) /\ Len(configs) = 0
      /\ instances \in Seq(InstanceOf(DOMAIN configs)) /\ Len(instances) = 0
  BY <1>1
<1>3. /\ registry \in [Sources -> SUBSET DOMAIN made]
      /\ sdk \in [Kinds -> [Names -> {0} \union DOMAIN made]]
      /\ packageVar \in [1..MaxRegistered -> {0} \union DOMAIN configs]
  BY DEF Init
<1>4. /\ serving \in BOOLEAN /\ panicked \in BOOLEAN /\ wired \subseteq DOMAIN made
      /\ ran \subseteq (DOMAIN configs) \X (DOMAIN made) \X ({0} \union DOMAIN configs)
  BY DEF Init
<1>5. Len(made) <= MaxRegistered /\ Len(configs) <= MaxConfigs /\ Len(instances) <= MaxInstances
  BY <1>2, BoundsAssumption
<1> QED
  BY <1>2, <1>3, <1>4, <1>5 DEF TypeOK, InstanceOf

(* A registration more: the names of the others stay what they were.       *)
LEMMA TypeMade ==
    ASSUME TypeOK, Len(made) < MaxRegistered, NEW new \in Registration,
           made' = Append(made, new)
    PROVE  /\ made' \in Seq(Registration) /\ Len(made') <= MaxRegistered
           /\ DOMAIN made \subseteq DOMAIN made' /\ Len(made) + 1 \in DOMAIN made'
<1>1. made \in Seq(Registration) /\ Len(made) \in Nat
  BY DEF TypeOK
<1>2. Len(made') = Len(made) + 1 /\ DOMAIN made' = 1..(Len(made) + 1)
  BY <1>1
<1> QED
  BY <1>1, <1>2, BoundsAssumption

LEMMA TypeConfigs ==
    ASSUME TypeOK, Len(configs) + 1 <= MaxConfigs, NEW new \in Config,
           configs' = Append(configs, new), UNCHANGED instances
    PROVE  /\ configs' \in Seq(Config) /\ Len(configs') <= MaxConfigs
           /\ DOMAIN configs \subseteq DOMAIN configs' /\ Len(configs) + 1 \in DOMAIN configs'
           /\ instances' \in Seq(InstanceOf(DOMAIN configs'))
<1>1. configs \in Seq(Config) /\ Len(configs) \in Nat
  BY DEF TypeOK
<1>2. Len(configs') = Len(configs) + 1 /\ DOMAIN configs' = 1..(Len(configs) + 1)
  BY <1>1
<1>3. DOMAIN configs \subseteq DOMAIN configs'
  BY <1>1, <1>2
<1>4. /\ instances \in Seq(InstanceOf(DOMAIN configs))
      /\ InstanceOf(DOMAIN configs) \subseteq InstanceOf(DOMAIN configs')
  BY <1>3 DEF TypeOK, InstanceOf
<1>5. instances' \in Seq(InstanceOf(DOMAIN configs'))
  BY <1>4
<1> QED
  BY <1>1, <1>2, <1>3, <1>5, BoundsAssumption

LEMMA TypeRegistered ==
    ASSUME TypeOK, NEW s \in Sources, NEW n \in Names, Register(s, n) \/ RegisterNetwork(n)
    PROVE  TypeOK'
<1>0. ~panicked
  BY DEF Register, RegisterNetwork
<1>1. CASE panicked'
  <2>1. /\ UNCHANGED <<made, registry, sdk, serving, packageVar, configs, instances, wired, ran>>
        /\ panicked' = TRUE
    BY <1>0, <1>1 DEF Register, RegisterNetwork
  <2> QED
    BY <2>1 DEF TypeOK
<1>2. CASE Register(s, n) /\ ~panicked'
  <2>1. PICK style \in Styles(s) :
          made' = Append(made, [source |-> s, name |-> n, style |-> style])
    BY <1>2 DEF Register
  <2>2. [source |-> s, name |-> n, style |-> style] \in Registration
    BY DEF Registration, Styles, Sources
  <2>3. /\ made' \in Seq(Registration) /\ Len(made') <= MaxRegistered
        /\ DOMAIN made \subseteq DOMAIN made' /\ Len(made) + 1 \in DOMAIN made'
    BY <1>2, <2>1, <2>2, TypeMade DEF Register
  <2>4. /\ registry' = [registry EXCEPT ![s] = @ \union {Len(made) + 1}]
        /\ UNCHANGED <<sdk, serving, packageVar, configs, instances, wired, ran, panicked>>
    BY <1>2 DEF Register
  <2>5. registry' \in [Sources -> SUBSET DOMAIN made']
    BY <2>3, <2>4 DEF TypeOK
  <2>6. sdk' \in [Kinds -> [Names -> {0} \union DOMAIN made']]
    BY <2>3, <2>4 DEF TypeOK
  <2>7. wired' \subseteq DOMAIN made'
        /\ ran' \subseteq (DOMAIN configs') \X (DOMAIN made') \X ({0} \union DOMAIN configs')
    BY <2>3, <2>4 DEF TypeOK
  <2> QED
    BY <2>3, <2>4, <2>5, <2>6, <2>7 DEF TypeOK
<1>3. CASE RegisterNetwork(n) /\ ~panicked'
  <2> DEFINE new(style) == [source |-> "network", name |-> n, style |-> style]
  <2>1. PICK style \in Styles("network") : made' = Append(made, new(style))
    BY <1>3 DEF RegisterNetwork
  <2>2. /\ UNCHANGED <<registry, serving, packageVar, configs, instances, ran, panicked>>
        /\ sdk' = [sdk EXCEPT !["network"][n] = Len(made) + 1]
        /\ wired' = wired \union {Len(made) + 1}
    BY <1>3 DEF RegisterNetwork
  <2>3. new(style) \in Registration
    BY DEF Registration, Sources, Styles
  <2>4. /\ made' \in Seq(Registration) /\ Len(made') <= MaxRegistered
        /\ DOMAIN made \subseteq DOMAIN made' /\ Len(made) + 1 \in DOMAIN made'
    BY <1>3, <2>1, <2>3, TypeMade DEF RegisterNetwork
  <2>5. sdk' \in [Kinds -> [Names -> {0} \union DOMAIN made']]
    BY <2>2, <2>4 DEF TypeOK, Kinds
  <2>6. registry' \in [Sources -> SUBSET DOMAIN made'] /\ wired' \subseteq DOMAIN made'
        /\ ran' \subseteq (DOMAIN configs') \X (DOMAIN made') \X ({0} \union DOMAIN configs')
    BY <2>2, <2>4 DEF TypeOK
  <2> QED
    BY <2>2, <2>4, <2>5, <2>6 DEF TypeOK
<1> QED
  BY <1>1, <1>2, <1>3

LEMMA TypeWire ==
    ASSUME TypeOK, NEW s \in Sources, Wire(s)
    PROVE  TypeOK'
<1> DEFINE found(n) == CHOOSE d \in registry[s] : made[d].name = n
<1>1. \A n \in Names : (\E d \in registry[s] : made[d].name = n) => found(n) \in registry[s]
  OBVIOUS
<1>2. registry[s] \subseteq DOMAIN made /\ KindOf(s) \in Kinds
  BY KindType DEF TypeOK
<1>3. sdk' \in [Kinds -> [Names -> {0} \union DOMAIN made]]
  <2>1. sdk \in [Kinds -> [Names -> {0} \union DOMAIN made]]
    BY DEF TypeOK
  <2>2. CASE Taken(KindOf(s), s)
    BY <2>1, <2>2 DEF Wire
  <2>3. CASE ~Taken(KindOf(s), s)
    <3> DEFINE row == [n \in Names |-> IF \E d \in registry[s] : made[d].name = n
                                      THEN found(n) ELSE sdk[KindOf(s)][n]]
    <3>1. sdk' = [sdk EXCEPT ![KindOf(s)] = row]
      BY <2>3 DEF Wire
    <3>2. row \in [Names -> {0} \union DOMAIN made]
      BY <1>1, <1>2, <2>1
    <3> HIDE DEF row
    <3> QED
      BY <2>1, <3>1, <3>2
  <2> QED
    BY <2>2, <2>3
<1>4. /\ UNCHANGED <<made, registry, serving, packageVar, configs, instances, ran>>
      /\ panicked' \in BOOLEAN /\ wired' \subseteq DOMAIN made
  BY <1>2 DEF TypeOK, Wire
<1> QED
  BY <1>3, <1>4 DEF TypeOK

LEMMA TypeConfigNew ==
    ASSUME TypeOK, NEW k \in Kinds, NEW n \in Names, ConfigNew(k, n)
    PROVE  TypeOK'
<1> DEFINE d == sdk[k][n]
           c == Len(configs) + 1
           stored == [packageVar EXCEPT ![d] = c]
           new(status, handler) == [kind |-> k, name |-> n, def |-> d,
                                    status |-> status, handler |-> handler]
<1>1. d \in {0} \union DOMAIN made /\ d \in 0..MaxRegistered
  BY Places, BoundsAssumption DEF TypeOK
<1>2. CASE panicked'
  <2>1. /\ UNCHANGED <<made, registry, sdk, serving, packageVar, configs, instances, wired, ran>>
        /\ panicked' = TRUE
    BY <1>2 DEF ConfigNew
  <2> QED
    BY <2>1 DEF TypeOK
<1>3. CASE ~panicked'
  <2>1. c \in Nat /\ c <= MaxConfigs
    BY Places DEF ConfigNew
  <2>2. PICK status \in {"loaded", "empty", "refused"}, handler \in {0, c} :
          configs' = Append(configs, new(status, handler))
    BY <1>3 DEF ConfigNew, Attempt, Handler, NilStatus
  <2>3. new(status, handler) \in Config
    BY <1>1, <2>1, BoundsAssumption DEF Config
  <2>4. UNCHANGED <<made, registry, sdk, serving, instances, wired, ran, panicked>>
    BY <1>3 DEF ConfigNew
  <2>5. /\ configs' \in Seq(Config) /\ Len(configs') <= MaxConfigs
        /\ DOMAIN configs \subseteq DOMAIN configs' /\ c \in DOMAIN configs'
        /\ instances' \in Seq(InstanceOf(DOMAIN configs'))
    BY <2>1, <2>2, <2>3, <2>4, TypeConfigs
  <2>6. packageVar' \in {packageVar, stored}
    BY <1>3 DEF ConfigNew
  <2>7. packageVar' \in [1..MaxRegistered -> {0} \union DOMAIN configs']
    BY <2>5, <2>6 DEF TypeOK
  <2>8. ran' \subseteq (DOMAIN configs') \X (DOMAIN made') \X ({0} \union DOMAIN configs')
    BY <2>4, <2>5 DEF TypeOK
  <2> QED
    BY <2>4, <2>5, <2>7, <2>8 DEF TypeOK, InstanceOf
<1> QED
  BY <1>2, <1>3

LEMMA TypeConfigDestroy ==
    ASSUME TypeOK, NEW c \in DOMAIN configs, ConfigDestroy(c)
    PROVE  TypeOK'
<1>0. CASE UNCHANGED configs
  <2>1. /\ UNCHANGED <<made, registry, sdk, serving, packageVar, instances, wired, ran>>
        /\ panicked' \in BOOLEAN
    BY DEF ConfigDestroy, TypeOK
  <2> QED
    BY <1>0, <2>1 DEF TypeOK
<1> SUFFICES ASSUME configs' # configs PROVE TypeOK'
  BY <1>0
<1>1. configs' = [configs EXCEPT ![c] = [configs[c] EXCEPT !.status = "destroyed"]]
      /\ UNCHANGED <<made, registry, sdk, serving, packageVar, instances, panicked, wired, ran>>
  BY DEF ConfigDestroy
<1>2. [configs[c] EXCEPT !.status = "destroyed"] \in Config
  BY Places DEF Config
<1>3. configs' \in Seq(Config) /\ Len(configs') = Len(configs) /\ DOMAIN configs' = DOMAIN configs
  BY <1>1, <1>2 DEF TypeOK
<1> QED
  BY <1>1, <1>3 DEF TypeOK

LEMMA TypeInstance ==
    ASSUME TypeOK,
           \/ \E c \in DOMAIN configs : InstanceNew(c)
           \/ \E i \in DOMAIN instances : InstanceDestroy(i)
    PROVE  TypeOK'
<1>1. /\ UNCHANGED <<made, registry, sdk, serving, packageVar, configs, wired, ran>>
      /\ panicked' \in BOOLEAN
  BY DEF InstanceNew, InstanceDestroy, TypeOK
<1>2. instances' \in Seq(InstanceOf(DOMAIN configs)) /\ Len(instances') <= MaxInstances
  <2>1. instances \in Seq(InstanceOf(DOMAIN configs)) /\ Len(instances) <= MaxInstances
    BY DEF TypeOK, InstanceOf
  <2>2. ASSUME NEW c \in DOMAIN configs, InstanceNew(c), instances' # instances
        PROVE  instances' \in Seq(InstanceOf(DOMAIN configs)) /\ Len(instances') <= MaxInstances
    <3>1. PICK plugin \in BOOLEAN :
            instances' = Append(instances, [config |-> c, plugin |-> plugin, open |-> TRUE])
      BY <2>2 DEF InstanceNew, Opened
    <3>2. [config |-> c, plugin |-> plugin, open |-> TRUE] \in InstanceOf(DOMAIN configs)
      BY DEF InstanceOf
    <3>3. Len(instances) < MaxInstances
      BY <2>2 DEF InstanceNew
    <3> QED
      BY <2>1, <3>1, <3>2, <3>3, BoundsAssumption
  <2>3. ASSUME NEW i \in DOMAIN instances, InstanceDestroy(i)
        PROVE  instances' \in Seq(InstanceOf(DOMAIN configs)) /\ Len(instances') <= MaxInstances
    <3>1. instances' = [instances EXCEPT ![i] = [instances[i] EXCEPT !.open = FALSE]]
      BY <2>3 DEF InstanceDestroy
    <3>2. [instances[i] EXCEPT !.open = FALSE] \in InstanceOf(DOMAIN configs)
      BY Places DEF InstanceOf
    <3> QED
      BY <2>1, <3>1, <3>2
  <2> QED
    BY <2>1, <2>2, <2>3
<1> QED
  BY <1>1, <1>2 DEF TypeOK, InstanceOf

(* What runs is recorded with a registration and, of a configFn, with a    *)
(* configuration that was made.                                            *)
LEMMA TypeCallback ==
    ASSUME TypeOK, HandlerMade, PluginInv, NEW i \in DOMAIN instances, Callback(i)
    PROVE  TypeOK'
<1> DEFINE c == instances[i].config
<1>1. c \in DOMAIN configs /\ configs[c] \in Config
  BY Places DEF InstanceOf
<1>2. configs[c].def \in DOMAIN made /\ configs[c].def \in 1..MaxRegistered
  <2>1. configs[c].status # "refused" /\ configs[c].kind \in Kinds /\ configs[c].name \in Names
    BY <1>1 DEF Callback, PluginInv, InstanceInv, Config
  <2>2. configs[c].def # 0 /\ configs[c].def = sdk[configs[c].kind][configs[c].name]
    BY <1>1, <2>1 DEF PluginInv, ConfigInv
  <2>3. configs[c].def \in DOMAIN made
    BY <2>1, <2>2 DEF TypeOK
  <2> QED
    BY <2>3, Places
<1>3. State(c) \in {0} \union DOMAIN configs
  <2>1. packageVar[configs[c].def] \in {0} \union DOMAIN configs
    BY <1>2 DEF TypeOK
  <2>2. made[configs[c].def].style # "config" => configs[c].handler \in {0} \union DOMAIN configs
    BY <1>1 DEF HandlerMade
  <2> QED
    BY <2>1, <2>2 DEF State
<1>4. ran' \subseteq (DOMAIN configs) \X (DOMAIN made) \X ({0} \union DOMAIN configs)
  BY <1>1, <1>2, <1>3 DEF TypeOK, Callback
<1> QED
  BY <1>4 DEF TypeOK, Callback

LEMMA HandlerStep ==
    ASSUME TypeOK, HandlerMade, [Next]_vars
    PROVE  HandlerMade'
<1>1. CASE UNCHANGED configs
  BY <1>1 DEF HandlerMade
<1>2. ASSUME NEW k \in Kinds, NEW n \in Names, ConfigNew(k, n), configs' # configs
      PROVE  HandlerMade'
  <2> DEFINE c == Len(configs) + 1
             new(status, handler) == [kind |-> k, name |-> n, def |-> sdk[k][n],
                                      status |-> status, handler |-> handler]
  <2>1. PICK status \in {"loaded", "empty", "refused"}, handler \in {0, c} :
          configs' = Append(configs, new(status, handler))
    BY <1>2 DEF ConfigNew, Attempt, Handler, NilStatus
  <2>2. Len(configs) \in Nat /\ configs \in Seq(Config)
    BY DEF TypeOK
  <2>3. /\ DOMAIN configs' = DOMAIN configs \union {c}
        /\ \A b \in DOMAIN configs : configs'[b] = configs[b]
        /\ configs'[c] = new(status, handler)
    BY <2>1, <2>2
  <2> QED
    BY <2>3 DEF HandlerMade
<1>3. ASSUME NEW c \in DOMAIN configs, ConfigDestroy(c), configs' # configs
      PROVE  HandlerMade'
  <2>1. configs' = [configs EXCEPT ![c] = [configs[c] EXCEPT !.status = "destroyed"]]
    BY <1>3 DEF ConfigDestroy
  <2>2. configs[c] \in Config
    BY Places
  <2>3. \A b \in DOMAIN configs' : b \in DOMAIN configs /\ configs'[b].handler = configs[b].handler
    BY <2>1, <2>2 DEF Config
  <2>4. DOMAIN configs' = DOMAIN configs
    BY <2>1
  <2> QED
    BY <2>3, <2>4 DEF HandlerMade
<1> QED
  BY <1>1, <1>2, <1>3
  DEF Next, vars, Register, Wire, RegisterNetwork, Start, InstanceNew, Callback, InstanceDestroy

LEMMA TypeStep ==
    ASSUME TypeOK, HandlerMade, PluginInv, [Next]_vars
    PROVE  TypeOK'
<1>1. CASE Start
  BY <1>1 DEF Start, TypeOK
<1>2. CASE UNCHANGED vars
  BY <1>2 DEF vars, TypeOK
<1>3. ASSUME NEW n \in Names, RegisterNetwork(n) PROVE TypeOK'
  BY <1>3, TypeRegistered DEF Sources
<1> QED
  BY <1>1, <1>2, <1>3, TypeRegistered, TypeWire, TypeConfigNew, TypeConfigDestroy, TypeInstance,
     TypeCallback DEF Next

(* Every variable keeps its type: configurations and filters name what was *)
(* made before them, within the bounds, and what ran is one of both.       *)
THEOREM TypeCorrect == Spec => []TypeOK
<1>1. Init => HandlerMade
  BY DEF Init, HandlerMade
<1> QED
  BY <1>1, TypeInit, PluginInit, PluginStep, TypeStep, HandlerStep, PTL DEF Spec

=============================================================================
