---------------------------- MODULE Report_proofs ----------------------------
(***************************************************************************)
(* For every set of plugins and every order of their construction: the     *)
(* registry is sound (Plugins).  A run of the whole program is a run of    *)
(* the registry, so this holds while sections are parsed and printed;      *)
(* whatever the plugins call back with is in the sections (Report); and    *)
(* whoever reads the JSON output back finds the report, or no JSON at all  *)
(* (Json).                                                                 *)
(***************************************************************************)
EXTENDS Report, SequenceTheorems, WellFoundedInduction, TLAPS

(* What keeps the factories alive: every static object is there once, and  *)
(* a plugin's factory was completed before the plugin.                     *)
Once(s) == \A i, j \in DOMAIN s : s[i] = s[j] => i = j

FactoryFirst(s) ==
  \A i \in DOMAIN s : s[i] \in Plugins => \E j \in 1 .. i - 1 : s[j] = KindOf[s[i]]

DeadAreGone == \A i \in DOMAIN statics : statics[i] \notin dead

NoneDead == stage # "exit" => dead = {}

(* What makes the first plugin of an id win.                               *)
Fits(o, k, id) == o \in Plugins /\ KindOf[o] = k /\ IdOf[o] = id

IsFirst(s, k, id, p) ==
  \E i \in DOMAIN s : s[i] = p /\ Fits(p, k, id) /\ \A j \in 1 .. i - 1 : ~Fits(s[j], k, id)

FirstRegistered ==
  stage # "exit" =>
    /\ \A k \in Kinds : \A id \in DOMAIN registered[k] :
         IsFirst(statics, k, id, registered[k][id])
    /\ \A i \in DOMAIN statics :
         statics[i] \in Plugins => IdOf[statics[i]] \in DOMAIN registered[KindOf[statics[i]]]

Registrations ==
  \A k \in Kinds : \A id \in DOMAIN registered[k] :
    Fits(registered[k][id], k, id) /\ \E i \in DOMAIN statics : statics[i] = registered[k][id]

RegistryInv ==
  /\ PluginTypeOK /\ Once(statics) /\ FactoryFirst(statics)
  /\ DeadAreGone /\ NoneDead /\ FactoryOutlives /\ Registrations /\ FirstRegistered

-----------------------------------------------------------------------------
(* Appending a new object to the static objects. *)
LEMMA AppendOnce ==
  ASSUME NEW s \in Seq(Plugins \cup Kinds), NEW o \in Plugins \cup Kinds,
         o \notin Range(s), Once(s)
  PROVE  Once(Append(s, o))
<1>1. \A i \in DOMAIN s : s[i] # o
  BY DEF Range
<1> QED BY <1>1 DEF Once

LEMMA AppendFactory ==
  ASSUME NEW s \in Seq(Plugins \cup Kinds), NEW k \in Kinds, FactoryFirst(s)
  PROVE  FactoryFirst(Append(s, k))
<1> SUFFICES ASSUME NEW i \in DOMAIN Append(s, k), Append(s, k)[i] \in Plugins
             PROVE  \E j \in 1 .. i - 1 : Append(s, k)[j] = KindOf[Append(s, k)[i]]
  BY DEF FactoryFirst
<1>1. i \in DOMAIN s /\ Append(s, k)[i] = s[i]
  BY PluginAssumption
<1>2. PICK j \in 1 .. i - 1 : s[j] = KindOf[s[i]]
  BY <1>1 DEF FactoryFirst
<1>3. Append(s, k)[j] = s[j]
  BY <1>1, <1>2
<1> QED BY <1>1, <1>2, <1>3

LEMMA AppendPlugin ==
  ASSUME NEW s \in Seq(Plugins \cup Kinds), NEW p \in Plugins,
         KindOf[p] \in Range(s), FactoryFirst(s)
  PROVE  FactoryFirst(Append(s, p))
<1> SUFFICES ASSUME NEW i \in DOMAIN Append(s, p), Append(s, p)[i] \in Plugins
             PROVE  \E j \in 1 .. i - 1 : Append(s, p)[j] = KindOf[Append(s, p)[i]]
  BY DEF FactoryFirst
<1>1. CASE i \in DOMAIN s
  <2>1. Append(s, p)[i] = s[i]
    BY <1>1
  <2>2. PICK j \in 1 .. i - 1 : s[j] = KindOf[s[i]]
    BY <1>1, <2>1 DEF FactoryFirst
  <2>3. Append(s, p)[j] = s[j]
    BY <1>1, <2>2
  <2> QED BY <2>1, <2>2, <2>3
<1>2. CASE i = Len(s) + 1
  <2>1. PICK j \in DOMAIN s : s[j] = KindOf[p]
    BY DEF Range
  <2>2. Append(s, p)[j] = s[j] /\ j \in 1 .. i - 1 /\ Append(s, p)[i] = p
    BY <1>2, <2>1
  <2> QED BY <2>1, <2>2
<1> QED BY <1>1, <1>2

LEMMA AppendFirst ==
  ASSUME NEW s \in Seq(Plugins \cup Kinds), NEW o, NEW k, NEW id, NEW p,
         IsFirst(s, k, id, p)
  PROVE  IsFirst(Append(s, o), k, id, p)
<1>1. PICK i \in DOMAIN s :
        s[i] = p /\ Fits(p, k, id) /\ \A j \in 1 .. i - 1 : ~Fits(s[j], k, id)
  BY DEF IsFirst
<1>2. i \in DOMAIN Append(s, o) /\ \A j \in 1 .. i : Append(s, o)[j] = s[j]
  BY <1>1
<1>3. Append(s, o)[i] = p /\ \A j \in 1 .. i - 1 : ~Fits(Append(s, o)[j], k, id)
  BY <1>1, <1>2
<1> QED BY <1>1, <1>2, <1>3 DEF IsFirst

(* What WithFactory() leaves as it was while no factory is dead, and adds. *)
LEMMA Factory ==
  ASSUME RegistryInv, dead = {}, NEW k \in Kinds
  PROVE  /\ WithFactory(k) \in Seq(Plugins \cup Kinds)
         /\ Once(WithFactory(k)) /\ FactoryFirst(WithFactory(k))
         /\ k \in Range(WithFactory(k))
         /\ Range(WithFactory(k)) = Range(statics) \cup {k}
         /\ \A h, id, p : IsFirst(statics, h, id, p) => IsFirst(WithFactory(k), h, id, p)
<1> USE DEF RegistryInv, PluginTypeOK
<1>1. CASE k \in Range(statics)
  <2>1. WithFactory(k) = statics
    BY <1>1 DEF WithFactory
  <2> QED BY <1>1, <2>1
<1>2. CASE k \notin Range(statics)
  <2>1. WithFactory(k) = Append(statics, k)
    BY <1>2 DEF WithFactory
  <2>2. Range(Append(statics, k)) = Range(statics) \cup {k}
    <3> DEFINE t == Append(statics, k)
    <3>1. /\ DOMAIN t = 1 .. Len(statics) + 1 /\ DOMAIN statics = 1 .. Len(statics)
          /\ t[Len(statics) + 1] = k /\ \A i \in DOMAIN statics : t[i] = statics[i]
          /\ Len(statics) \in Nat
      OBVIOUS
    <3> HIDE DEF t
    <3>2. \A x \in Range(t) : x \in Range(statics) \cup {k}
      BY <3>1 DEF Range
    <3>3. \A x \in Range(statics) \cup {k} : x \in Range(t)
      BY <3>1 DEF Range
    <3> QED BY <3>2, <3>3 DEF t
  <2>3. Once(Append(statics, k)) /\ FactoryFirst(Append(statics, k))
    BY <1>2, AppendOnce, AppendFactory
  <2>4. \A h, id, p : IsFirst(statics, h, id, p) => IsFirst(Append(statics, k), h, id, p)
    BY AppendFirst
  <2> QED BY <2>1, <2>2, <2>3, <2>4
<1> QED BY <1>1, <1>2

-----------------------------------------------------------------------------
LEMMA InitHolds == PluginInit => RegistryInv
<1> SUFFICES ASSUME PluginInit PROVE RegistryInv
  OBVIOUS
<1>1. DOMAIN statics = {} /\ statics \in Seq(Plugins \cup Kinds)
  BY DEF PluginInit
<1>2. DOMAIN registered = Kinds /\ \A k \in Kinds : DOMAIN registered[k] = {}
  BY DEF PluginInit
<1>3. stage = "init" /\ dead = {} /\ misused = FALSE
  BY DEF PluginInit
<1> QED BY <1>1, <1>2, <1>3
        DEF RegistryInv, PluginTypeOK, Once, FactoryFirst, DeadAreGone, NoneDead,
            FactoryOutlives, Registrations, FirstRegistered

(* A plugin is constructed. *)
LEMMA ConstructStep ==
  ASSUME RegistryInv, NEW p \in Plugins, Construct(p)
  PROVE  RegistryInv'
<1> DEFINE k == KindOf[p]
           s == WithFactory(k)
           had == DOMAIN registered[k]
<1>1. k \in Kinds /\ IdOf[p] \in CompIds /\ dead = {} /\ stage = "init" /\ p \notin Kinds
  BY PluginAssumption DEF RegistryInv, NoneDead, Construct
<1>2. /\ s \in Seq(Plugins \cup Kinds) /\ Once(s) /\ FactoryFirst(s) /\ k \in Range(s)
      /\ Range(s) = Range(statics) \cup {k}
      /\ \A h, id, q : IsFirst(statics, h, id, q) => IsFirst(s, h, id, q)
  BY <1>1, Factory
<1>3. statics' = Append(s, p) /\ stage' = stage /\ dead' = dead /\ misused' = misused
  BY <1>1 DEF Construct, Use, RegistryInv, PluginTypeOK
<1>4. registered' = [registered EXCEPT ![k] =
         [id \in had \cup {IdOf[p]} |-> IF id \in had THEN registered[k][id] ELSE p]]
  BY DEF Construct, Add
<1>5. p \notin Range(s)
  BY <1>1, <1>2 DEF Construct
<1> HIDE DEF s
<1>6. PluginTypeOK'
  <2>1. statics' \in Seq(Plugins \cup Kinds)
    BY <1>2, <1>3
  <2> QED BY <1>1, <1>3, <1>4, <2>1 DEF RegistryInv, PluginTypeOK
<1>7. Once(statics') /\ FactoryFirst(statics')
  BY <1>2, <1>3, <1>5, AppendOnce, AppendPlugin
<1>8. DeadAreGone' /\ NoneDead' /\ FactoryOutlives'
  BY <1>1, <1>3 DEF RegistryInv, DeadAreGone, NoneDead, FactoryOutlives
<1>9. \A h \in Kinds : \A id \in DOMAIN registered'[h] :
        IsFirst(statics', h, id, registered'[h][id])
  <2> SUFFICES ASSUME NEW h \in Kinds, NEW id \in DOMAIN registered'[h]
               PROVE  IsFirst(statics', h, id, registered'[h][id])
    OBVIOUS
  <2>1. CASE id \in DOMAIN registered[h]
    <3>1. registered'[h][id] = registered[h][id]
      BY <1>4, <2>1 DEF RegistryInv, PluginTypeOK
    <3>2. IsFirst(statics, h, id, registered[h][id])
      BY <1>1, <2>1 DEF RegistryInv, FirstRegistered
    <3> QED BY <1>2, <1>3, <3>1, <3>2, AppendFirst
  <2>2. CASE id \notin DOMAIN registered[h]
    <3>1. h = k /\ id = IdOf[p] /\ registered'[h][id] = p
      BY <1>1, <1>4, <2>2 DEF RegistryInv, PluginTypeOK
    <3>2. \A o \in Range(statics) : ~Fits(o, h, id)
      BY <1>1, <2>2, <3>1 DEF RegistryInv, FirstRegistered, Fits, Range
    <3>3. ~Fits(k, h, id)
      BY <1>1, PluginAssumption DEF Fits
    <3>4. \A j \in DOMAIN s : ~Fits(s[j], h, id)
      BY <1>2, <3>2, <3>3 DEF Range
    <3>5. /\ Len(s) + 1 \in DOMAIN statics' /\ statics'[Len(s) + 1] = p
          /\ \A j \in 1 .. Len(s) : statics'[j] = s[j]
      BY <1>2, <1>3
    <3>6. \A j \in 1 .. (Len(s) + 1) - 1 : ~Fits(statics'[j], h, id)
      BY <1>2, <3>4, <3>5
    <3>7. Fits(p, h, id)
      BY <3>1 DEF Fits
    <3> QED BY <3>1, <3>5, <3>6, <3>7 DEF IsFirst
  <2> QED BY <2>1, <2>2
<1>10. \A i \in DOMAIN statics' :
         statics'[i] \in Plugins => IdOf[statics'[i]] \in DOMAIN registered'[KindOf[statics'[i]]]
  <2> SUFFICES ASSUME NEW i \in DOMAIN statics', statics'[i] \in Plugins
               PROVE  IdOf[statics'[i]] \in DOMAIN registered'[KindOf[statics'[i]]]
    OBVIOUS
  <2>1. statics'[i] = p \/ statics'[i] \in Range(s)
    BY <1>2, <1>3 DEF Range
  <2>2. CASE statics'[i] = p
    BY <1>1, <1>4, <2>2 DEF RegistryInv, PluginTypeOK
  <2>3. CASE statics'[i] \in Range(s)
    <3>1. statics'[i] \in Range(statics)
      BY <1>1, <1>2, <2>3, PluginAssumption
    <3>2. IdOf[statics'[i]] \in DOMAIN registered[KindOf[statics'[i]]]
      BY <1>1, <3>1 DEF RegistryInv, FirstRegistered, Range
    <3>3. KindOf[statics'[i]] \in Kinds
      BY PluginAssumption
    <3> QED BY <1>1, <1>4, <3>2, <3>3 DEF RegistryInv, PluginTypeOK
  <2> QED BY <2>1, <2>2, <2>3
<1>11. FirstRegistered'
  BY <1>9, <1>10 DEF FirstRegistered
<1>12. Registrations'
  BY <1>9 DEF Registrations, IsFirst
<1> QED BY <1>6, <1>7, <1>8, <1>11, <1>12 DEF RegistryInv

(* The program asks for a factory. *)
LEMMA AskStep ==
  ASSUME RegistryInv, NEW k \in Kinds, Ask(k)
  PROVE  RegistryInv'
<1>1. dead = {} /\ stage = "main"
  BY DEF RegistryInv, NoneDead, Ask
<1>2. /\ WithFactory(k) \in Seq(Plugins \cup Kinds)
      /\ Once(WithFactory(k)) /\ FactoryFirst(WithFactory(k))
      /\ Range(WithFactory(k)) = Range(statics) \cup {k}
      /\ \A h, id, p : IsFirst(statics, h, id, p) => IsFirst(WithFactory(k), h, id, p)
  BY <1>1, Factory
<1>3. /\ statics' = WithFactory(k) /\ stage' = stage /\ dead' = dead
      /\ registered' = registered /\ misused' = misused
  BY <1>1 DEF Ask, Use, RegistryInv, PluginTypeOK
<1>4. PluginTypeOK' /\ DeadAreGone' /\ NoneDead' /\ FactoryOutlives'
  BY <1>1, <1>2, <1>3 DEF RegistryInv, PluginTypeOK, DeadAreGone, NoneDead, FactoryOutlives
<1>5. \A h \in Kinds : \A id \in DOMAIN registered[h] :
        IsFirst(statics', h, id, registered[h][id])
  BY <1>1, <1>2, <1>3 DEF RegistryInv, FirstRegistered
<1>6. \A i \in DOMAIN statics' : statics'[i] \in Plugins => statics'[i] \in Range(statics)
  BY <1>2, <1>3, PluginAssumption DEF Range
<1>7. FirstRegistered'
  BY <1>1, <1>3, <1>5, <1>6 DEF RegistryInv, FirstRegistered, Range
<1>8. Registrations'
  BY <1>3, <1>5 DEF Registrations, IsFirst
<1> QED BY <1>2, <1>3, <1>4, <1>7, <1>8 DEF RegistryInv

(* A static object is destroyed. *)
LEMMA DestroyStep ==
  ASSUME RegistryInv, NEW o \in Plugins \cup Kinds, Destroy(o)
  PROVE  RegistryInv'
<1> DEFINE n == Len(statics)
<1>1. /\ stage = "exit" /\ stage' = "exit" /\ n \in Nat \ {0} /\ n \in DOMAIN statics
      /\ o = statics[n]
  BY DEF Destroy, RegistryInv, PluginTypeOK
<1>2. /\ statics' \in Seq(Plugins \cup Kinds) /\ Len(statics') = n - 1
      /\ DOMAIN statics' = 1 .. n - 1
      /\ \A i \in 1 .. n - 1 : i \in DOMAIN statics /\ statics'[i] = statics[i]
  <2> DEFINE t == SubSeq(statics, 1, n - 1)
  <2>1. statics \in Seq(Plugins \cup Kinds) /\ statics' = t
    BY DEF Destroy, RegistryInv, PluginTypeOK
  <2>2. /\ t \in Seq(Plugins \cup Kinds) /\ Len(t) = n - 1
        /\ \A i \in 1 .. n - 1 : t[i] = statics[i]
    <3>1. 1 .. n - 1 \subseteq DOMAIN statics /\ n - 1 \in Nat
      BY <1>1, <2>1
    <3>2. \A i \in 1 .. n - 1 : statics[i] \in Plugins \cup Kinds
      BY <3>1, <2>1
    <3>3. /\ t \in Seq(Plugins \cup Kinds)
          /\ Len(t) = IF 1 <= n - 1 THEN (n - 1) - 1 + 1 ELSE 0
          /\ \A i \in 1 .. (n - 1) - 1 + 1 : t[i] = statics[1 + i - 1]
      BY <3>1, <3>2, SubSeqProperties
    <3> HIDE DEF t
    <3>4. \A i \in 1 .. n - 1 : t[i] = statics[i]
      <4> TAKE i \in 1 .. n - 1
      <4>1. i \in 1 .. (n - 1) - 1 + 1 /\ 1 + i - 1 = i
        BY <1>1
      <4> QED BY <3>3, <4>1
    <3>5. Len(t) = n - 1
      <4> HIDE DEF n
      <4> QED BY <1>1, <3>3
    <3> QED BY <3>3, <3>4, <3>5, Zenon
  <2> HIDE DEF t
  <2> QED BY <1>1, <2>1, <2>2
<1>3. \A i \in 1 .. n - 1 : statics'[i] # o
  BY <1>1, <1>2 DEF RegistryInv, Once
<1>4. Once(statics')
  BY <1>2 DEF RegistryInv, Once
<1>5. FactoryFirst(statics')
  <2> SUFFICES ASSUME NEW i \in 1 .. n - 1, statics'[i] \in Plugins
               PROVE  \E j \in 1 .. i - 1 : statics'[j] = KindOf[statics'[i]]
    BY <1>2 DEF FactoryFirst
  <2>1. PICK j \in 1 .. i - 1 : statics[j] = KindOf[statics[i]]
    BY <1>2 DEF RegistryInv, FactoryFirst
  <2>2. j \in 1 .. n - 1
    BY <1>1, <2>1
  <2> QED BY <1>2, <2>1, <2>2
<1>6. CASE o \in Kinds
  <2>1. dead' = dead \cup {o} /\ registered' = [registered EXCEPT ![o] = <<>>]
        /\ misused' = misused
    BY <1>6 DEF Destroy
  <2>2. PluginTypeOK'
    BY <1>1, <1>2, <1>6, <2>1 DEF RegistryInv, PluginTypeOK
  <2>3. DeadAreGone' /\ NoneDead' /\ FactoryOutlives'
    BY <1>1, <1>2, <1>3, <2>1 DEF RegistryInv, DeadAreGone, NoneDead, FactoryOutlives
  <2>4. Registrations'
    <3> SUFFICES ASSUME NEW k \in Kinds, NEW id \in DOMAIN registered'[k]
                 PROVE  /\ Fits(registered'[k][id], k, id)
                        /\ \E i \in DOMAIN statics' : statics'[i] = registered'[k][id]
      BY DEF Registrations
    <3>1. k # o /\ registered'[k] = registered[k]
      BY <2>1 DEF RegistryInv, PluginTypeOK
    <3>2. PICK i \in DOMAIN statics : statics[i] = registered[k][id] 
      BY <3>1 DEF RegistryInv, Registrations
    <3>3. Fits(registered[k][id], k, id)
      BY <3>1 DEF RegistryInv, Registrations
    <3>4. i # n
      BY <1>1, <1>6, <3>2, <3>3, PluginAssumption DEF Fits
    <3>5. i \in 1 .. n - 1
      BY <1>1, <3>2, <3>4 DEF RegistryInv, PluginTypeOK
    <3> QED BY <1>2, <3>1, <3>2, <3>3, <3>5
  <2> QED BY <1>1, <1>4, <1>5, <2>2, <2>3, <2>4 DEF RegistryInv, FirstRegistered
<1>7. CASE o \notin Kinds
  <2>0. o \in Plugins /\ KindOf[o] \in Kinds
    BY <1>7, PluginAssumption
  <2>1. PICK j \in 1 .. n - 1 : statics[j] = KindOf[o]
    BY <1>1, <2>0 DEF RegistryInv, FactoryFirst
  <2>2. KindOf[o] \notin dead
    BY <1>2, <2>1 DEF RegistryInv, DeadAreGone
  <2>3. /\ dead' = dead /\ misused' = misused
        /\ registered' = [registered EXCEPT ![KindOf[o]] =
             [id \in DOMAIN registered[KindOf[o]] \ {IdOf[o]} |-> registered[KindOf[o]][id]]]
    BY <1>7, <2>2 DEF Destroy, Erase, Use, RegistryInv, PluginTypeOK
  <2>4. PluginTypeOK'
    BY <1>1, <1>2, <2>0, <2>3 DEF RegistryInv, PluginTypeOK
  <2>5. DeadAreGone' /\ NoneDead' /\ FactoryOutlives'
    BY <1>1, <1>2, <2>3 DEF RegistryInv, DeadAreGone, NoneDead, FactoryOutlives
  <2>6. Registrations'
    <3> SUFFICES ASSUME NEW k \in Kinds, NEW id \in DOMAIN registered'[k]
                 PROVE  /\ Fits(registered'[k][id], k, id)
                        /\ \E i \in DOMAIN statics' : statics'[i] = registered'[k][id]
      BY DEF Registrations
    <3>1. /\ id \in DOMAIN registered[k] /\ registered'[k][id] = registered[k][id]
          /\ k # KindOf[o] \/ id # IdOf[o]
      BY <2>3 DEF RegistryInv, PluginTypeOK
    <3>2. PICK i \in DOMAIN statics : statics[i] = registered[k][id]
      BY <3>1 DEF RegistryInv, Registrations
    <3>3. Fits(registered[k][id], k, id)
      BY <3>1 DEF RegistryInv, Registrations
    <3>4. i # n
      BY <1>1, <3>1, <3>2, <3>3 DEF Fits
    <3>5. i \in 1 .. n - 1
      BY <1>1, <3>2, <3>4 DEF RegistryInv, PluginTypeOK
    <3> QED BY <1>2, <3>1, <3>2, <3>3, <3>5
  <2> QED BY <1>1, <1>4, <1>5, <2>4, <2>5, <2>6 DEF RegistryInv, FirstRegistered
<1> QED BY <1>6, <1>7

LEMMA StepHolds == RegistryInv /\ [PluginNext]_pluginVars => RegistryInv'
<1> SUFFICES ASSUME RegistryInv, [PluginNext]_pluginVars PROVE RegistryInv'
  OBVIOUS
<1> USE DEF RegistryInv, PluginTypeOK, DeadAreGone, NoneDead, FactoryOutlives, Registrations,
            FirstRegistered
<1>1. ASSUME NEW p \in Plugins, Construct(p) PROVE RegistryInv'
  BY <1>1, ConstructStep
<1>2. CASE EnterMain
  BY <1>2 DEF EnterMain
<1>3. CASE Exit
  BY <1>3 DEF Exit
<1>4. ASSUME NEW k \in Kinds, Ask(k) PROVE RegistryInv'
  BY <1>4, AskStep
<1>5. ASSUME NEW o \in Plugins \cup Kinds, Destroy(o) PROVE RegistryInv'
  BY <1>5, DestroyStep
<1>6. CASE UNCHANGED pluginVars
  BY <1>6 DEF pluginVars
<1> QED BY <1>1, <1>2, <1>3, <1>4, <1>5, <1>6 DEF PluginNext

(* Plugins may be constructed in any order.                                *)
THEOREM RegistryInvariance == PluginSpec => []RegistryInv
BY InitHolds, StepHolds, PTL DEF PluginSpec

THEOREM RegistryTypes == PluginSpec => []PluginTypeOK
<1>1. RegistryInv => PluginTypeOK
  BY DEF RegistryInv
<1> QED BY <1>1, RegistryInvariance, PTL

(* No factory is used after its end, what is registered is alive, and the  *)
(* first plugin of an id is the one that is found.                         *)
THEOREM RegistryIsSound == PluginSpec => []RegistrySound
<1>1. RegistryInv => RegisteredIsAlive
  BY DEF RegistryInv, Registrations, RegisteredIsAlive, Fits, Range
<1>2. RegistryInv => FirstWins
  <2> SUFFICES ASSUME RegistryInv, stage = "main", NEW k \in Kinds, NEW id \in CompIds
               PROVE  LET fits == {i \in DOMAIN statics : Fits(statics[i], k, id)}
                      IN  IF fits = {} THEN Get(k, id) = NoPlugin
                          ELSE \E i \in fits : /\ Get(k, id) = statics[i]
                                               /\ \A j \in fits : i <= j
    BY DEF FirstWins, Fits
  <2> DEFINE fits == {i \in DOMAIN statics : Fits(statics[i], k, id)}
  <2>1. CASE id \in DOMAIN registered[k]
    <3>1. PICK i \in DOMAIN statics :
            /\ statics[i] = registered[k][id] /\ Fits(statics[i], k, id)
            /\ \A j \in 1 .. i - 1 : ~Fits(statics[j], k, id)
      BY <2>1 DEF RegistryInv, FirstRegistered, IsFirst
    <3>2. \A j \in fits : i <= j
      BY <3>1 DEF RegistryInv, PluginTypeOK
    <3> QED BY <2>1, <3>1, <3>2 DEF Get
  <2>2. CASE id \notin DOMAIN registered[k]
    <3>1. fits = {}
      BY <2>2 DEF RegistryInv, FirstRegistered, Fits
    <3> QED BY <2>2, <3>1 DEF Get
  <2> QED BY <2>1, <2>2
<1>3. RegistryInv => RegistrySound
  BY <1>1, <1>2 DEF RegistryInv, RegistrySound
<1> QED BY <1>3, RegistryInvariance, PTL

-----------------------------------------------------------------------------
LEMMA AskIsPluginStep ==
  ASSUME NEW k \in Kinds, Ask(k)
  PROVE  PluginNext
BY DEF PluginNext

(* Every step of the program is a step of the registry, or leaves it.      *)
LEMMA StepMaps == [Next]_vars => [PluginNext]_pluginVars
<1> SUFFICES ASSUME [Next]_vars PROVE [PluginNext]_pluginVars
  OBVIOUS
<1> USE DEF pluginVars
<1>1. CASE Startup \/ Shutdown
  BY <1>1 DEF Startup, Shutdown, PluginNext
<1>2. CASE PrintReport
  BY <1>2 DEF PrintReport
<1>3. CASE Finish
  BY <1>3 DEF Finish, PluginNext
<1>4. ASSUME NEW id \in CompIds, NEW payload \in Payloads, ParseUD(id, payload)
      PROVE  PluginNext
  BY <1>4, AskIsPluginStep DEF ParseUD, Kinds
<1>5. ASSUME NEW rc \in RefCodes, ParsePS(rc)
      PROVE  [PluginNext]_pluginVars
  BY <1>5, AskIsPluginStep DEF ParsePS, Kinds
<1>6. ASSUME NEW call \in Calls, Callback(call)
      PROVE  UNCHANGED pluginVars
  BY <1>6 DEF Callback
<1>7. ASSUME NEW ok \in BOOLEAN, Return(ok)
      PROVE  UNCHANGED pluginVars
  BY <1>7 DEF Return
<1>8. ASSUME NEW key \in Keys, ParseHeader(key)
      PROVE  UNCHANGED pluginVars
  BY <1>8 DEF ParseHeader
<1>9. CASE ParseUnknown
  BY <1>9 DEF ParseUnknown
<1>10. CASE UNCHANGED vars
  BY <1>10 DEF vars
<1> QED BY <1>1, <1>2, <1>3, <1>4, <1>5, <1>6, <1>7, <1>8, <1>9, <1>10 DEF Next

(* The program implements the registry's specification.                    *)
THEOREM ImplementsPlugins == Spec => PluginSpec
<1>1. Init => PluginInit
  BY DEF Init
<1> QED BY <1>1, StepMaps, PTL DEF Spec, PluginSpec

(* Whatever sections an event has, plugins and factories are alive when    *)
(* they are used, and a component's section goes to its first plugin.      *)
THEOREM ReportRegistryIsSound == Spec => []RegistrySound
BY ImplementsPlugins, RegistryIsSound, PTL

-----------------------------------------------------------------------------
(* Numbers: the widths grow, and half the values of one fit in the next.   *)
LEMMA SquareGrows ==
  ASSUME NEW b \in Nat, b >= 4
  PROVE  Square(b) \in Nat /\ Square(b) >= b + b /\ Square(b) > b /\ Square(b) >= 4
BY DEF Square

LEMMA Limits ==
  /\ Limit(1) \in Nat /\ Limit(2) \in Nat /\ Limit(4) \in Nat /\ Limit(8) \in Nat
  /\ 4 <= Limit(1) /\ Limit(1) < Limit(2) /\ Limit(2) < Limit(4)
  /\ Limit(4) + Limit(4) <= Limit(8)
BY SquareGrows, ParamsAssumption DEF Limit

LEMMA Residue ==
  ASSUME NEW n \in Int, NEW l \in Nat, l > 0
  PROVE  /\ n % l \in 0 .. l - 1
         /\ ((n % l) - n) % l = 0
         /\ n \in 0 .. l - 1 => n % l = n
         /\ -l <= n /\ n < 0 => n % l = n + l
<1>1. n % l \in 0 .. l - 1
  OBVIOUS
<1>2. n = (l * (n \div l)) + (n % l) /\ n \div l \in Int
  OBVIOUS
<1>3. (n % l) - n = l * (0 - (n \div l))
  BY <1>2
<1>4. \A k \in Int : (l * k) % l = 0
  OBVIOUS
<1>5. n \in 0 .. l - 1 => n % l = n
  OBVIOUS
<1>6. -l <= n /\ n < 0 => n % l = n + l
  OBVIOUS
<1> QED BY <1>1, <1>2, <1>3, <1>4, <1>5, <1>6

LEMMA LeastExists ==
  ASSUME NEW S, S \subseteq Nat, S # {}
  PROVE  \E n \in S : \A m \in S : n <= m
<1> DEFINE R == {p \in Nat \X Nat : p[1] < p[2]}
<1>1. IsWellFoundedOn(R, Nat)
  BY NatLessThanWellFounded DEF OpToRel
<1>2. PICK n \in S : \A m \in S : ~(<<m, n>> \in R)
  <2> HIDE DEF R
  <2> QED BY <1>1, WFMin
<1>3. ASSUME NEW m \in S PROVE n <= m
  <2>1. <<m, n>> \in Nat \X Nat /\ <<m, n>> \notin R
    BY <1>2
  <2>2. ~(m < n)
    BY <2>1
  <2> QED BY <2>2
<1> QED BY <1>3

LEMMA MinOfSet ==
  ASSUME NEW S, S \subseteq Nat, S # {}
  PROVE  Min(S) \in S /\ \A m \in S : Min(S) <= m
BY LeastExists DEF Min

LEMMA MaxOfSet ==
  ASSUME NEW n \in Nat, NEW S, S \subseteq 1 .. n, S # {}
  PROVE  Max(S) \in S /\ \A m \in S : m <= Max(S)
<1> DEFINE T == {n - m : m \in S}
<1>1. T \subseteq Nat /\ T # {}
  <2>1. \A m \in S : n - m \in Nat
    OBVIOUS
  <2> QED BY <2>1
<1>2. PICK t \in T : \A m \in T : t <= m
  <2> HIDE DEF T
  <2> QED BY <1>1, LeastExists
<1>3. PICK x \in S : t = n - x
  OBVIOUS
<1>4. \A m \in S : m <= x
  <2> TAKE m \in S
  <2>1. n - m \in T
    OBVIOUS
  <2>2. t <= n - m
    <3> HIDE DEF T
    <3> QED BY <1>2, <2>1
  <2> QED BY <1>3, <2>2
<1> QED BY <1>3, <1>4 DEF Max

(* SaveNumeric() takes the least width that is wide enough.                *)
LEMMA WidthIsLeast ==
  ASSUME NEW fmt, NEW n \in 0 .. Limit(8) - 1
  PROVE  /\ Width(fmt, n) \in Widths /\ n < Limit(Width(fmt, n))
         /\ Width(fmt, n) = LeastWidth(fmt, n)
         /\ n >= Limit(4) => Width(fmt, n) = 8
<1> DEFINE asked == IF "16" \in fmt THEN 8 ELSE IF "8" \in fmt THEN 4
                    ELSE IF "4" \in fmt THEN 2 ELSE 1
           wide  == {w \in Widths : asked <= w /\ n < Limit(w)}
           w     == Width(fmt, n)
<1>1. w \in Widths /\ n < Limit(w) /\ asked <= w
  BY Limits DEF Width, Widths
<1>2. ASSUME NEW v \in wide PROVE w <= v
  BY Limits DEF Width, Widths
<1>3. w = Min(wide)
  <2>1. wide \subseteq Nat /\ w \in wide
    BY <1>1 DEF Widths
  <2> HIDE DEF wide, w
  <2>2. Min(wide) \in wide /\ \A m \in wide : Min(wide) <= m
    BY <2>1, MinOfSet
  <2>3. w <= Min(wide)
    BY <1>2, <2>2
  <2>4. Min(wide) <= w
    BY <2>1, <2>2
  <2>5. w \in Nat /\ Min(wide) \in Nat
    BY <2>1, <2>2
  <2> QED BY <2>3, <2>4, <2>5
<1>4. LeastWidth(fmt, n) = Min(wide)
  BY DEF LeastWidth
<1>5. n >= Limit(4) => w = 8
  BY DEF Width
<1> QED BY <1>1, <1>3, <1>4, <1>5

(* A text without the spaces around it.                                    *)
LEMMA TrimmedShows ==
  ASSUME NEW text \in Seq(Chars)
  PROVE  TextShown(Trimmed(text), text)
<1> DEFINE solid == {k \in DOMAIN text : text[k] \notin Spaces}
<1>0. Len(text) \in Nat /\ DOMAIN text = 1 .. Len(text)
  OBVIOUS
<1>1. CASE solid = {}
  <2>1. Trimmed(text) = <<>>
    BY <1>1 DEF Trimmed
  <2>2. SubSeq(text, Len(text) + 1, Len(text)) = <<>>
    BY <1>0
  <2>3. \A j \in 1 .. Len(text) : text[j] \in Spaces
    BY <1>0, <1>1
  <2> QED BY <1>0, <2>1, <2>2, <2>3 DEF TextShown
<1>2. CASE solid # {}
  <2> DEFINE lo == Min(solid)
             hi == Max(solid)
             t  == SubSeq(text, lo, hi)
  <2>1. Trimmed(text) = t
    BY <1>2 DEF Trimmed
  <2>2. solid \subseteq 1 .. Len(text) /\ solid \subseteq Nat
    BY <1>0
  <2>3. lo \in solid /\ hi \in solid /\ \A k \in solid : lo <= k /\ k <= hi
    <3> HIDE DEF solid
    <3> QED BY <1>0, <1>2, <2>2, MinOfSet, MaxOfSet
  <2>4. \A j \in (1 .. lo - 1) \cup (hi + 1 .. Len(text)) : text[j] \in Spaces
    <3> SUFFICES ASSUME NEW j \in (1 .. lo - 1) \cup (hi + 1 .. Len(text))
                 PROVE  text[j] \in Spaces
      OBVIOUS
    <3>1. lo \in 1 .. Len(text) /\ hi \in 1 .. Len(text)
      BY <2>2, <2>3
    <3>2. j \in DOMAIN text /\ (j < lo \/ j > hi)
      <4> HIDE DEF lo, hi
      <4> QED BY <1>0, <3>1
    <3>3. j \notin solid
      <4> HIDE DEF lo, hi, solid
      <4> QED BY <1>0, <2>2, <2>3, <3>1, <3>2
    <3> QED BY <3>2, <3>3
  <2>5. lo \in 1 .. Len(text) /\ hi \in 1 .. Len(text) /\ lo <= hi
    BY <2>2, <2>3
  <2>6. text[lo] \notin Spaces /\ text[hi] \notin Spaces
    BY <2>3
  <2> HIDE DEF lo, hi, solid
  <2>7. Len(t) = hi - lo + 1 /\ t[1] = text[lo] /\ t[Len(t)] = text[hi]
    BY <1>0, <2>5
  <2>8. lo - 1 \in 0 .. Len(text) /\ hi \in 0 .. Len(text) /\ (lo - 1) + 1 = lo
    BY <1>0, <2>5
  <2>9. \E a, b \in 0 .. Len(text) :
          /\ t = SubSeq(text, a + 1, b)
          /\ \A j \in (1 .. a) \cup (b + 1 .. Len(text)) : text[j] \in Spaces
    BY <2>4, <2>8
  <2> QED BY <2>1, <2>6, <2>7, <2>9 DEF TextShown
<1> QED BY <1>1, <1>2

-----------------------------------------------------------------------------
(* A parameter of a known type; a number fits in its width.                *)
TypedParam(p) ==
  /\ p.type \in {"blank", "header", "raw", "bool", "number", "string"}
  /\ p.type = "number" => p.width \in Widths /\ p.n \in 0 .. Limit(p.width) - 1

(* The parameters there can be: those of a call, hex dumps, and those that *)
(* sections give themselves.                                               *)
Texts == {<<"x">>, <<"x", Space, "x">>} \cup {rc.text : rc \in RefCodes}

OwnNumbers == UNION {{Number(<<"x">>, n, w) : n \in 0 .. Limit(w) - 1} : w \in Widths}
OwnTexts   == {StringParam(<<"x">>, text) : text \in Texts}

Dumped == Payloads \cup {<<>>}

AnyParam ==
  {Collected(call) : call \in Calls} \cup {RawParam(HexDump(data)) : data \in Dumped}
    \cup OwnNumbers \cup OwnTexts

(* Every call shows what it must, in a parameter that is typed.            *)
LEMMA NumberShows ==
  ASSUME NEW name, NEW fmt, NEW n \in -(Limit(4) \div 2) .. Limit(8) - 1, Space \notin fmt
  PROVE  LET p == PrintNumber(name, fmt, n)
         IN  NumberShown(p, fmt, n) /\ TypedParam(p)
<1> DEFINE m == n % Limit(8)
           w == Width(fmt, m)
<1>1. n \in Int /\ Limit(8) > 0 /\ -Limit(8) <= n
  BY Limits
<1>2. m \in 0 .. Limit(8) - 1 /\ ((m - n) % Limit(8) = 0) /\ (n < 0 => m = n + Limit(8))
  BY <1>1, Limits, Residue
<1>3. n < 0 => m >= Limit(4)
  <2>1. Limit(4) \div 2 <= Limit(4) /\ Limit(4) \div 2 \in Nat
    BY Limits
  <2> QED BY <1>2, <2>1, Limits
<1>4. w \in Widths /\ m < Limit(w) /\ w = LeastWidth(fmt, m) /\ (m >= Limit(4) => w = 8)
  <2> HIDE DEF m
  <2> QED BY <1>2, WidthIsLeast
<1>5. Limit(w) \in Nat /\ Limit(w) > 0 /\ m \in 0 .. Limit(w) - 1
  <2> HIDE DEF m, w
  <2> QED BY <1>2, <1>4, Limits DEF Widths
<1>6. m % Limit(w) = m
  <2> HIDE DEF m, w
  <2> QED BY <1>5, Residue
<1>7. PrintNumber(name, fmt, n) = Number(name, m, w)
  BY <1>6 DEF PrintNumber, SaveNumeric
<1> HIDE DEF m, w
<1> QED BY <1>2, <1>3, <1>4, <1>5, <1>7 DEF Number, Param, NumberShown, TypedParam

LEMMA CallShows ==
  ASSUME NEW call \in Calls
  PROVE  Shows(Collected(call), call) /\ TypedParam(Collected(call))
<1>0. call.op \in Ops
  BY ReportAssumption
<1>1. CASE call.op = "string"
  <2>1. CASE call.text # Null
    <3>1. Collected(call).type = "string" /\ Collected(call).text = Trimmed(call.text)
      BY <1>1, <2>1 DEF Collected, StringParam, Param
    <3>2. call.text \in Seq(Chars)
      BY <2>1, ReportAssumption, Zenon
    <3> QED BY <1>1, <3>1, <3>2, TrimmedShows DEF Shows, TypedParam
  <2>2. CASE call.text = Null
    <3>1. Collected(call).type = "string"
      BY <1>1, <2>2 DEF Collected, StringParam, Param
    <3> QED BY <1>1, <2>2, <3>1 DEF Shows, TypedParam
  <2> QED BY <2>1, <2>2
<1>2. CASE call.op = "number"
  <2>1. Collected(call) = PrintNumber(call.name, call.fmt, call.n)
    BY <1>2 DEF Collected
  <2>2. call.n \in -(Limit(4) \div 2) .. Limit(8) - 1
    BY <1>2, ReportAssumption
  <2>3. CASE Space \in call.fmt
    <3>1. Collected(call).type = "string"
      BY <2>1, <2>3 DEF PrintNumber, StringParam, Param
    <3> QED BY <1>2, <2>3, <3>1 DEF Shows, TypedParam
  <2>4. CASE Space \notin call.fmt
    <3>1. NumberShown(Collected(call), call.fmt, call.n) /\ TypedParam(Collected(call))
      BY <2>1, <2>2, <2>4, NumberShows
    <3> QED BY <1>2, <3>1 DEF Shows, NumberShown
  <2> QED BY <2>3, <2>4
<1>3. CASE call.op = "blank"
  <2>1. Collected(call).type = "blank"
    BY <1>3 DEF Collected, Blank, Param
  <2> QED BY <1>3, <2>1 DEF Shows, TypedParam
<1>4. CASE call.op \in {"bool", "dump", "heading", "trace"}
  <2>1. Collected(call).type \in {"bool", "raw", "header"}
    BY <1>4 DEF Collected, Bool, RawParam, Heading, Param
  <2> QED BY <1>4, <2>1 DEF Shows, TypedParam
<1> QED BY <1>0, <1>1, <1>2, <1>3, <1>4 DEF Ops

LEMMA ParamsAreTyped == \A p \in AnyParam : TypedParam(p)
<1>1. \A call \in Calls : TypedParam(Collected(call))
  BY CallShows
<1>2. \A text : TypedParam(RawParam(text))
  BY DEF TypedParam, RawParam, Param
<1>3. \A text : TypedParam(StringParam(<<"x">>, text))
  BY DEF TypedParam, StringParam, Param
<1>4. \A w \in Widths : \A n \in 0 .. Limit(w) - 1 : TypedParam(Number(<<"x">>, n, w))
  BY DEF TypedParam, Number, Param
<1>5. \A p \in OwnTexts : TypedParam(p)
  BY <1>3 DEF OwnTexts
<1>6. ASSUME NEW p \in OwnNumbers PROVE TypedParam(p)
  <2>1. PICK w \in Widths : p \in {Number(<<"x">>, n, w) : n \in 0 .. Limit(w) - 1}
    BY DEF OwnNumbers
  <2> QED BY <1>4, <2>1
<1> QED BY <1>1, <1>2, <1>5, <1>6 DEF AnyParam

-----------------------------------------------------------------------------
(* The parameters that the sections start with.                            *)
LEMMA OwnNumberIn ==
  ASSUME NEW w \in Widths, NEW n \in 0 .. Limit(w) - 1
  PROVE  Number(<<"x">>, n, w) \in AnyParam
BY DEF AnyParam, OwnNumbers

LEMMA SmallNumbers ==
  \A w \in Widths : 0 .. 3 \subseteq 0 .. Limit(w) - 1
BY Limits DEF Widths

LEMMA OwnTextIn ==
  ASSUME NEW text \in Texts
  PROVE  StringParam(<<"x">>, text) \in AnyParam
BY DEF AnyParam, OwnTexts

LEMMA PHParams == \A key : SectionPH(key) \in Seq(AnyParam)
<1> TAKE key
<1>1. Described(key) \in Texts
  BY DEF Described, Texts
<1>2. 4 \in 0 .. Limit(4) - 1
  BY Limits
<1>3. \A i \in 1 .. 4 : Number(<<"x">>, i, 4) \in AnyParam
  BY <1>2, SmallNumbers, OwnNumberIn DEF Widths
<1>4. [i \in 1 .. 4 |-> Number(<<"x">>, i, 4)] \in Seq(AnyParam)
  BY <1>3
<1>5. /\ Number(<<"x">>, 1, 8) \in AnyParam /\ Number(<<"x">>, 2, 8) \in AnyParam
      /\ StringParam(<<"x">>, Described(key)) \in AnyParam
      /\ Number(<<"x">>, 3, 1) \in AnyParam
  BY <1>1, SmallNumbers, OwnNumberIn, OwnTextIn DEF Widths
<1> QED BY <1>4, <1>5 DEF SectionPH

LEMMA UHParams == \A key : SectionUH(key) \in Seq(AnyParam)
<1> TAKE key
<1>1. Described(key) \in Texts
  BY DEF Described, Texts
<1>2. [i \in 1 .. 4 |-> StringParam(<<"x">>, Described(key))] \in Seq(AnyParam)
  BY <1>1, OwnTextIn
<1>3. /\ Number(<<"x">>, 1, 1) \in AnyParam /\ Number(<<"x">>, 2, 1) \in AnyParam
      /\ Number(<<"x">>, 3, 2) \in AnyParam
  BY SmallNumbers, OwnNumberIn DEF Widths
<1> QED BY <1>2, <1>3 DEF SectionUH

LEMMA PSParams ==
  ASSUME NEW rc \in RefCodes
  PROVE  SectionPS(rc) \in Seq(AnyParam) /\ (rc.valid => Len(SectionPS(rc)) = 6)
<1> DEFINE code == IF rc.valid
                   THEN <<StringParam(<<"x">>, <<"x">>), Number(<<"x">>, rc.num % Limit(4), 4)>>
                   ELSE <<StringParam(<<"x">>, rc.text)>>
           rest == <<Number(<<"x">>, rc.flags, 1), Number(<<"x">>, rc.words, 1),
                     StringParam(<<"x">>, <<"x", Space, "x">>),
                     StringParam(<<"x">>, <<"x", Space, "x">>)>>
<1>1. rc.flags \in 0 .. Limit(1) - 1 /\ rc.words \in 0 .. Limit(1) - 1
  BY ReportAssumption
<1>2. <<"x">> \in Texts /\ <<"x", Space, "x">> \in Texts /\ rc.text \in Texts
  BY DEF Texts
<1>3. rest \in Seq(AnyParam) /\ Len(rest) = 4
  BY <1>1, <1>2, OwnNumberIn, OwnTextIn DEF Widths
<1>4. CASE rc.valid
  <2>1. rc.num % Limit(4) \in 0 .. Limit(4) - 1
    BY <1>4, ReportAssumption, Limits, Residue
  <2>2. Number(<<"x">>, rc.num % Limit(4), 4) \in AnyParam
    BY <2>1, OwnNumberIn DEF Widths
  <2>3. code \in Seq(AnyParam) /\ Len(code) = 2
    BY <1>2, <1>4, <2>2, OwnTextIn
  <2>4. SectionPS(rc) = code \o rest
    BY DEF SectionPS
  <2> HIDE DEF code, rest
  <2>5. code \o rest \in Seq(AnyParam)
    BY <1>3, <2>3
  <2>6. Len(code \o rest) = Len(code) + Len(rest)
    BY <1>3, <2>3, ConcatProperties
  <2> QED BY <1>3, <2>3, <2>4, <2>5, <2>6
<1>5. CASE ~rc.valid
  <2>1. code \in Seq(AnyParam)
    BY <1>2, <1>5, OwnTextIn
  <2>2. SectionPS(rc) = code \o rest
    BY DEF SectionPS
  <2> HIDE DEF code, rest
  <2> QED BY <1>3, <1>5, <2>1, <2>2
<1> QED BY <1>4, <1>5

-----------------------------------------------------------------------------
(* The invariant of a report.  A section that a plugin works on has its    *)
(* own parameters and one for each call so far; a section that is done has *)
(* these in front.                                                         *)
Sections ==
  [kind : {"ph", "uh", "unknown", "ud", "ps"}, payload : Dumped,
   header : {HeaderParams(Len(data)) : data \in Dumped}, params : Seq(AnyParam),
   plugin : Plugins \cup {NoPlugin}, calls : Seq(Calls), ok : BOOLEAN]

OwnCount(s) == IF s.kind = "ps" THEN 6 ELSE 0

CallsInPlace(s) ==
  \A k \in 1 .. Len(s.calls) : /\ OwnCount(s) + k \in 1 .. Len(s.params)
                               /\ s.params[OwnCount(s) + k] = Collected(s.calls[k])

InWork(s) ==
  /\ s.kind \in {"ud", "ps"} /\ s.plugin # NoPlugin /\ ~s.ok
  /\ Len(s.params) = OwnCount(s) + Len(s.calls)
  /\ CallsInPlace(s)

FallsBack(s) ==
  s.kind = "ud" =>
    /\ Len(s.params) = Len(s.calls) + IF s.ok THEN 0 ELSE 1
    /\ s.ok => s.plugin # NoPlugin
    /\ ~s.ok => s.params[Len(s.params)] = RawParam(HexDump(s.payload))

Done(s) == CallsInPlace(s) /\ FallsBack(s)

ReportInv ==
  /\ PluginTypeOK
  /\ sel \in {<<>>, SelParams} /\ made \in 0 .. MaxCalls
  /\ sections \in Seq(Sections) /\ Len(sections) <= MaxSections
  /\ \A i \in 1 .. Len(sections) : Done(sections[i])
  /\ cur # <<>> =>
       /\ cur = <<cur[1]>> /\ cur[1] \in Sections /\ InWork(cur[1])
       /\ Len(sections) < MaxSections

(* A section as the parser makes it, before its plugin is called.          *)
Fresh(s) ==
  /\ s \in Sections /\ s.calls = <<>> /\ ~s.ok
  /\ s.kind = "ud" => s.params = <<>>
  /\ s.plugin # NoPlugin => s.kind \in {"ud", "ps"} /\ Len(s.params) = OwnCount(s)

LEMMA SectionIsFresh ==
  ASSUME NEW kind \in {"ph", "uh", "unknown", "ud", "ps"}, NEW payload \in Dumped,
         NEW params \in Seq(AnyParam), NEW plugin \in Plugins \cup {NoPlugin},
         kind = "ud" => params = <<>>,
         plugin # NoPlugin => \/ kind = "ud"
                              \/ kind = "ps" /\ Len(params) = 6
  PROVE  Fresh(Section(kind, payload, params, plugin))
<1> DEFINE s == Section(kind, payload, params, plugin)
<1>1. /\ s.kind = kind /\ s.payload = payload /\ s.params = params /\ s.plugin = plugin
      /\ s.calls = <<>> /\ ~s.ok
  BY DEF Section
<1>2. HeaderParams(Len(payload)) \in {HeaderParams(Len(data)) : data \in Dumped}
  OBVIOUS
<1>3. <<>> \in Seq(Calls)
  OBVIOUS
<1>4. s \in Sections
  BY <1>2, <1>3 DEF Section, Sections
<1> HIDE DEF s
<1>5. Fresh(s)
  BY <1>1, <1>4 DEF Fresh, OwnCount
<1> QED BY <1>5 DEF s

(* A section that is done shows what its plugin called back with.          *)
LEMMA CompletedIsDone ==
  ASSUME NEW s \in Sections, NEW ok \in BOOLEAN, CallsInPlace(s), ~s.ok,
         s.kind = "ud" => Len(s.params) = Len(s.calls),
         ok => s.plugin # NoPlugin
  PROVE  Completed(s, ok) \in Sections /\ Done(Completed(s, ok))
<1>0. /\ s.params \in Seq(AnyParam) /\ s.calls \in Seq(Calls) /\ s.payload \in Dumped
      /\ OwnCount(s) \in {0, 6} /\ s.ok \in BOOLEAN
  BY DEF Sections, OwnCount
<1>1. CASE s.kind # "ud" \/ ok
  <2> DEFINE t == [s EXCEPT !.ok = ok]
  <2>1. Completed(s, ok) = t
    BY <1>1 DEF Completed
  <2>2. /\ t \in Sections /\ t.kind = s.kind /\ t.params = s.params /\ t.calls = s.calls
        /\ t.plugin = s.plugin /\ t.ok = ok
    BY DEF Sections
  <2> HIDE DEF t
  <2>3. CallsInPlace(t)
    BY <2>2 DEF CallsInPlace, OwnCount
  <2>4. FallsBack(t)
    BY <1>0, <1>1, <2>2 DEF FallsBack
  <2> QED BY <2>1, <2>2, <2>3, <2>4 DEF Done
<1>2. CASE s.kind = "ud" /\ ~ok
  <2> DEFINE dump == RawParam(HexDump(s.payload))
             t == [s EXCEPT !.params = Append(@, dump)]
  <2>1. Completed(s, ok) = t
    BY <1>2 DEF Completed
  <2>2. dump \in AnyParam
    BY <1>0 DEF AnyParam
  <2> HIDE DEF dump
  <2>3. Append(s.params, dump) \in Seq(AnyParam)
    BY <1>0, <2>2
  <2>4. /\ t \in Sections /\ t.kind = s.kind /\ t.params = Append(s.params, dump)
        /\ t.calls = s.calls /\ t.plugin = s.plugin /\ t.payload = s.payload /\ t.ok = s.ok
    BY <2>3 DEF Sections
  <2> HIDE DEF t
  <2>5. /\ Len(t.params) = Len(s.params) + 1 /\ t.params[Len(t.params)] = dump
        /\ \A k \in 1 .. Len(s.params) : t.params[k] = s.params[k]
    BY <1>0, <2>4
  <2>6. CallsInPlace(t)
    BY <1>0, <2>4, <2>5 DEF CallsInPlace, OwnCount
  <2>7. FallsBack(t)
    BY <1>0, <1>2, <2>4, <2>5 DEF FallsBack, dump
  <2> QED BY <2>1, <2>4, <2>6, <2>7 DEF Done
<1> QED BY <1>1, <1>2
-----------------------------------------------------------------------------
LEMMA ReportInit == Init => ReportInv
<1> SUFFICES ASSUME Init PROVE ReportInv
  OBVIOUS
<1>1. PluginTypeOK
  BY InitHolds DEF Init, RegistryInv
<1>2. sel \in {<<>>, SelParams} /\ sections = <<>> /\ cur = <<>> /\ made = 0
  BY DEF Init
<1>3. MaxSections \in Nat /\ MaxCalls \in Nat
  BY ReportAssumption
<1> QED BY <1>1, <1>2, <1>3 DEF ReportInv

(* The parser makes a section; its plugin goes to work, or it is done.     *)
LEMMA BeginStep ==
  ASSUME ReportInv, PluginTypeOK', Parsing, NEW s, Fresh(s), Begin(s)
  PROVE  ReportInv'
<1>1. s \in Sections /\ s.calls = <<>> /\ ~s.ok
  BY DEF Fresh
<1>2. CallsInPlace(s)
  BY <1>1 DEF CallsInPlace
<1>3. UNCHANGED <<sel, made>> /\ cur = <<>> /\ Len(sections) < MaxSections
  BY DEF Begin, Parsing
<1>4. CASE s.plugin # NoPlugin
  <2>1. cur' = <<s>> /\ sections' = sections
    BY <1>4 DEF Begin
  <2>2. InWork(s)
    BY <1>1, <1>2, <1>4 DEF Fresh, InWork, OwnCount
  <2> QED BY <1>1, <1>3, <2>1, <2>2 DEF ReportInv
<1>5. CASE s.plugin = NoPlugin
  <2> DEFINE t == Completed(s, FALSE)
  <2>1. cur' = cur /\ sections' = Append(sections, t)
    BY <1>5 DEF Begin
  <2>2. s.kind = "ud" => Len(s.params) = Len(s.calls)
    BY <1>1 DEF Fresh
  <2>3. t \in Sections /\ Done(t)
    BY <1>1, <1>2, <2>2, CompletedIsDone
  <2> HIDE DEF t
  <2>4. sections \in Seq(Sections) /\ MaxSections \in Nat
    BY ReportAssumption DEF ReportInv
  <2>5. sections' \in Seq(Sections) /\ Len(sections') = Len(sections) + 1
    BY <2>1, <2>3, <2>4
  <2>6. \A i \in 1 .. Len(sections') : Done(sections'[i])
    BY <2>1, <2>3, <2>4, <2>5 DEF ReportInv
  <2> QED BY <1>3, <2>1, <2>4, <2>5, <2>6 DEF ReportInv
<1> QED BY <1>4, <1>5

LEMMA PluginFound ==
  ASSUME PluginTypeOK, NEW k \in Kinds, NEW id
  PROVE  Get(k, id) \in Plugins \cup {NoPlugin}
BY DEF PluginTypeOK, Get

LEMMA HeaderStep ==
  ASSUME ReportInv, PluginTypeOK', NEW key \in Keys, ParseHeader(key)
  PROVE  ReportInv'
<1>1. <<>> \in Dumped /\ NoPlugin \in Plugins \cup {NoPlugin}
  BY DEF Dumped
<1>2. Fresh(Section("ph", <<>>, SectionPH(key), NoPlugin))
  BY <1>1, PHParams, SectionIsFresh
<1>3. Fresh(Section("uh", <<>>, SectionUH(key), NoPlugin))
  BY <1>1, UHParams, SectionIsFresh
<1>4. Parsing
  BY DEF ParseHeader
<1>5. \/ Begin(Section("ph", <<>>, SectionPH(key), NoPlugin))
      \/ Begin(Section("uh", <<>>, SectionUH(key), NoPlugin))
  BY DEF ParseHeader
<1> QED BY <1>2, <1>3, <1>4, <1>5, BeginStep

LEMMA UnknownStep ==
  ASSUME ReportInv, PluginTypeOK', ParseUnknown
  PROVE  ReportInv'
<1>1. <<>> \in Dumped /\ NoPlugin \in Plugins \cup {NoPlugin} /\ <<>> \in Seq(AnyParam)
  BY DEF Dumped
<1>2. Fresh(Section("unknown", <<>>, <<>>, NoPlugin))
  BY <1>1, SectionIsFresh
<1>3. Parsing /\ Begin(Section("unknown", <<>>, <<>>, NoPlugin))
  BY DEF ParseUnknown
<1> QED BY <1>2, <1>3, BeginStep

LEMMA UDStep ==
  ASSUME ReportInv, PluginTypeOK', NEW id \in CompIds, NEW payload \in Payloads,
         ParseUD(id, payload)
  PROVE  ReportInv'
<1>1. payload \in Dumped /\ <<>> \in Seq(AnyParam)
  BY DEF Dumped
<1>2. Get("data", id) \in Plugins \cup {NoPlugin}
  BY PluginFound DEF ReportInv, Kinds
<1>3. Fresh(Section("ud", payload, <<>>, Get("data", id)))
  BY <1>1, <1>2, SectionIsFresh
<1>4. Parsing /\ Begin(Section("ud", payload, <<>>, Get("data", id)))
  BY DEF ParseUD
<1> QED BY <1>3, <1>4, BeginStep

LEMMA PSStep ==
  ASSUME ReportInv, PluginTypeOK', NEW rc \in RefCodes, ParsePS(rc)
  PROVE  ReportInv'
<1>1. <<>> \in Dumped /\ NoPlugin \in Plugins \cup {NoPlugin}
  BY DEF Dumped
<1>2. SectionPS(rc) \in Seq(AnyParam) /\ (rc.valid => Len(SectionPS(rc)) = 6)
  BY PSParams
<1>3. Parsing
  BY DEF ParsePS
<1>4. CASE rc.valid /\ rc.num % Limit(4) # 0
  <2>1. Get("src", rc.id) \in Plugins \cup {NoPlugin}
    BY PluginFound DEF ReportInv, Kinds
  <2>2. Fresh(Section("ps", <<>>, SectionPS(rc), Get("src", rc.id)))
    BY <1>1, <1>2, <1>4, <2>1, SectionIsFresh
  <2>3. Begin(Section("ps", <<>>, SectionPS(rc), Get("src", rc.id)))
    BY <1>4 DEF ParsePS
  <2> QED BY <1>3, <2>2, <2>3, BeginStep
<1>5. CASE ~(rc.valid /\ rc.num % Limit(4) # 0)
  <2>1. Fresh(Section("ps", <<>>, SectionPS(rc), NoPlugin))
    BY <1>1, <1>2, SectionIsFresh
  <2>2. Begin(Section("ps", <<>>, SectionPS(rc), NoPlugin))
    BY <1>5 DEF ParsePS
  <2> QED BY <1>3, <2>1, <2>2, BeginStep
<1> QED BY <1>4, <1>5

(* A call adds its parameter behind those there are.                       *)
LEMMA CallbackStep ==
  ASSUME ReportInv, PluginTypeOK', NEW call \in Calls, Callback(call)
  PROVE  ReportInv'
<1> DEFINE s == cur[1]
           t == [s EXCEPT !.params = Append(@, Collected(call)),
                          !.calls = Append(@, call)]
<1>1. /\ cur' = <<t>> /\ UNCHANGED <<sel, sections>>
      /\ made' = made + 1 /\ made < MaxCalls
  BY DEF Callback
<1>2. s \in Sections /\ InWork(s) /\ Len(sections) < MaxSections
  BY DEF ReportInv, Callback
<1>3. s.params \in Seq(AnyParam) /\ s.calls \in Seq(Calls) /\ OwnCount(s) \in {0, 6}
  BY <1>2 DEF Sections, OwnCount
<1>4. Collected(call) \in AnyParam
  BY DEF AnyParam
<1>5. Append(s.params, Collected(call)) \in Seq(AnyParam) /\ Append(s.calls, call) \in Seq(Calls)
  BY <1>3, <1>4
<1> HIDE DEF s
<1>6. /\ t \in Sections /\ t.kind = s.kind /\ t.plugin = s.plugin /\ t.ok = s.ok
      /\ t.params = Append(s.params, Collected(call)) /\ t.calls = Append(s.calls, call)
  BY <1>2, <1>5 DEF Sections
<1> HIDE DEF t
<1>7. /\ Len(t.params) = Len(s.params) + 1 /\ Len(t.calls) = Len(s.calls) + 1
      /\ t.params[Len(t.params)] = Collected(call) /\ t.calls[Len(t.calls)] = call
      /\ \A k \in 1 .. Len(s.params) : t.params[k] = s.params[k]
      /\ \A k \in 1 .. Len(s.calls) : t.calls[k] = s.calls[k]
      /\ OwnCount(t) = OwnCount(s)
  BY <1>3, <1>6 DEF OwnCount
<1>8. Len(s.params) = OwnCount(s) + Len(s.calls) /\ Len(s.params) \in Nat /\ Len(s.calls) \in Nat
  BY <1>2, <1>3 DEF InWork
<1>9. CallsInPlace(t)
  <2> SUFFICES ASSUME NEW k \in 1 .. Len(t.calls)
               PROVE  /\ OwnCount(t) + k \in 1 .. Len(t.params)
                      /\ t.params[OwnCount(t) + k] = Collected(t.calls[k])
    BY DEF CallsInPlace
  <2>1. CASE k = Len(t.calls)
    BY <1>3, <1>7, <1>8, <2>1
  <2>2. CASE k \in 1 .. Len(s.calls)
    <3>1. /\ OwnCount(s) + k \in 1 .. Len(s.params)
          /\ s.params[OwnCount(s) + k] = Collected(s.calls[k])
      BY <1>2, <2>2 DEF InWork, CallsInPlace
    <3>2. t.params[OwnCount(t) + k] = s.params[OwnCount(s) + k] /\ t.calls[k] = s.calls[k]
      BY <1>7, <2>2, <3>1
    <3>3. OwnCount(t) + k \in 1 .. Len(t.params)
      BY <1>3, <1>7, <1>8, <3>1
    <3> QED BY <3>1, <3>2, <3>3
  <2> QED BY <1>7, <1>8, <2>1, <2>2
<1>10. InWork(t)
  BY <1>2, <1>3, <1>6, <1>7, <1>8, <1>9 DEF InWork
<1>11. made' \in 0 .. MaxCalls
  BY <1>1, ReportAssumption DEF ReportInv
<1> QED BY <1>1, <1>2, <1>6, <1>10, <1>11 DEF ReportInv

(* The section that the plugin worked on is done.                          *)
LEMMA ReturnStep ==
  ASSUME ReportInv, PluginTypeOK', NEW ok \in BOOLEAN, Return(ok)
  PROVE  ReportInv'
<1> DEFINE s == cur[1]
           t == Completed(s, ok)
<1>1. cur' = <<>> /\ sections' = Append(sections, t) /\ UNCHANGED <<sel, made>>
  BY DEF Return
<1>2. s \in Sections /\ InWork(s) /\ Len(sections) < MaxSections
  BY DEF ReportInv, Return
<1>3. s.kind = "ud" => Len(s.params) = Len(s.calls)
  <2>1. s.calls \in Seq(Calls)
    BY <1>2 DEF Sections
  <2> QED BY <1>2, <2>1 DEF InWork, OwnCount
<1>4. t \in Sections /\ Done(t)
  <2> HIDE DEF s
  <2> QED BY <1>2, <1>3, CompletedIsDone DEF InWork
<1> HIDE DEF t
<1>5. sections \in Seq(Sections) /\ MaxSections \in Nat
  BY ReportAssumption DEF ReportInv
<1>6. sections' \in Seq(Sections) /\ Len(sections') = Len(sections) + 1
  BY <1>1, <1>4, <1>5
<1>7. \A i \in 1 .. Len(sections') : Done(sections'[i])
  BY <1>1, <1>4, <1>5, <1>6 DEF ReportInv
<1> QED BY <1>1, <1>2, <1>5, <1>6, <1>7 DEF ReportInv

LEMMA FinishStep ==
  ASSUME ReportInv, PluginTypeOK', Finish
  PROVE  ReportInv'
<1>1. sel' = <<>> /\ sections' = <<>> /\ made' = 0 /\ UNCHANGED cur
  BY DEF Finish
<1>2. Len(sections) \in Nat /\ MaxSections \in Nat /\ MaxCalls \in Nat
  BY ReportAssumption DEF ReportInv
<1>3. cur # <<>> => 0 < MaxSections
  BY <1>2 DEF ReportInv
<1> QED BY <1>1, <1>2, <1>3 DEF ReportInv

LEMMA ReportStep == ReportInv /\ PluginTypeOK' /\ [Next]_vars => ReportInv'
<1> SUFFICES ASSUME ReportInv, PluginTypeOK', [Next]_vars PROVE ReportInv'
  OBVIOUS
<1>1. CASE UNCHANGED <<sel, sections, cur, made>>
  BY <1>1 DEF ReportInv
<1>2. CASE Startup \/ Shutdown \/ PrintReport \/ UNCHANGED vars
  BY <1>1, <1>2 DEF Startup, Shutdown, PrintReport, reportVars, vars
<1>3. CASE Finish
  BY <1>3, FinishStep
<1>4. CASE ParseUnknown
  BY <1>4, UnknownStep
<1> QED BY <1>2, <1>3, <1>4, HeaderStep, UDStep, PSStep, CallbackStep, ReturnStep DEF Next

(* A report is sound in every state of a run.                              *)
THEOREM ReportInvariance == Spec => []ReportInv
<1>1. Spec => []PluginTypeOK
  BY ImplementsPlugins, RegistryTypes, PTL
<1> QED BY <1>1, ReportInit, ReportStep, PTL DEF Spec

(* Type correctness: every number fits in the width it is shown with.      *)
THEOREM ReportTypes == Spec => []TypeOK
<1>1. ReportInv => TypeOK
  <2> SUFFICES ASSUME ReportInv PROVE TypeOK
    OBVIOUS
  <2>1. /\ PluginTypeOK /\ sel \in {<<>>, SelParams} /\ made \in 0 .. MaxCalls
        /\ Len(sections) <= MaxSections
    BY DEF ReportInv
  <2>2. Len(cur) <= 1
    <3>1. CASE cur = <<>>
      BY <3>1
    <3>2. ASSUME NEW s, cur = <<s>> PROVE Len(cur) <= 1
      BY <3>2
    <3> QED BY <3>1, <3>2 DEF ReportInv
  <2>3. \A i \in DOMAIN sections : \A j \in DOMAIN sections[i].params :
          TypedParam(sections[i].params[j])
    <3>1. ASSUME NEW i \in DOMAIN sections, NEW j \in DOMAIN sections[i].params
          PROVE  sections[i].params[j] \in AnyParam
      <4>1. sections[i] \in Sections
        BY DEF ReportInv
      <4>2. sections[i].params \in Seq(AnyParam)
        BY <4>1 DEF Sections
      <4> QED BY <4>2
    <3> QED BY <3>1, ParamsAreTyped
  <2> QED BY <2>1, <2>2, <2>3 DEF TypeOK, TypedParam
<1> QED BY <1>1, ReportInvariance, PTL

(* What a plugin calls back with is in its section, in order and whole; a  *)
(* section shows its payload exactly if no plugin was there or it failed.  *)
THEOREM CallsAreKept == Spec => []SectionsKeepCalls
<1>1. ReportInv => SectionsKeepCalls
  <2> SUFFICES ASSUME ReportInv, NEW i \in DOMAIN sections
               PROVE  LET s == sections[i]
                      IN  /\ \A k \in DOMAIN s.calls : Shows(OfCalls(s)[k], s.calls[k])
                          /\ FallsBack(s)
    BY DEF SectionsKeepCalls, FallsBack
  <2> DEFINE s == sections[i]
  <2>1. s \in Sections /\ CallsInPlace(s) /\ FallsBack(s)
    BY DEF ReportInv, Done
  <2> HIDE DEF s
  <2>2. s.params \in Seq(AnyParam) /\ s.calls \in Seq(Calls) /\ OwnCount(s) \in {0, 6}
    BY <2>1 DEF Sections, OwnCount
  <2>3. ASSUME NEW k \in DOMAIN s.calls PROVE Shows(OfCalls(s)[k], s.calls[k])
    <3>1. k \in 1 .. Len(s.calls) /\ s.calls[k] \in Calls
      BY <2>2
    <3>2. OwnCount(s) + k \in 1 .. Len(s.params) /\ s.params[OwnCount(s) + k] = Collected(s.calls[k])
      BY <2>1, <3>1 DEF CallsInPlace
    <3>3. OfCalls(s)[k] = s.params[OwnCount(s) + k]
      <4>1. OfCalls(s) = SubSeq(s.params, OwnCount(s) + 1, OwnCount(s) + Len(s.calls))
        BY DEF OfCalls, OwnCount
      <4> QED BY <2>2, <3>1, <3>2, <4>1
    <3> QED BY <3>1, <3>2, <3>3, CallShows
  <2> QED BY <2>1, <2>3 DEF s
<1> QED BY <1>1, ReportInvariance, PTL

-----------------------------------------------------------------------------
(* Reading back what is written, from the characters of a text up to the   *)
(* whole report.  Each loop is followed by induction up to a bound.        *)
LEMMA UpTo ==
  ASSUME NEW N \in Nat, NEW S, 0 \in S,
         \A n \in 1 .. N : n - 1 \in S => n \in S
  PROVE  \A n \in 0 .. N : n \in S
<1> DEFINE D == {n \in 0 .. N : n \notin S}
<1>1. CASE D = {}
  BY <1>1
<1>2. CASE D # {}
  <2>1. D \subseteq Nat
    OBVIOUS
  <2>2. PICK n \in D : \A m \in D : n <= m
    <3> HIDE DEF D
    <3> QED BY <1>2, <2>1, LeastExists
  <2>3. n # 0 /\ n \in 1 .. N /\ n - 1 \in 0 .. N /\ n - 1 < n
    BY <2>2
  <2>4. n - 1 \notin D
    <3> HIDE DEF D
    <3> QED BY <2>1, <2>2, <2>3
  <2>5. n \in S
    BY <2>3, <2>4
  <2> QED BY <2>2, <2>5
<1> QED BY <1>1, <1>2

(* FlattenSeq() of the community modules, one sequence after the other.    *)
Joins(seqs, n, F) == F[0] = <<>> /\ \A k \in 1 .. n : F[k] = F[k - 1] \o seqs[k]

LEMMA JoinsExists ==
  ASSUME NEW seqs, NEW N \in Nat
  PROVE  \E F : Joins(seqs, N, F)
<1> DEFINE S == {n \in 0 .. N : \E F : Joins(seqs, n, F)}
<1>1. 0 \in S
  <2> DEFINE F == [k \in {0} |-> <<>>]
  <2>1. Joins(seqs, 0, F)
    BY DEF Joins
  <2> QED BY <2>1
<1>2. ASSUME NEW n \in 1 .. N, n - 1 \in S
      PROVE  n \in S
  <2>1. PICK F : Joins(seqs, n - 1, F)
    BY <1>2
  <2> DEFINE G == [k \in 0 .. n |-> IF k = n THEN F[n - 1] \o seqs[n] ELSE F[k]]
  <2>2. G[0] = <<>>
    BY <2>1 DEF Joins
  <2>3. ASSUME NEW k \in 1 .. n PROVE G[k] = G[k - 1] \o seqs[k]
    <3>1. k - 1 \in 0 .. n /\ k - 1 # n /\ k \in 0 .. n /\ (k = n \/ k \in 1 .. n - 1)
      OBVIOUS
    <3>2. G[k - 1] = F[k - 1]
      BY <3>1
    <3>3. CASE k = n
      BY <3>1, <3>2, <3>3
    <3>4. CASE k # n
      <4>1. G[k] = F[k]
        BY <3>1, <3>4
      <4>2. F[k] = F[k - 1] \o seqs[k]
        BY <2>1, <3>1, <3>4 DEF Joins
      <4> QED BY <3>2, <4>1, <4>2
    <3> QED BY <3>3, <3>4
  <2>4. Joins(seqs, n, G)
    <3> HIDE DEF G
    <3> QED BY <2>2, <2>3 DEF Joins
  <2> HIDE DEF G
  <2> QED BY <2>4
<1> HIDE DEF S
<1>3. N \in S
  BY <1>1, <1>2, UpTo
<1> QED BY <1>3 DEF S

LEMMA FlattenIs ==
  ASSUME NEW T, NEW seqs, NEW N \in Nat, Len(seqs) = N, \A k \in 1 .. N : seqs[k] \in Seq(T),
         N = 0 => seqs = <<>>
  PROVE  \E F : /\ Joins(seqs, N, F) /\ FlattenSeq(seqs) = F[N]
                /\ \A k \in 0 .. N : F[k] \in Seq(T)
<1> DEFINE Body(g) == [i \in 1 .. N |-> IF i = 1 THEN seqs[i] ELSE g[i - 1] \o seqs[i]]
<1>2. PICK F : Joins(seqs, N, F)
  BY JoinsExists
<1>6. F[0] = <<>>
  BY <1>2 DEF Joins
<1>8. ASSUME NEW k \in 1 .. N PROVE F[k] = F[k - 1] \o seqs[k]
  BY <1>2, Zenon DEF Joins
<1>3. \A k \in 0 .. N : F[k] \in Seq(T)
  <2> DEFINE S == {k \in 0 .. N : F[k] \in Seq(T)}
  <2>1. 0 \in S
    <3>1. F[0] \in Seq(T)
      BY <1>6
    <3> QED BY <3>1
  <2>2. ASSUME NEW k \in 1 .. N, k - 1 \in S PROVE k \in S
    <3>1. F[k] = F[k - 1] \o seqs[k]
      BY <1>8
    <3>2. F[k - 1] \in Seq(T) /\ seqs[k] \in Seq(T)
      BY <2>2
    <3>3. k \in 0 .. N
      OBVIOUS
    <3>4. F[k] \in Seq(T)
      BY <3>1, <3>2
    <3> QED BY <3>3, <3>4
  <2> HIDE DEF S
  <2>3. \A k \in 0 .. N : k \in S
    BY <2>1, <2>2, UpTo
  <2> QED BY <2>3 DEF S
<1>4. CASE N = 0
  <2>1. FlattenSeq(seqs) = <<>>
    BY <1>4 DEF FlattenSeq
  <2> QED BY <1>2, <1>3, <1>4, <1>6, <2>1
<1>5. CASE N # 0
  <2> DEFINE H == [i \in 1 .. N |-> F[i]]
  <2>1. H = Body(H)
    <3>1. 1 \in 1 .. N /\ F[1] = seqs[1]
      <4>1. 1 \in 1 .. N /\ seqs[1] \in Seq(T)
        BY <1>5
      <4>2. F[1] = F[0] \o seqs[1] /\ F[0] = <<>>
        <5>1. F[1] = F[1 - 1] \o seqs[1]
          BY <1>8, <4>1
        <5>2. F[1 - 1] = F[0]
          OBVIOUS
        <5> QED BY <1>6, <5>1, <5>2
      <4> QED BY <4>1, <4>2
    <3>2. \A i \in 1 .. N : i # 1 => i - 1 \in 1 .. N /\ F[i] = F[i - 1] \o seqs[i]
      <4> TAKE i \in 1 .. N
      <4> HAVE i # 1
      <4>1. i - 1 \in 1 .. N
        OBVIOUS
      <4>2. F[i] = F[i - 1] \o seqs[i]
        BY <1>8
      <4> QED BY <4>1, <4>2
    <3> QED BY <3>1, <3>2
  <2>2. FlattenSeq(seqs) = (CHOOSE g : g = Body(g))[N]
    BY <1>5 DEF FlattenSeq
  <2>3. PICK g : g = Body(g) /\ FlattenSeq(seqs) = g[N]
    <3> HIDE DEF H, Body
    <3> QED BY <2>1, <2>2
  <2>4. \A i \in 1 .. N : g[i] = F[i]
    <3> DEFINE S == {k \in 0 .. N : k = 0 \/ g[k] = F[k]}
    <3>1. 0 \in S
      OBVIOUS
    <3>2. ASSUME NEW k \in 1 .. N, k - 1 \in S PROVE k \in S
      <4>1. g[k] = IF k = 1 THEN seqs[k] ELSE g[k - 1] \o seqs[k]
        BY <2>3
      <4>2. H[k] = IF k = 1 THEN seqs[k] ELSE H[k - 1] \o seqs[k]
        BY <2>1
      <4>3. H[k] = F[k] /\ (k # 1 => H[k - 1] = F[k - 1] /\ g[k - 1] = F[k - 1])
        BY <3>2
      <4> HIDE DEF H
      <4>4. g[k] = F[k]
        BY <4>1, <4>2, <4>3
      <4> QED BY <4>4
    <3> HIDE DEF S
    <3>3. \A k \in 0 .. N : k \in S
      BY <3>1, <3>2, UpTo
    <3> QED BY <3>3 DEF S
  <2>5. N \in 1 .. N
    BY <1>5
  <2> QED BY <1>2, <1>3, <2>3, <2>4, <2>5
<1> QED BY <1>4, <1>5

-----------------------------------------------------------------------------
(* The reader's loop over the characters of a string token ...            *)
Hears(text, n, g) == g[0] = Heard(<<>>, "text") /\ \A k \in 1 .. n : g[k] = Unescape(g[k - 1], text[k])

LEMMA HearsExists ==
  ASSUME NEW text, NEW N \in Nat
  PROVE  \E g : Hears(text, N, g)
<1> DEFINE S == {n \in 0 .. N : \E g : Hears(text, n, g)}
<1>1. 0 \in S
  <2> DEFINE g == [k \in {0} |-> Heard(<<>>, "text")]
  <2>1. Hears(text, 0, g)
    BY DEF Hears
  <2> QED BY <2>1
<1>2. ASSUME NEW n \in 1 .. N, n - 1 \in S
      PROVE  n \in S
  <2>1. PICK g : Hears(text, n - 1, g)
    BY <1>2
  <2> DEFINE h == [k \in 0 .. n |-> IF k = n THEN Unescape(g[n - 1], text[n]) ELSE g[k]]
  <2>2. h[0] = Heard(<<>>, "text")
    BY <2>1 DEF Hears
  <2>3. ASSUME NEW k \in 1 .. n PROVE h[k] = Unescape(h[k - 1], text[k])
    <3>1. k - 1 \in 0 .. n /\ k - 1 # n /\ k \in 0 .. n /\ (k = n \/ k \in 1 .. n - 1)
      OBVIOUS
    <3>2. h[k - 1] = g[k - 1]
      BY <3>1
    <3>3. CASE k = n
      BY <3>1, <3>2, <3>3
    <3>4. CASE k # n
      <4>1. h[k] = g[k]
        BY <3>1, <3>4
      <4>2. g[k] = Unescape(g[k - 1], text[k])
        BY <2>1, <3>1, <3>4 DEF Hears
      <4> QED BY <3>2, <4>1, <4>2
    <3> QED BY <3>3, <3>4
  <2>4. Hears(text, n, h)
    <3> HIDE DEF h
    <3> QED BY <2>2, <2>3 DEF Hears
  <2> HIDE DEF h
  <2> QED BY <2>4
<1> HIDE DEF S
<1>3. N \in S
  BY <1>1, <1>2, UpTo
<1> QED BY <1>3 DEF S

LEMMA UnescapedIs ==
  ASSUME NEW text, Len(text) \in Nat
  PROVE  \E g : Hears(text, Len(text), g) /\ Unescaped(text) = g[Len(text)]
<1> DEFINE K       == 0 .. Len(text)
           Body(g) == [k \in K |-> IF k = 0 THEN Heard(<<>>, "text") ELSE Unescape(g[k - 1], text[k])]
<1>1. PICK f : Hears(text, Len(text), f)
  BY HearsExists
<1> DEFINE F == [k \in K |-> f[k]]
<1>2. F = Body(F)
  <2>1. \A k \in K : k # 0 => k - 1 \in K /\ k \in 1 .. Len(text)
    OBVIOUS
  <2>2. \A k \in K : k # 0 => F[k] = Unescape(F[k - 1], text[k])
    BY <1>1, <2>1 DEF Hears
  <2>3. 0 \in K /\ F[0] = Heard(<<>>, "text")
    BY <1>1 DEF Hears
  <2> QED BY <2>2, <2>3
<1>3. Unescaped(text) = (CHOOSE g : g = Body(g))[Len(text)]
  BY DEF Unescaped
<1>4. PICK g : g = Body(g) /\ Unescaped(text) = g[Len(text)]
  <2> HIDE DEF F, Body
  <2> QED BY <1>2, <1>3
<1>5. Hears(text, Len(text), g)
  <2>1. g = Body(g)
    BY <1>4
  <2>2. 0 \in K /\ g[0] = Heard(<<>>, "text")
    BY <2>1
  <2>3. \A k \in 1 .. Len(text) : k \in K /\ k # 0
    OBVIOUS
  <2>4. \A k \in 1 .. Len(text) : g[k] = Unescape(g[k - 1], text[k])
    BY <2>1, <2>3
  <2> QED BY <2>2, <2>4 DEF Hears
<1> QED BY <1>4, <1>5

LEMMA UnescapedAppend ==
  ASSUME NEW T, NEW s \in Seq(T), NEW c \in T
  PROVE  Unescaped(Append(s, c)) = Unescape(Unescaped(s), c)
<1> DEFINE t == Append(s, c)
<1>1. Len(s) \in Nat /\ Len(t) = Len(s) + 1 /\ t[Len(s) + 1] = c
  OBVIOUS
<1>2. \A k \in 1 .. Len(s) : t[k] = s[k]
  OBVIOUS
<1> HIDE DEF t
<1>3. PICK g : Hears(s, Len(s), g) /\ Unescaped(s) = g[Len(s)]
  BY <1>1, UnescapedIs
<1>4. PICK h : Hears(t, Len(t), h) /\ Unescaped(t) = h[Len(t)]
  BY <1>1, UnescapedIs
<1> DEFINE S == {k \in 0 .. Len(s) : h[k] = g[k]}
<1>5. 0 \in S
  BY <1>1, <1>3, <1>4 DEF Hears
<1>6. ASSUME NEW k \in 1 .. Len(s), k - 1 \in S PROVE k \in S
  <2>1. k \in 1 .. Len(t) /\ k \in 0 .. Len(s)
    BY <1>1
  <2>2. h[k] = Unescape(h[k - 1], t[k]) /\ g[k] = Unescape(g[k - 1], s[k])
    BY <1>3, <1>4, <2>1 DEF Hears
  <2> QED BY <1>2, <1>6, <2>1, <2>2
<1> HIDE DEF S
<1>7. Len(s) \in S
  BY <1>1, <1>5, <1>6, UpTo
<1>8. h[Len(s)] = g[Len(s)]
  BY <1>7 DEF S
<1>9. h[Len(t)] = Unescape(h[Len(t) - 1], t[Len(t)])
  BY <1>1, <1>4 DEF Hears
<1> QED BY <1>1, <1>3, <1>4, <1>8, <1>9 DEF t

(* ... and its loop over the tokens.                                       *)
Reads(f, tokens, n, g) == g[0] = f /\ \A k \in 1 .. n : g[k] = Read(g[k - 1], tokens[k])

LEMMA ReadsExists ==
  ASSUME NEW f, NEW tokens, NEW N \in Nat
  PROVE  \E g : Reads(f, tokens, N, g)
<1> DEFINE S == {n \in 0 .. N : \E g : Reads(f, tokens, n, g)}
<1>1. 0 \in S
  <2> DEFINE g == [k \in {0} |-> f]
  <2>1. Reads(f, tokens, 0, g)
    BY DEF Reads
  <2> QED BY <2>1
<1>2. ASSUME NEW n \in 1 .. N, n - 1 \in S
      PROVE  n \in S
  <2>1. PICK g : Reads(f, tokens, n - 1, g)
    BY <1>2
  <2> DEFINE h == [k \in 0 .. n |-> IF k = n THEN Read(g[n - 1], tokens[n]) ELSE g[k]]
  <2>2. h[0] = f
    BY <2>1 DEF Reads
  <2>3. ASSUME NEW k \in 1 .. n PROVE h[k] = Read(h[k - 1], tokens[k])
    <3>1. k - 1 \in 0 .. n /\ k - 1 # n /\ k \in 0 .. n /\ (k = n \/ k \in 1 .. n - 1)
      OBVIOUS
    <3>2. h[k - 1] = g[k - 1]
      BY <3>1
    <3>3. CASE k = n
      BY <3>1, <3>2, <3>3
    <3>4. CASE k # n
      <4>1. h[k] = g[k]
        BY <3>1, <3>4
      <4>2. g[k] = Read(g[k - 1], tokens[k])
        BY <2>1, <3>1, <3>4 DEF Reads
      <4> QED BY <3>2, <4>1, <4>2
    <3> QED BY <3>3, <3>4
  <2>4. Reads(f, tokens, n, h)
    <3> HIDE DEF h
    <3> QED BY <2>2, <2>3 DEF Reads
  <2> HIDE DEF h
  <2> QED BY <2>4
<1> HIDE DEF S
<1>3. N \in S
  BY <1>1, <1>2, UpTo
<1> QED BY <1>3 DEF S

LEMMA ReadOnIs ==
  ASSUME NEW f, NEW tokens, Len(tokens) \in Nat
  PROVE  \E g : Reads(f, tokens, Len(tokens), g) /\ ReadOn(f, tokens) = g[Len(tokens)]
<1> DEFINE K       == 0 .. Len(tokens)
           Body(g) == [k \in K |-> IF k = 0 THEN f ELSE Read(g[k - 1], tokens[k])]
<1>1. PICK e : Reads(f, tokens, Len(tokens), e)
  BY ReadsExists
<1> DEFINE F == [k \in K |-> e[k]]
<1>2. F = Body(F)
  <2>1. \A k \in K : k # 0 => k - 1 \in K /\ k \in 1 .. Len(tokens)
    OBVIOUS
  <2>2. \A k \in K : k # 0 => F[k] = Read(F[k - 1], tokens[k])
    BY <1>1, <2>1 DEF Reads
  <2>3. 0 \in K /\ F[0] = f
    BY <1>1 DEF Reads
  <2> QED BY <2>2, <2>3
<1>3. ReadOn(f, tokens) = (CHOOSE g : g = Body(g))[Len(tokens)]
  BY DEF ReadOn
<1>4. PICK g : g = Body(g) /\ ReadOn(f, tokens) = g[Len(tokens)]
  <2> HIDE DEF F, Body
  <2> QED BY <1>2, <1>3
<1>5. Reads(f, tokens, Len(tokens), g)
  <2>1. g = Body(g)
    BY <1>4
  <2>2. 0 \in K /\ g[0] = f
    BY <2>1
  <2>3. \A k \in 1 .. Len(tokens) : k \in K /\ k # 0
    OBVIOUS
  <2>4. \A k \in 1 .. Len(tokens) : g[k] = Read(g[k - 1], tokens[k])
    BY <2>1, <2>3
  <2> QED BY <2>2, <2>4 DEF Reads
<1> QED BY <1>4, <1>5

LEMMA ReadOnNothing ==
  ASSUME NEW f
  PROVE  ReadOn(f, <<>>) = f
<1>1. Len(<<>>) = 0
  OBVIOUS
<1>2. PICK g : Reads(f, <<>>, Len(<<>>), g) /\ ReadOn(f, <<>>) = g[Len(<<>>)]
  BY <1>1, ReadOnIs
<1> QED BY <1>1, <1>2 DEF Reads

LEMMA ReadOnAppend ==
  ASSUME NEW T, NEW f, NEW s \in Seq(T), NEW c \in T
  PROVE  ReadOn(f, Append(s, c)) = Read(ReadOn(f, s), c)
<1> DEFINE t == Append(s, c)
<1>1. Len(s) \in Nat /\ Len(t) = Len(s) + 1 /\ t[Len(s) + 1] = c
  OBVIOUS
<1>2. \A k \in 1 .. Len(s) : t[k] = s[k]
  OBVIOUS
<1> HIDE DEF t
<1>3. PICK g : Reads(f, s, Len(s), g) /\ ReadOn(f, s) = g[Len(s)]
  BY <1>1, ReadOnIs
<1>4. PICK h : Reads(f, t, Len(t), h) /\ ReadOn(f, t) = h[Len(t)]
  BY <1>1, ReadOnIs
<1> DEFINE S == {k \in 0 .. Len(s) : h[k] = g[k]}
<1>5. 0 \in S
  BY <1>1, <1>3, <1>4 DEF Reads
<1>6. ASSUME NEW k \in 1 .. Len(s), k - 1 \in S PROVE k \in S
  <2>1. k \in 1 .. Len(t) /\ k \in 0 .. Len(s)
    BY <1>1
  <2>2. h[k] = Read(h[k - 1], t[k]) /\ g[k] = Read(g[k - 1], s[k])
    BY <1>3, <1>4, <2>1 DEF Reads
  <2> QED BY <1>2, <1>6, <2>1, <2>2
<1> HIDE DEF S
<1>7. Len(s) \in S
  BY <1>1, <1>5, <1>6, UpTo
<1>8. h[Len(s)] = g[Len(s)]
  BY <1>7 DEF S
<1>9. h[Len(t)] = Read(h[Len(t) - 1], t[Len(t)])
  BY <1>1, <1>4 DEF Reads
<1> QED BY <1>1, <1>3, <1>4, <1>8, <1>9 DEF t

LEMMA ReadOnOne ==
  ASSUME NEW f, NEW t
  PROVE  ReadOn(f, <<t>>) = Read(f, t)
<1>1. Len(<<t>>) = 1 /\ <<t>>[1] = t
  OBVIOUS
<1>2. PICK g : Reads(f, <<t>>, Len(<<t>>), g) /\ ReadOn(f, <<t>>) = g[Len(<<t>>)]
  BY <1>1, ReadOnIs
<1>3. g[0] = f /\ g[1] = Read(g[1 - 1], <<t>>[1])
  BY <1>1, <1>2 DEF Reads
<1> QED BY <1>1, <1>2, <1>3

LEMMA ReadOnConcat ==
  ASSUME NEW T, NEW f, NEW s \in Seq(T), NEW t \in Seq(T)
  PROVE  ReadOn(f, s \o t) = ReadOn(ReadOn(f, s), t)
<1> DEFINE S == {k \in 0 .. Len(t) :
                  ReadOn(f, s \o SubSeq(t, 1, k)) = ReadOn(ReadOn(f, s), SubSeq(t, 1, k))}
<1>1. 0 \in S
  <2>1. SubSeq(t, 1, 0) = <<>> /\ s \o <<>> = s /\ 0 \in 0 .. Len(t)
    OBVIOUS
  <2> QED BY <2>1, ReadOnNothing
<1>2. ASSUME NEW k \in 1 .. Len(t), k - 1 \in S PROVE k \in S
  <2> DEFINE a == SubSeq(t, 1, k - 1)
             b == s \o a
  <2>1. a \in Seq(T) /\ t[k] \in T /\ k \in 0 .. Len(t) /\ Len(a) = k - 1
    OBVIOUS
  <2>2. SubSeq(t, 1, k) = Append(a, t[k])
    OBVIOUS
  <2>3. ReadOn(f, b) = ReadOn(ReadOn(f, s), a)
    BY <1>2
  <2> HIDE DEF a
  <2>4. b \in Seq(T) /\ s \o Append(a, t[k]) = Append(b, t[k])
    BY <2>1
  <2> HIDE DEF b
  <2>5. ReadOn(f, Append(b, t[k])) = Read(ReadOn(f, b), t[k])
    BY <2>1, <2>4, ReadOnAppend
  <2>6. ReadOn(ReadOn(f, s), Append(a, t[k])) = Read(ReadOn(ReadOn(f, s), a), t[k])
    BY <2>1, ReadOnAppend
  <2> QED BY <2>1, <2>2, <2>3, <2>4, <2>5, <2>6
<1> HIDE DEF S
<1>3. Len(t) \in S
  <2>1. Len(t) \in Nat
    OBVIOUS
  <2>2. \A n \in 0 .. Len(t) : n \in S
    BY <1>1, <1>2, <2>1, UpTo, Zenon
  <2> QED BY <2>1, <2>2
<1>4. SubSeq(t, 1, Len(t)) = t
  OBVIOUS
<1> QED BY <1>3, <1>4 DEF S

-----------------------------------------------------------------------------
(* The characters of the texts of a report, and those without an escape.   *)
Writable == Chars \cup Words
Dirty    == {"ctrl", "vt"}

IsClean(text) == \A i \in 1 .. Len(text) : text[i] \notin Dirty

Codes == Writable \cup DOMAIN Meant

(* A character is written as it is, or with an escape that means it.       *)
LEMMA EscapedIs ==
  ASSUME NEW c \in Writable
  PROVE  \/ Escaped(c) = <<c>> /\ c \in Plain \cup Dirty
         \/ c \notin Dirty /\ \E d \in DOMAIN Meant : Escaped(c) = <<"\\", d>> /\ Meant[d] = c
<1>1. CASE c \in {"\\", "/", "\""}
  <2>1. Escaped(c) = <<"\\", c>> /\ c \in DOMAIN Meant /\ Meant[c] = c
    BY <1>1 DEF Escaped, Meant
  <2> QED BY <1>1, <2>1 DEF Dirty
<1>2. CASE c \in {"bs", "\t", "\f", "\r", "\n"}
  <2>1. Escaped(c) = <<"\\", Letter[c]>> /\ c \notin Dirty
    BY <1>2 DEF Escaped, Letter, Dirty
  <2>2. Letter[c] \in DOMAIN Meant /\ Meant[Letter[c]] = c
    BY <1>2 DEF Letter, Meant
  <2> QED BY <2>1, <2>2
<1>3. CASE c \in (Plain \ {"/"}) \cup Dirty
  BY <1>3 DEF Escaped, Letter, Plain, Dirty, Words, Space
<1> QED BY <1>1, <1>2, <1>3 DEF Writable, Chars, Spaces, Plain, Dirty, Words, Space

LEMMA PlainIsHeard ==
  ASSUME NEW c \in Plain, NEW s
  PROVE  Unescape(Heard(s, "text"), c) = Heard(Append(s, c), "text")
BY DEF Unescape, Heard

LEMMA EscapeIsHeard ==
  ASSUME NEW d \in DOMAIN Meant, NEW s
  PROVE  Unescape(Unescape(Heard(s, "text"), "\\"), d) = Heard(Append(s, Meant[d]), "text")
<1>1. "\\" \notin Plain
  BY DEF Plain, Words, Space
<1>2. Heard(s, "text").at = "text" /\ Heard(s, "text").text = s
  BY DEF Heard
<1>3. Unescape(Heard(s, "text"), "\\") = Heard(s, "escape")
  BY <1>1, <1>2 DEF Unescape
<1>4. Heard(s, "escape").at = "escape" /\ Heard(s, "escape").text = s
  BY DEF Heard
<1>5. Unescape(Heard(s, "escape"), d) = Heard(Append(s, Meant[d]), "text")
  BY <1>4 DEF Unescape
<1> QED BY <1>3, <1>5

LEMMA DirtyIsError ==
  ASSUME NEW c \in Dirty, NEW s
  PROVE  Unescape(Heard(s, "text"), c).at = "error"
BY DEF Unescape, Heard, Dirty, Plain, Words, Space

LEMMA ErrorStays ==
  ASSUME NEW acc, acc.at = "error", NEW c
  PROVE  Unescape(acc, c).at = "error"
BY DEF Unescape, Heard

(* A text is read back from its escapes, or there is an error.             *)
TextRead(text, k, acc) ==
  IF \A i \in 1 .. k : text[i] \notin Dirty THEN acc = Heard(SubSeq(text, 1, k), "text")
                                             ELSE acc.at = "error"

LEMMA OneMoreChar ==
  ASSUME NEW text \in Seq(Writable), NEW k \in 1 .. Len(text), NEW T, NEW E \in Seq(T),
         "\\" \in T, Writable \subseteq T, DOMAIN Meant \subseteq T,
         TextRead(text, k - 1, Unescaped(E))
  PROVE  TextRead(text, k, Unescaped(E \o Escaped(text[k])))
<1> DEFINE c == text[k]
           a == SubSeq(text, 1, k - 1)
<1>1. c \in Writable /\ c \in T
  OBVIOUS
<1>2. SubSeq(text, 1, k) = Append(a, c)
  OBVIOUS
<1>3. (\A i \in 1 .. k : text[i] \notin Dirty)
        <=> (\A i \in 1 .. k - 1 : text[i] \notin Dirty) /\ c \notin Dirty
  OBVIOUS
<1>4. IF \A i \in 1 .. k - 1 : text[i] \notin Dirty THEN Unescaped(E) = Heard(a, "text")
                                                    ELSE Unescaped(E).at = "error"
  BY DEF TextRead
<1> HIDE DEF a, c
<1>5. CASE Escaped(c) = <<c>> /\ c \in Plain \cup Dirty
  <2>1. E \o Escaped(c) = Append(E, c)
    BY <1>1, <1>5
  <2>2. Unescaped(E \o Escaped(c)) = Unescape(Unescaped(E), c)
    BY <1>1, <2>1, UnescapedAppend
  <2>3. CASE \A i \in 1 .. k - 1 : text[i] \notin Dirty
    <3>1. Unescaped(E) = Heard(a, "text")
      BY <1>4, <2>3
    <3>2. CASE c \in Dirty
      <4>1. Unescaped(E \o Escaped(c)).at = "error"
        BY <2>2, <3>1, <3>2, DirtyIsError
      <4> QED BY <1>3, <3>2, <4>1 DEF TextRead, c
    <3>3. CASE c \notin Dirty
      <4>1. Unescaped(E \o Escaped(c)) = Heard(Append(a, c), "text")
        BY <1>5, <2>2, <3>1, <3>3, PlainIsHeard
      <4> QED BY <1>2, <1>3, <2>3, <3>3, <4>1 DEF TextRead, c
    <3> QED BY <3>2, <3>3
  <2>4. CASE ~(\A i \in 1 .. k - 1 : text[i] \notin Dirty)
    <3>1. Unescaped(E \o Escaped(c)).at = "error"
      BY <1>4, <2>2, <2>4, ErrorStays
    <3> QED BY <1>3, <2>4, <3>1 DEF TextRead, c
  <2> QED BY <2>3, <2>4
<1>6. ASSUME NEW d \in DOMAIN Meant, Escaped(c) = <<"\\", d>>, Meant[d] = c, c \notin Dirty
      PROVE  TextRead(text, k, Unescaped(E \o Escaped(c)))
  <2>1. Append(E, "\\") \in Seq(T) /\ d \in T
    BY <1>6
  <2>2. E \o Escaped(c) = Append(Append(E, "\\"), d)
    BY <1>6, <2>1
  <2>3. Unescaped(E \o Escaped(c)) = Unescape(Unescape(Unescaped(E), "\\"), d)
    <3>1. Unescaped(Append(E, "\\")) = Unescape(Unescaped(E), "\\")
      BY UnescapedAppend
    <3>2. Unescaped(Append(Append(E, "\\"), d)) = Unescape(Unescaped(Append(E, "\\")), d)
      BY <2>1, UnescapedAppend
    <3> QED BY <2>2, <3>1, <3>2
  <2>4. CASE \A i \in 1 .. k - 1 : text[i] \notin Dirty
    <3>1. Unescaped(E) = Heard(a, "text")
      BY <1>4, <2>4
    <3>2. Unescaped(E \o Escaped(c)) = Heard(Append(a, c), "text")
      BY <1>6, <2>3, <3>1, EscapeIsHeard
    <3> QED BY <1>2, <1>3, <1>6, <2>4, <3>2 DEF TextRead
  <2>5. CASE ~(\A i \in 1 .. k - 1 : text[i] \notin Dirty)
    <3>1. Unescaped(E \o Escaped(c)).at = "error"
      BY <1>4, <2>3, <2>5, ErrorStays
    <3> QED BY <1>3, <2>5, <3>1 DEF TextRead
  <2> QED BY <2>4, <2>5
<1> QED BY <1>1, <1>5, <1>6, EscapedIs DEF c

(* jsonEscape() loses nothing: a text that it has an escape for, wherever  *)
(* one is needed, is read back as it was, and any other is no JSON string. *)
THEOREM EscapeRoundTrip ==
  ASSUME NEW text \in Seq(Writable)
  PROVE  LET written == FlattenSeq([i \in DOMAIN text |-> Escaped(text[i])])
         IN  /\ written \in Seq(Codes)
             /\ IF IsClean(text) THEN Unescaped(written) = Heard(text, "text")
                                 ELSE Unescaped(written).at = "error"
<1> DEFINE esc == [i \in DOMAIN text |-> Escaped(text[i])]
<1>0. PICK N \in Nat : N = Len(text)
  OBVIOUS
<1>1. PICK seqs : seqs = esc
  OBVIOUS
<1>2. "\\" \in Codes /\ Writable \subseteq Codes /\ DOMAIN Meant \subseteq Codes
  BY DEF Codes, Writable, Chars
<1>3. ASSUME NEW c \in Writable PROVE Escaped(c) \in Seq(Codes)
  <2>1. CASE Escaped(c) = <<c>>
    BY <1>2, <2>1
  <2>2. ASSUME NEW d \in DOMAIN Meant, Escaped(c) = <<"\\", d>> PROVE Escaped(c) \in Seq(Codes)
    BY <1>2, <2>2
  <2> QED BY <2>1, <2>2, EscapedIs
<1>4. \A k \in 1 .. N : seqs[k] = Escaped(text[k]) /\ seqs[k] \in Seq(Codes)
  BY <1>0, <1>1, <1>3
<1>5. Len(seqs) = N /\ (N = 0 => seqs = <<>>)
  BY <1>0, <1>1
<1> HIDE DEF esc
<1>6. PICK F : /\ Joins(seqs, N, F) /\ FlattenSeq(seqs) = F[N]
               /\ \A k \in 0 .. N : F[k] \in Seq(Codes)
  BY <1>4, <1>5, FlattenIs
<1> DEFINE S == {k \in 0 .. N : TextRead(text, k, Unescaped(F[k]))}
<1>7. 0 \in S
  <2>1. F[0] = <<>> /\ 0 \in 0 .. N
    BY <1>6 DEF Joins
  <2>2. Unescaped(F[0]) = Heard(<<>>, "text")
    <3>1. Len(F[0]) = 0
      BY <2>1
    <3>2. PICK g : Hears(F[0], Len(F[0]), g) /\ Unescaped(F[0]) = g[Len(F[0])]
      BY <3>1, UnescapedIs
    <3> QED BY <3>1, <3>2 DEF Hears
  <2>3. SubSeq(text, 1, 0) = <<>>
    OBVIOUS
  <2>4. TextRead(text, 0, Unescaped(F[0]))
    <3>1. \A i \in 1 .. 0 : text[i] \notin Dirty
      OBVIOUS
    <3>2. Unescaped(F[0]) = Heard(SubSeq(text, 1, 0), "text")
      BY <2>2, <2>3, Zenon
    <3> QED BY <3>1, <3>2, Zenon DEF TextRead
  <2> QED BY <2>1, <2>4
<1>8. ASSUME NEW k \in 1 .. N, k - 1 \in S PROVE k \in S
  <2>1. k \in 0 .. N /\ F[k - 1] \in Seq(Codes) /\ TextRead(text, k - 1, Unescaped(F[k - 1]))
    BY <1>6, <1>8
  <2>2. F[k] = F[k - 1] \o Escaped(text[k])
    BY <1>4, <1>6 DEF Joins
  <2>3. k \in 1 .. Len(text)
    BY <1>0
  <2>4. TextRead(text, k, Unescaped(F[k - 1] \o Escaped(text[k])))
    BY <1>2, <2>1, <2>3, OneMoreChar
  <2> QED BY <2>1, <2>2, <2>4
<1> HIDE DEF S
<1>9. N \in S
  <2>1. \A k \in 0 .. N : k \in S
    BY <1>7, <1>8, UpTo, Zenon
  <2> QED BY <2>1
<1>10. TextRead(text, N, Unescaped(FlattenSeq(seqs)))
  BY <1>6, <1>9 DEF S
<1>11. SubSeq(text, 1, N) = text /\ (IsClean(text) <=> \A i \in 1 .. N : text[i] \notin Dirty)
  BY <1>0 DEF IsClean
<1>12. FlattenSeq(seqs) \in Seq(Codes)
  BY <1>6
<1>13. /\ FlattenSeq(esc) \in Seq(Codes)
       /\ IF IsClean(text) THEN Unescaped(FlattenSeq(esc)) = Heard(text, "text")
                           ELSE Unescaped(FlattenSeq(esc)).at = "error"
  BY <1>1, <1>10, <1>11, <1>12 DEF TextRead
<1> QED BY <1>13 DEF esc

-----------------------------------------------------------------------------
(* What the reader makes of one token.                                     *)
Ready(k, next) == \/ k \in {"top", "array"} /\ next \in {"first", "item"}
                  \/ k = "object" /\ next = "value"

LEMMA FrameIs ==
  ASSUME NEW k, NEW items, NEW next, NEW outer
  PROVE  /\ Frame(k, items, next, outer).k = k /\ Frame(k, items, next, outer).items = items
         /\ Frame(k, items, next, outer).next = next /\ Frame(k, items, next, outer).outer = outer
BY DEF Frame

LEMMA TokenIs ==
  ASSUME NEW k, NEW text, NEW n
  PROVE  Token(k, text, n).k = k /\ Token(k, text, n).text = text /\ Token(k, text, n).n = n
BY DEF Token

LEMMA ReadScalar ==
  ASSUME NEW k, NEW items, NEW next, NEW outer, Ready(k, next),
         NEW t, t.k \in Scalars, Unescaped(t.text).at = "text"
  PROVE  Read(Frame(k, items, next, outer), t) =
           Frame(k, Append(items, Value(t.k, <<>>, Unescaped(t.text).text, t.n)), "comma", outer)
BY FrameIs DEF Read, Ready, WantsValue, WantsKey, With

LEMMA ReadBadString ==
  ASSUME NEW k, NEW items, NEW next, NEW outer,
         NEW t, t.k = "string", Unescaped(t.text).at = "error"
  PROVE  Read(Frame(k, items, next, outer), t) = Failed
BY FrameIs DEF Read

LEMMA ReadKey ==
  ASSUME NEW items, NEW next \in {"first", "item"}, NEW outer,
         NEW t, t.k = "string", Unescaped(t.text).at = "text"
  PROVE  Read(Frame("object", items, next, outer), t) =
           Frame("object", Append(items, Value(t.k, <<>>, Unescaped(t.text).text, t.n)), "colon", outer)
BY FrameIs DEF Read, WantsKey, With

LEMMA ReadBegin ==
  ASSUME NEW k, NEW items, NEW next, NEW outer, Ready(k, next)
  PROVE  LET f == Frame(k, items, next, outer)
         IN  /\ Read(f, Token("begin-array", <<>>, 0)) = Frame("array", <<>>, "first", f)
             /\ Read(f, Token("begin-object", <<>>, 0)) = Frame("object", <<>>, "first", f)
<1> DEFINE f == Frame(k, items, next, outer)
<1>1. f.k = k /\ f.next = next
  BY FrameIs
<1> HIDE DEF f
<1>2. WantsValue(f) /\ f.k # "failed"
  BY <1>1 DEF Ready, WantsValue
<1>3. Read(f, Token("begin-array", <<>>, 0)) = Frame("array", <<>>, "first", f)
  BY <1>2, TokenIs DEF Read, Scalars, Open
<1>4. Read(f, Token("begin-object", <<>>, 0)) = Frame("object", <<>>, "first", f)
  BY <1>2, TokenIs DEF Read, Scalars, Open
<1> QED BY <1>3, <1>4 DEF f

LEMMA ReadColon ==
  ASSUME NEW items, NEW outer
  PROVE  Read(Frame("object", items, "colon", outer), Token("name-separator", <<>>, 0)) =
           Frame("object", items, "value", outer)
BY FrameIs, TokenIs DEF Read, Scalars, Past

LEMMA ReadComma ==
  ASSUME NEW k \in {"array", "object"}, NEW items, NEW outer
  PROVE  Read(Frame(k, items, "comma", outer), Token("value-separator", <<>>, 0)) =
           Frame(k, items, "item", outer)
BY FrameIs, TokenIs DEF Read, Scalars, Past

LEMMA ReadEnd ==
  ASSUME NEW items, NEW next \in {"first", "comma"},
         NEW k, NEW outers, NEW n, NEW outer
  PROVE  LET f == Frame(k, outers, n, outer)
         IN  /\ Read(Frame("array", items, next, f), Token("end-array", <<>>, 0)) =
                  Frame(k, Append(outers, Value("array", items, <<>>, 0)), "comma", outer)
             /\ Read(Frame("object", items, next, f), Token("end-object", <<>>, 0)) =
                  Frame(k, Append(outers, Value("object", items, <<>>, 0)), "comma", outer)
<1> DEFINE f == Frame(k, outers, n, outer)
<1>1. f.k = k /\ f.items = outers /\ f.outer = outer
  BY FrameIs
<1> HIDE DEF f
<1>2. Read(Frame("array", items, next, f), Token("end-array", <<>>, 0)) =
        With(f, Value("array", items, <<>>, 0), "comma")
  BY FrameIs, TokenIs DEF Read, Scalars, MayEnd
<1>3. Read(Frame("object", items, next, f), Token("end-object", <<>>, 0)) =
        With(f, Value("object", items, <<>>, 0), "comma")
  BY FrameIs, TokenIs DEF Read, Scalars, MayEnd
<1>4. \A v : With(f, v, "comma") = Frame(k, Append(outers, v), "comma", outer)
  BY <1>1 DEF With
<1> QED BY <1>2, <1>3, <1>4 DEF f

LEMMA ReadEarlyEnd ==
  ASSUME NEW items, NEW outer
  PROVE  Read(Frame("array", items, "item", outer), Token("end-array", <<>>, 0)) = Failed
BY FrameIs, TokenIs DEF Read, Scalars, MayEnd

LEMMA FailedStays ==
  ASSUME NEW T, NEW tokens \in Seq(T)
  PROVE  ReadOn(Failed, tokens) = Failed
<1>0. PICK N \in Nat : N = Len(tokens)
  OBVIOUS
<1>1. PICK g : Reads(Failed, tokens, N, g) /\ ReadOn(Failed, tokens) = g[N]
  BY <1>0, ReadOnIs
<1> DEFINE S == {k \in 0 .. N : g[k] = Failed}
<1>2. 0 \in S
  BY <1>1 DEF Reads
<1>3. ASSUME NEW k \in 1 .. N, k - 1 \in S PROVE k \in S
  <2>1. g[k - 1] = Failed /\ k \in 0 .. N
    BY <1>3
  <2>2. g[k] = Read(Failed, tokens[k])
    BY <1>1, <2>1 DEF Reads
  <2>3. Read(Failed, tokens[k]) = Failed
    <3>1. Failed.k = "failed"
      BY FrameIs DEF Failed
    <3> QED BY <3>1 DEF Read
  <2> QED BY <2>1, <2>2, <2>3
<1> HIDE DEF S
<1>4. \A k \in 0 .. N : k \in S
  BY <1>2, <1>3, UpTo, Zenon
<1>5. N \in S
  BY <1>4
<1> QED BY <1>1, <1>5 DEF S

-----------------------------------------------------------------------------
(* Tokens that say a value wherever one may come, or end in an error.      *)
Marks  == {"begin-array", "end-array", "begin-object", "end-object", "name-separator",
           "value-separator"}
Tokens == [k : Scalars \cup Marks, text : Seq(Codes), n : Int]

Says(s, v) ==
  \A k, items, next, outer :
    Ready(k, next) =>
      ReadOn(Frame(k, items, next, outer), s) = Frame(k, Append(items, v), "comma", outer)

Refused(s) ==
  \A k, items, next, outer :
    Ready(k, next) => ReadOn(Frame(k, items, next, outer), s) = Failed

LEMMA Joined ==
  ASSUME NEW f, NEW s \in Seq(Tokens), NEW t \in Seq(Tokens)
  PROVE  s \o t \in Seq(Tokens) /\ ReadOn(f, s \o t) = ReadOn(ReadOn(f, s), t)
<1>1. s \o t \in Seq(Tokens)
  OBVIOUS
<1> QED BY <1>1, ReadOnConcat

LEMMA MarkIsRead ==
  ASSUME NEW k \in Scalars \cup Marks
  PROVE  Mark(k) \in Seq(Tokens) /\ \A f : ReadOn(f, Mark(k)) = Read(f, Token(k, <<>>, 0))
<1>1. Token(k, <<>>, 0) \in Tokens
  BY DEF Token, Tokens
<1>2. Mark(k) = <<Token(k, <<>>, 0)>>
  BY DEF Mark
<1>3. Mark(k) \in Seq(Tokens)
  BY <1>1, <1>2
<1> QED BY <1>2, <1>3, ReadOnOne

LEMMA NothingUnescaped == Unescaped(<<>>) = Heard(<<>>, "text")
<1>1. Len(<<>>) = 0
  OBVIOUS
<1>2. PICK g : Hears(<<>>, Len(<<>>), g) /\ Unescaped(<<>>) = g[Len(<<>>)]
  BY <1>1, UnescapedIs
<1> QED BY <1>1, <1>2 DEF Hears

LEMMA HeardIs ==
  ASSUME NEW text, NEW at
  PROVE  Heard(text, at).text = text /\ Heard(text, at).at = at
BY DEF Heard

LEMMA ScalarSays ==
  ASSUME NEW k \in {"true", "false", "number"}, NEW n \in Int
  PROVE  /\ <<Token(k, <<>>, n)>> \in Seq(Tokens)
         /\ Says(<<Token(k, <<>>, n)>>, Value(k, <<>>, <<>>, n))
<1> DEFINE t == Token(k, <<>>, n)
<1>1. t \in Tokens
  BY DEF Token, Tokens, Scalars
<1>2. t.k = k /\ t.text = <<>> /\ t.n = n
  BY TokenIs
<1> HIDE DEF t
<1>3. Unescaped(t.text).at = "text" /\ Unescaped(t.text).text = <<>> /\ t.k \in Scalars
  BY <1>2, NothingUnescaped, HeardIs DEF Scalars
<1>4. \A f : ReadOn(f, <<t>>) = Read(f, t)
  BY ReadOnOne
<1>5. Says(<<t>>, Value(k, <<>>, <<>>, n))
  BY <1>2, <1>3, <1>4, ReadScalar DEF Says
<1> QED BY <1>1, <1>5 DEF t

(* A text says itself, whatever has to be escaped in it.                   *)
LEMMA EscapedToken ==
  ASSUME NEW text \in Seq(Writable)
  PROVE  \E t \in Tokens :
           /\ JsonEscape(text) = <<t>> /\ t.k = "string" /\ t.n = 0
           /\ IF IsClean(text) THEN Unescaped(t.text) = Heard(text, "text")
                               ELSE Unescaped(t.text).at = "error"
<1> DEFINE written == FlattenSeq([i \in DOMAIN text |-> Escaped(text[i])])
           t == Token("string", written, 0)
<1>1. JsonEscape(text) = <<t>>
  BY DEF JsonEscape
<1>2. /\ written \in Seq(Codes)
      /\ IF IsClean(text) THEN Unescaped(written) = Heard(text, "text")
                          ELSE Unescaped(written).at = "error"
  BY EscapeRoundTrip
<1> HIDE DEF written
<1>3. t \in Tokens /\ t.k = "string" /\ t.n = 0 /\ t.text = written
  BY <1>2 DEF Token, Tokens, Scalars
<1> QED BY <1>1, <1>2, <1>3

LEMMA StringSays ==
  ASSUME NEW text \in Seq(Writable)
  PROVE  /\ JsonEscape(text) \in Seq(Tokens)
         /\ IsClean(text) => Says(JsonEscape(text), StringValue(text))
         /\ ~IsClean(text) => Refused(JsonEscape(text))
<1>1. PICK t \in Tokens :
        /\ JsonEscape(text) = <<t>> /\ t.k = "string" /\ t.n = 0
        /\ IF IsClean(text) THEN Unescaped(t.text) = Heard(text, "text")
                            ELSE Unescaped(t.text).at = "error"
  BY EscapedToken
<1>2. \A f : ReadOn(f, <<t>>) = Read(f, t)
  BY ReadOnOne
<1>3. JsonEscape(text) \in Seq(Tokens)
  BY <1>1
<1>4. ASSUME IsClean(text) PROVE Says(JsonEscape(text), StringValue(text))
  <2>1. Unescaped(t.text).at = "text" /\ Unescaped(t.text).text = text /\ t.k \in Scalars
    BY <1>1, <1>4, HeardIs DEF Scalars
  <2> QED BY <1>1, <1>2, <2>1, ReadScalar DEF Says, StringValue
<1>5. ASSUME ~IsClean(text) PROVE Refused(JsonEscape(text))
  BY <1>1, <1>2, <1>5, ReadBadString DEF Refused
<1> QED BY <1>3, <1>4, <1>5

LEMMA KeyIsRead ==
  ASSUME NEW word \in Words
  PROVE  /\ Key(word) \in Seq(Tokens)
         /\ \A items, outer : \A next \in {"first", "item"} :
              ReadOn(Frame("object", items, next, outer), Key(word)) =
                Frame("object", Append(items, StringValue(<<word>>)), "value", outer)
<1> DEFINE text == <<word>>
<1>1. text \in Seq(Writable) /\ IsClean(text)
  <2>1. word \in Writable /\ word \notin Dirty
    BY DEF Writable, Dirty, Words
  <2>2. Len(text) = 1 /\ text[1] = word
    OBVIOUS
  <2> QED BY <2>1, <2>2 DEF IsClean
<1>2. PICK t \in Tokens :
        JsonEscape(text) = <<t>> /\ t.k = "string" /\ t.n = 0 /\ Unescaped(t.text) = Heard(text, "text")
  <2> HIDE DEF text
  <2> QED BY <1>1, EscapedToken
<1>3. Key(word) = JsonEscape(text) \o Mark("name-separator")
  BY DEF Key
<1> HIDE DEF text
<1>4. JsonEscape(text) \in Seq(Tokens) /\ Mark("name-separator") \in Seq(Tokens)
  BY <1>2, MarkIsRead DEF Marks
<1>5. Key(word) \in Seq(Tokens)
  BY <1>2, <1>3, <1>4
<1>6. ASSUME NEW items, NEW outer, NEW next \in {"first", "item"}
      PROVE  ReadOn(Frame("object", items, next, outer), Key(word)) =
               Frame("object", Append(items, StringValue(text)), "value", outer)
  <2> DEFINE f == Frame("object", items, next, outer)
             g == Frame("object", Append(items, StringValue(text)), "colon", outer)
  <2>1. Read(f, t) = g
    BY <1>2, HeardIs, ReadKey DEF StringValue
  <2>2. Read(g, Token("name-separator", <<>>, 0)) =
          Frame("object", Append(items, StringValue(text)), "value", outer)
    BY ReadColon
  <2> HIDE DEF f, g
  <2>3. ReadOn(f, Key(word)) = ReadOn(ReadOn(f, JsonEscape(text)), Mark("name-separator"))
    BY <1>3, <1>4, Joined
  <2>4. ReadOn(f, JsonEscape(text)) = g
    BY <1>2, <2>1, ReadOnOne
  <2>5. ReadOn(g, Mark("name-separator")) = Read(g, Token("name-separator", <<>>, 0))
    BY MarkIsRead DEF Marks
  <2> QED BY <2>2, <2>3, <2>4, <2>5 DEF f
<1> QED BY <1>5, <1>6 DEF text

-----------------------------------------------------------------------------
(* A parameter says its name, or what kind it is, and its value.           *)
Pair(first, second) ==
  Mark("begin-array") \o first \o Mark("value-separator") \o second \o Mark("end-array")

LEMMA PairIsRead ==
  ASSUME NEW first \in Seq(Tokens), NEW second \in Seq(Tokens)
  PROVE  /\ Pair(first, second) \in Seq(Tokens)
         /\ \A f : ReadOn(f, Pair(first, second)) =
              LET inside == ReadOn(Read(f, Token("begin-array", <<>>, 0)), first)
                  after  == ReadOn(Read(inside, Token("value-separator", <<>>, 0)), second)
              IN  Read(after, Token("end-array", <<>>, 0))
<1>1. /\ Mark("begin-array") \in Seq(Tokens) /\ Mark("value-separator") \in Seq(Tokens)
      /\ Mark("end-array") \in Seq(Tokens)
  BY MarkIsRead DEF Marks
<1> DEFINE a == Mark("begin-array") \o first
           b == a \o Mark("value-separator")
           c == b \o second
<1>2. a \in Seq(Tokens) /\ \A f : ReadOn(f, a) = ReadOn(ReadOn(f, Mark("begin-array")), first)
  BY <1>1, Joined
<1>3. Pair(first, second) = c \o Mark("end-array")
  BY DEF Pair
<1> HIDE DEF a
<1>4. b \in Seq(Tokens) /\ \A f : ReadOn(f, b) = ReadOn(ReadOn(f, a), Mark("value-separator"))
  BY <1>1, <1>2, Joined
<1> HIDE DEF b
<1>5. c \in Seq(Tokens) /\ \A f : ReadOn(f, c) = ReadOn(ReadOn(f, b), second)
  BY <1>1, <1>4, Joined
<1> HIDE DEF c
<1>6. /\ Pair(first, second) \in Seq(Tokens)
      /\ \A f : ReadOn(f, Pair(first, second)) = ReadOn(ReadOn(f, c), Mark("end-array"))
  BY <1>1, <1>3, <1>5, Joined
<1>7. /\ \A f : ReadOn(f, Mark("begin-array")) = Read(f, Token("begin-array", <<>>, 0))
      /\ \A f : ReadOn(f, Mark("value-separator")) = Read(f, Token("value-separator", <<>>, 0))
      /\ \A f : ReadOn(f, Mark("end-array")) = Read(f, Token("end-array", <<>>, 0))
  BY MarkIsRead DEF Marks
<1> QED BY <1>2, <1>4, <1>5, <1>6, <1>7

LEMMA MarksOfFailed ==
  \A k \in Marks : Read(Failed, Token(k, <<>>, 0)) = Failed
<1>1. Failed.k = "failed"
  BY FrameIs DEF Failed
<1> QED BY <1>1 DEF Read

LEMMA Appended ==
  ASSUME NEW v, NEW w
  PROVE  Append(<<>>, v) = <<v>> /\ Append(<<v>>, w) = <<v, w>>
<1>1. Append(<<>>, v) = <<v>>
  OBVIOUS
<1>2. PICK s : s = <<v>>
  OBVIOUS
<1>3. PICK t : t = Append(s, w)
  OBVIOUS
<1>4. PICK u : u = <<v, w>>
  OBVIOUS
<1>5. t \in Seq({v, w}) /\ Len(t) = 2 /\ t[1] = v /\ t[2] = w
  <2>1. PICK S : S = {v, w}
    OBVIOUS
  <2>2. s \in Seq(S) /\ Len(s) = 1 /\ s[1] = v /\ w \in S
    BY <1>2, <2>1
  <2>3. t \in Seq(S) /\ Len(t) = Len(s) + 1 /\ t[1] = s[1] /\ t[Len(s) + 1] = w
    <3>1. Append(s, w) \in Seq(S) /\ Len(Append(s, w)) = Len(s) + 1
      BY <2>2, AppendProperties
    <3>2. Append(s, w)[Len(s) + 1] = w /\ \A i \in 1 .. Len(s) : Append(s, w)[i] = s[i]
      BY <2>2, AppendProperties
    <3>3. Append(s, w)[1] = s[1]
      BY <2>2, <3>2
    <3> QED BY <1>3, <3>1, <3>2, <3>3
  <2> QED BY <2>1, <2>2, <2>3
<1>6. u \in Seq({v, w}) /\ Len(u) = 2 /\ u[1] = v /\ u[2] = w
  BY <1>4
<1>7. t = u
  <2>1. \A i \in 1 .. 2 : i = 1 \/ i = 2
    OBVIOUS
  <2> QED BY <1>5, <1>6, <2>1, SeqEqual
<1> QED BY <1>1, <1>2, <1>3, <1>4, <1>7

LEMMA SaysInArray ==
  ASSUME NEW s, NEW v, Says(s, v), NEW items, NEW next \in {"first", "item"}, NEW f
  PROVE  ReadOn(Frame("array", items, next, f), s) = Frame("array", Append(items, v), "comma", f)
BY DEF Says, Ready

LEMMA SaysFirst ==
  ASSUME NEW s, NEW v, Says(s, v), NEW f
  PROVE  ReadOn(Frame("array", <<>>, "first", f), s) = Frame("array", <<v>>, "comma", f)
<1>1. PICK e : e = <<>>
  OBVIOUS
<1>2. ReadOn(Frame("array", e, "first", f), s) = Frame("array", Append(e, v), "comma", f)
  BY SaysInArray
<1>3. Append(e, v) = <<v>>
  BY <1>1
<1> QED BY <1>1, <1>2, <1>3, Zenon

LEMMA SaysSecond ==
  ASSUME NEW s, NEW v, NEW w, Says(s, w), NEW f
  PROVE  ReadOn(Frame("array", <<v>>, "item", f), s) = Frame("array", <<v, w>>, "comma", f)
<1>1. PICK e : e = <<v>>
  OBVIOUS
<1>2. ReadOn(Frame("array", e, "item", f), s) = Frame("array", Append(e, w), "comma", f)
  BY SaysInArray
<1>3. Append(<<v>>, w) = <<v, w>>
  BY Appended
<1> QED BY <1>1, <1>2, <1>3, Zenon

LEMMA PairSays ==
  ASSUME NEW first \in Seq(Tokens), NEW second \in Seq(Tokens), NEW v, NEW w,
         Says(first, v), Says(second, w)
  PROVE  Says(Pair(first, second), Value("array", <<v, w>>, <<>>, 0))
<1> SUFFICES ASSUME NEW k, NEW items, NEW next, NEW outer, Ready(k, next)
             PROVE  ReadOn(Frame(k, items, next, outer), Pair(first, second)) =
                      Frame(k, Append(items, Value("array", <<v, w>>, <<>>, 0)), "comma", outer)
  BY DEF Says
<1> DEFINE f == Frame(k, items, next, outer)
<1>1. Read(f, Token("begin-array", <<>>, 0)) = Frame("array", <<>>, "first", f)
  BY ReadBegin
<1>2. Read(Frame("array", <<v, w>>, "comma", f), Token("end-array", <<>>, 0)) =
        Frame(k, Append(items, Value("array", <<v, w>>, <<>>, 0)), "comma", outer)
  BY ReadEnd
<1> HIDE DEF f
<1>3. ReadOn(Frame("array", <<>>, "first", f), first) = Frame("array", <<v>>, "comma", f)
  BY SaysFirst
<1>4. Read(Frame("array", <<v>>, "comma", f), Token("value-separator", <<>>, 0)) =
        Frame("array", <<v>>, "item", f)
  BY ReadComma
<1>5. ReadOn(Frame("array", <<v>>, "item", f), second) = Frame("array", <<v, w>>, "comma", f)
  BY SaysSecond
<1>6. ReadOn(f, Pair(first, second)) =
        LET inside == ReadOn(Read(f, Token("begin-array", <<>>, 0)), first)
            after  == ReadOn(Read(inside, Token("value-separator", <<>>, 0)), second)
        IN  Read(after, Token("end-array", <<>>, 0))
  BY PairIsRead
<1>7. ReadOn(f, Pair(first, second)) =
        Frame(k, Append(items, Value("array", <<v, w>>, <<>>, 0)), "comma", outer)
  BY <1>1, <1>2, <1>3, <1>4, <1>5, <1>6
<1> QED BY <1>7 DEF f

LEMMA PairRefused ==
  ASSUME NEW first \in Seq(Tokens), NEW second \in Seq(Tokens), NEW v,
         Refused(first) \/ (Says(first, v) /\ Refused(second))
  PROVE  Refused(Pair(first, second))
<1> SUFFICES ASSUME NEW k, NEW items, NEW next, NEW outer, Ready(k, next)
             PROVE  ReadOn(Frame(k, items, next, outer), Pair(first, second)) = Failed
  BY DEF Refused
<1> DEFINE f == Frame(k, items, next, outer)
<1>1. Read(f, Token("begin-array", <<>>, 0)) = Frame("array", <<>>, "first", f)
  BY ReadBegin
<1> HIDE DEF f
<1>2. ReadOn(f, Pair(first, second)) =
        LET inside == ReadOn(Read(f, Token("begin-array", <<>>, 0)), first)
            after  == ReadOn(Read(inside, Token("value-separator", <<>>, 0)), second)
        IN  Read(after, Token("end-array", <<>>, 0))
  BY PairIsRead
<1>3. /\ Read(Failed, Token("value-separator", <<>>, 0)) = Failed
      /\ Read(Failed, Token("end-array", <<>>, 0)) = Failed
      /\ ReadOn(Failed, second) = Failed
  BY MarksOfFailed, FailedStays DEF Marks
<1>4. CASE Refused(first)
  <2>1. ReadOn(Frame("array", <<>>, "first", f), first) = Failed
    BY <1>4 DEF Refused, Ready
  <2> QED BY <1>1, <1>2, <1>3, <2>1 DEF f
<1>5. CASE Says(first, v) /\ Refused(second)
  <2>1. ReadOn(Frame("array", <<>>, "first", f), first) = Frame("array", <<v>>, "comma", f)
    BY <1>5, SaysFirst
  <2>2. Read(Frame("array", <<v>>, "comma", f), Token("value-separator", <<>>, 0)) =
          Frame("array", <<v>>, "item", f)
    BY ReadComma
  <2>3. ReadOn(Frame("array", <<v>>, "item", f), second) = Failed
    BY <1>5 DEF Refused, Ready
  <2> QED BY <1>1, <1>2, <1>3, <2>1, <2>2, <2>3 DEF f
<1> QED BY <1>4, <1>5

(* A parameter as it comes out of Param: in characters, and with no more   *)
(* than its kind has.                                                      *)
Plainly(p) ==
  /\ p.type \in {"blank", "header", "raw", "bool", "number", "string"}
  /\ p.name \in Seq(Chars) /\ p.text \in Seq(Chars)
  /\ p.type = "number" => p.n \in Int
  /\ p.type \in {"blank", "header", "raw"} => p.name = <<>>
  /\ p.type \in {"blank", "bool", "number"} => p.text = <<>>

ParamOk(p) == IsClean(p.name) /\ IsClean(p.text)

LEMMA WordIsClean ==
  ASSUME NEW word \in Words
  PROVE  <<word>> \in Seq(Writable) /\ IsClean(<<word>>)
<1>1. word \in Writable /\ word \notin Dirty
  BY DEF Writable, Dirty, Words
<1>2. Len(<<word>>) = 1 /\ <<word>>[1] = word
  OBVIOUS
<1> QED BY <1>1, <1>2 DEF IsClean

LEMMA ParamSays ==
  ASSUME NEW p, Plainly(p), p.type # "blank"
  PROVE  /\ ParamJson(p) \in Seq(Tokens)
         /\ ParamOk(p) => Says(ParamJson(p), ParamValue(p))
         /\ ~ParamOk(p) => Refused(ParamJson(p))
<1>1. p.name \in Seq(Writable) /\ p.text \in Seq(Writable)
  BY DEF Plainly, Writable
<1>2. IsClean(<<>>)
  BY DEF IsClean
<1>3. CASE p.type \in {"header", "raw"}
  <2> DEFINE first == JsonEscape(<<p.type>>)
             second == JsonEscape(p.text)
             v == StringValue(<<p.type>>)
             w == StringValue(p.text)
  <2>1. p.type \in Words
    BY <1>3 DEF Words
  <2>2. first \in Seq(Tokens) /\ Says(first, v)
    BY <2>1, WordIsClean, StringSays
  <2>3. /\ second \in Seq(Tokens) /\ (IsClean(p.text) => Says(second, w))
        /\ (~IsClean(p.text) => Refused(second))
    BY <1>1, StringSays
  <2>4. ParamOk(p) <=> IsClean(p.text)
    BY <1>2, <1>3 DEF ParamOk, Plainly
  <2>5. ParamJson(p) = Pair(first, second)
    BY <1>3 DEF ParamJson, Pair
  <2>6. ParamValue(p) = Value("array", <<v, w>>, <<>>, 0)
    BY <1>3 DEF ParamValue
  <2> HIDE DEF first, second, v, w
  <2>7. Pair(first, second) \in Seq(Tokens)
    BY <2>2, <2>3, PairIsRead
  <2>8. IsClean(p.text) => Says(Pair(first, second), Value("array", <<v, w>>, <<>>, 0))
    BY <2>2, <2>3, PairSays
  <2>9. ~IsClean(p.text) => Refused(Pair(first, second))
    BY <2>2, <2>3, PairRefused
  <2> QED BY <2>4, <2>5, <2>6, <2>7, <2>8, <2>9
<1>4. ASSUME NEW second \in Seq(Tokens), NEW w,
             ParamJson(p) = Pair(JsonEscape(p.name), second),
             ParamValue(p) = Value("array", <<StringValue(p.name), w>>, <<>>, 0),
             IsClean(p.text) => Says(second, w), ~IsClean(p.text) => Refused(second)
      PROVE  /\ ParamJson(p) \in Seq(Tokens)
             /\ ParamOk(p) => Says(ParamJson(p), ParamValue(p))
             /\ ~ParamOk(p) => Refused(ParamJson(p))
  <2> DEFINE first == JsonEscape(p.name)
             v == StringValue(p.name)
  <2>1. /\ first \in Seq(Tokens) /\ (IsClean(p.name) => Says(first, v))
        /\ (~IsClean(p.name) => Refused(first))
    BY <1>1, StringSays
  <2>2. ParamJson(p) = Pair(first, second) /\ ParamValue(p) = Value("array", <<v, w>>, <<>>, 0)
    BY <1>4
  <2> HIDE DEF first, v
  <2>3. Pair(first, second) \in Seq(Tokens)
    BY <2>1, PairIsRead
  <2>4. ParamOk(p) => Says(Pair(first, second), Value("array", <<v, w>>, <<>>, 0))
    BY <1>4, <2>1, PairSays DEF ParamOk
  <2>5. ~ParamOk(p) => Refused(Pair(first, second))
    BY <1>4, <2>1, PairRefused DEF ParamOk
  <2> QED BY <2>2, <2>3, <2>4, <2>5
<1>5. CASE p.type = "string"
  <2>1. ParamJson(p) = Pair(JsonEscape(p.name), JsonEscape(p.text))
    BY <1>5 DEF ParamJson, Pair
  <2>2. ParamValue(p) = Value("array", <<StringValue(p.name), StringValue(p.text)>>, <<>>, 0)
    BY <1>5 DEF ParamValue
  <2> QED BY <1>1, <1>4, <2>1, <2>2, StringSays
<1>6. CASE p.type = "bool"
  <2> DEFINE k == IF p.n = 1 THEN "true" ELSE "false"
  <2>1. ParamJson(p) = Pair(JsonEscape(p.name), <<Token(k, <<>>, 0)>>)
    BY <1>6 DEF ParamJson, Pair, Mark
  <2>2. ParamValue(p) = Value("array", <<StringValue(p.name), Value(k, <<>>, <<>>, 0)>>, <<>>, 0)
    BY <1>6 DEF ParamValue
  <2>3. k \in {"true", "false", "number"} /\ 0 \in Int
    OBVIOUS
  <2> HIDE DEF k
  <2>4. /\ <<Token(k, <<>>, 0)>> \in Seq(Tokens)
        /\ Says(<<Token(k, <<>>, 0)>>, Value(k, <<>>, <<>>, 0))
    BY <2>3, ScalarSays
  <2>5. IsClean(p.text)
    BY <1>2, <1>6 DEF Plainly
  <2> QED BY <1>4, <2>1, <2>2, <2>4, <2>5
<1>7. CASE p.type = "number"
  <2>1. ParamJson(p) = Pair(JsonEscape(p.name), <<Token("number", <<>>, p.n)>>)
    BY <1>7 DEF ParamJson, Pair
  <2>2. ParamValue(p) =
          Value("array", <<StringValue(p.name), Value("number", <<>>, <<>>, p.n)>>, <<>>, 0)
    BY <1>7 DEF ParamValue
  <2>3. p.n \in Int
    BY <1>7 DEF Plainly
  <2>4. /\ <<Token("number", <<>>, p.n)>> \in Seq(Tokens)
        /\ Says(<<Token("number", <<>>, p.n)>>, Value("number", <<>>, <<>>, p.n))
    BY <2>3, ScalarSays
  <2>5. IsClean(p.text)
    BY <1>2, <1>7 DEF Plainly
  <2> QED BY <1>4, <2>1, <2>2, <2>4, <2>5
<1> QED BY <1>3, <1>5, <1>6, <1>7 DEF Plainly

-----------------------------------------------------------------------------
(* A list of parameters says the ones that are not blank, if none of them  *)
(* has a character without an escape, and no comma is left at its end.     *)
PlainList(list) ==
  /\ Len(list) \in Nat /\ DOMAIN list = 1 .. Len(list)
  /\ \A i \in 1 .. Len(list) : Plainly(list[i])

AllBlank(list, k) == \A j \in 1 .. k : list[j].type = "blank"
AllOk(list, k)    == \A j \in 1 .. k : ParamOk(list[j])

ListOk(list) ==
  /\ AllOk(list, Len(list))
  /\ Len(list) # 0 /\ list[Len(list)].type = "blank" => AllBlank(list, Len(list))

NextAfter(list, k) ==
  IF AllBlank(list, k) THEN "first"
  ELSE IF k = Len(list) /\ list[k].type # "blank" THEN "comma"
  ELSE "item"

ListRead(list, k, items, outer, f) ==
  IF AllOk(list, k) THEN f = Frame("array", items, NextAfter(list, k), outer) ELSE f = Failed

Separator(list, k) == IF k # Len(list) THEN Mark("value-separator") ELSE <<>>

LEMMA BlankIsOk ==
  ASSUME NEW p, Plainly(p), p.type = "blank"
  PROVE  ParamOk(p)
<1>1. p.name = <<>> /\ p.text = <<>>
  BY DEF Plainly
<1>2. IsClean(<<>>)
  BY DEF IsClean
<1> QED BY <1>1, <1>2 DEF ParamOk

LEMMA OneMoreBlank ==
  ASSUME NEW list, PlainList(list), NEW k \in 1 .. Len(list), NEW items, NEW outer, NEW f,
         ListRead(list, k - 1, items, outer, f), list[k].type = "blank"
  PROVE  ListRead(list, k, items, outer, f)
<1>0. Len(list) \in Nat
  BY DEF PlainList
<1>1. ParamOk(list[k])
  BY BlankIsOk DEF PlainList
<1>2. AllOk(list, k) <=> AllOk(list, k - 1)
  BY <1>0, <1>1 DEF AllOk
<1>3. AllBlank(list, k) <=> AllBlank(list, k - 1)
  BY <1>0 DEF AllBlank
<1>4. k - 1 # Len(list)
  BY <1>0
<1>5. NextAfter(list, k) = NextAfter(list, k - 1)
  BY <1>3, <1>4 DEF NextAfter
<1> QED BY <1>2, <1>5 DEF ListRead

LEMMA OneMoreShown ==
  ASSUME NEW list, PlainList(list), NEW k \in 1 .. Len(list), NEW items, NEW outer,
         NEW E \in Seq(Tokens), NEW f,
         ListRead(list, k - 1, items, outer, ReadOn(f, E)), list[k].type # "blank"
  PROVE  LET said == ParamJson(list[k]) \o Separator(list, k)
         IN  /\ said \in Seq(Tokens)
             /\ ListRead(list, k, Append(items, ParamValue(list[k])), outer, ReadOn(f, E \o said))
<1> DEFINE p == list[k]
           s == ParamJson(p)
           sep == Separator(list, k)
           v == ParamValue(p)
<1>0. Len(list) \in Nat
  BY DEF PlainList
<1>1. s \in Seq(Tokens) /\ (ParamOk(p) => Says(s, v)) /\ (~ParamOk(p) => Refused(s))
  BY ParamSays DEF PlainList
<1>2. sep \in Seq(Tokens)
  <2>1. Mark("value-separator") \in Seq(Tokens)
    BY MarkIsRead DEF Marks
  <2> QED BY <2>1 DEF Separator
<1>3. AllOk(list, k) <=> AllOk(list, k - 1) /\ ParamOk(p)
  BY <1>0 DEF AllOk
<1>4. k - 1 # Len(list)
  BY <1>0
<1>5. NextAfter(list, k - 1) \in {"first", "item"}
  BY <1>4 DEF NextAfter
<1>6. NextAfter(list, k) = IF k = Len(list) THEN "comma" ELSE "item"
  <2>1. ~AllBlank(list, k)
    BY <1>0 DEF AllBlank
  <2> QED BY <2>1 DEF NextAfter
<1> HIDE DEF p, s, sep, v
<1>7. s \o sep \in Seq(Tokens) /\ ReadOn(f, E \o (s \o sep)) = ReadOn(ReadOn(ReadOn(f, E), s), sep)
  <2>1. s \o sep \in Seq(Tokens)
    BY <1>1, <1>2, Joined
  <2>2. ReadOn(f, E \o (s \o sep)) = ReadOn(ReadOn(f, E), s \o sep)
    <3>1. PICK a \in Seq(Tokens) : a = s \o sep
      BY <2>1
    <3>2. ReadOn(f, E \o a) = ReadOn(ReadOn(f, E), a)
      BY Joined
    <3> QED BY <3>1, <3>2
  <2>3. ReadOn(ReadOn(f, E), s \o sep) = ReadOn(ReadOn(ReadOn(f, E), s), sep)
    BY <1>1, <1>2, Joined
  <2> QED BY <2>1, <2>2, <2>3
<1>8. ListRead(list, k, Append(items, v), outer, ReadOn(f, E \o (s \o sep)))
  <2>1. CASE ~AllOk(list, k - 1)
    <3>1. ReadOn(f, E) = Failed
      BY <2>1 DEF ListRead
    <3>2. ReadOn(Failed, s) = Failed /\ ReadOn(Failed, sep) = Failed
      BY <1>1, <1>2, FailedStays
    <3> QED BY <1>3, <1>7, <2>1, <3>1, <3>2 DEF ListRead
  <2>2. CASE AllOk(list, k - 1)
    <3>1. ReadOn(f, E) = Frame("array", items, NextAfter(list, k - 1), outer)
      BY <2>2 DEF ListRead
    <3>2. CASE ~ParamOk(p)
      <4>1. ReadOn(ReadOn(f, E), s) = Failed
        BY <1>1, <1>5, <3>1, <3>2 DEF Refused, Ready
      <4>2. ReadOn(Failed, sep) = Failed
        BY <1>2, FailedStays
      <4> QED BY <1>3, <1>7, <3>2, <4>1, <4>2 DEF ListRead
    <3>3. CASE ParamOk(p)
      <4>1. ReadOn(ReadOn(f, E), s) = Frame("array", Append(items, v), "comma", outer)
        BY <1>1, <1>5, <3>1, <3>3, SaysInArray
      <4>2. ReadOn(Frame("array", Append(items, v), "comma", outer), sep) =
              Frame("array", Append(items, v), NextAfter(list, k), outer)
        <5>1. CASE k = Len(list)
          <6>1. sep = <<>>
            BY <5>1 DEF sep, Separator
          <6> QED BY <1>6, <5>1, <6>1, ReadOnNothing
        <5>2. CASE k # Len(list)
          <6>1. sep = Mark("value-separator")
            BY <5>2 DEF sep, Separator
          <6>2. ReadOn(Frame("array", Append(items, v), "comma", outer), sep) =
                  Read(Frame("array", Append(items, v), "comma", outer),
                       Token("value-separator", <<>>, 0))
            BY <6>1, MarkIsRead DEF Marks
          <6> QED BY <1>6, <5>2, <6>2, ReadComma
        <5> QED BY <5>1, <5>2
      <4> QED BY <1>3, <1>7, <2>2, <3>3, <4>1, <4>2 DEF ListRead
    <3> QED BY <3>2, <3>3
  <2> QED BY <2>1, <2>2
<1> QED BY <1>7, <1>8 DEF s, sep, v, p

LEMMA ParametersRead ==
  ASSUME NEW list, PlainList(list)
  PROVE  \E items :
           /\ ListValue(list) = Value("array", items, <<>>, 0)
           /\ PrintParametersJson(list) \in Seq(Tokens)
           /\ \A outer : ListRead(list, Len(list), items, outer,
                                  ReadOn(Frame("array", <<>>, "first", outer),
                                         PrintParametersJson(list)))
<1>0. PICK N \in Nat : N = Len(list)
  BY DEF PlainList
<1> DEFINE said == [i \in DOMAIN list |->
                     IF list[i].type = "blank" THEN <<>>
                     ELSE ParamJson(list[i]) \o IF i # Len(list) THEN Mark("value-separator") ELSE <<>>]
           meant == [i \in DOMAIN list |->
                      IF list[i].type = "blank" THEN <<>> ELSE <<ParamValue(list[i])>>]
<1>1. PICK seqs : seqs = said
  OBVIOUS
<1>2. PICK vals : vals = meant
  OBVIOUS
<1>3. PICK V : V = {ParamValue(list[i]) : i \in 1 .. N}
  OBVIOUS
<1>4. DOMAIN list = 1 .. N
  BY <1>0 DEF PlainList
<1>5. /\ \A k \in 1 .. N :
           seqs[k] = IF list[k].type = "blank" THEN <<>> ELSE ParamJson(list[k]) \o Separator(list, k)
      /\ Len(seqs) = N /\ (N = 0 => seqs = <<>>)
  BY <1>1, <1>4 DEF Separator
<1>6. /\ \A k \in 1 .. N :
           vals[k] = IF list[k].type = "blank" THEN <<>> ELSE <<ParamValue(list[k])>>
      /\ Len(vals) = N /\ (N = 0 => vals = <<>>)
  BY <1>2, <1>4
<1>7. PrintParametersJson(list) = FlattenSeq(seqs)
  BY <1>1 DEF PrintParametersJson
<1>8. ListValue(list) = Value("array", FlattenSeq(vals), <<>>, 0)
  BY <1>2 DEF ListValue
<1> HIDE DEF said, meant
<1>9. ASSUME NEW k \in 1 .. N PROVE seqs[k] \in Seq(Tokens)
  <2>1. CASE list[k].type = "blank"
    <3>1. seqs[k] = <<>>
      BY <1>5, <2>1
    <3> QED BY <3>1
  <2>2. CASE list[k].type # "blank"
    <3>1. ParamJson(list[k]) \in Seq(Tokens)
      BY <1>0, <2>2, ParamSays DEF PlainList
    <3>2. Mark("value-separator") \in Seq(Tokens) /\ <<>> \in Seq(Tokens)
      BY MarkIsRead DEF Marks
    <3>3. Separator(list, k) \in Seq(Tokens)
      BY <3>2 DEF Separator
    <3>4. seqs[k] = ParamJson(list[k]) \o Separator(list, k)
      BY <1>5, <2>2
    <3> QED BY <3>1, <3>3, <3>4
  <2> QED BY <2>1, <2>2
<1>10. ASSUME NEW k \in 1 .. N PROVE vals[k] \in Seq(V)
  <2>1. ParamValue(list[k]) \in V
    BY <1>3
  <2>2. <<ParamValue(list[k])>> \in Seq(V) /\ <<>> \in Seq(V)
    BY <2>1
  <2>3. vals[k] = <<>> \/ vals[k] = <<ParamValue(list[k])>>
    BY <1>6
  <2> QED BY <2>2, <2>3
<1>11. PICK F : /\ Joins(seqs, N, F) /\ FlattenSeq(seqs) = F[N]
                /\ \A k \in 0 .. N : F[k] \in Seq(Tokens)
  <2>1. Len(seqs) = N /\ (N = 0 => seqs = <<>>)
    BY <1>5
  <2> QED BY <1>9, <2>1, FlattenIs
<1>12. PICK G : /\ Joins(vals, N, G) /\ FlattenSeq(vals) = G[N]
                /\ \A k \in 0 .. N : G[k] \in Seq(V)
  <2>1. Len(vals) = N /\ (N = 0 => vals = <<>>)
    BY <1>6
  <2> QED BY <1>10, <2>1, FlattenIs
<1>13. ASSUME NEW outer
       PROVE  ListRead(list, N, G[N], outer, ReadOn(Frame("array", <<>>, "first", outer), F[N]))
  <2>1. PICK f : f = Frame("array", <<>>, "first", outer)
    OBVIOUS
  <2> DEFINE S == {k \in 0 .. N : ListRead(list, k, G[k], outer, ReadOn(f, F[k]))}
  <2>2. 0 \in S
    <3>1. F[0] = <<>> /\ G[0] = <<>>
      BY <1>11, <1>12 DEF Joins
    <3>2. AllOk(list, 0) /\ AllBlank(list, 0)
      BY DEF AllOk, AllBlank
    <3>3. ReadOn(f, F[0]) = f
      BY <3>1, ReadOnNothing
    <3>4. f = Frame("array", G[0], "first", outer)
      BY <2>1, <3>1, Zenon
    <3>5. ListRead(list, 0, G[0], outer, ReadOn(f, F[0]))
      BY <3>2, <3>3, <3>4 DEF ListRead, NextAfter
    <3> QED BY <3>5
  <2>3. ASSUME NEW k \in 1 .. N, k - 1 \in S PROVE k \in S
    <3>1. /\ F[k - 1] \in Seq(Tokens) /\ G[k - 1] \in Seq(V) /\ k \in 0 .. N
          /\ ListRead(list, k - 1, G[k - 1], outer, ReadOn(f, F[k - 1]))
      BY <1>11, <1>12, <2>3
    <3>2. F[k] = F[k - 1] \o seqs[k]
      BY <1>11 DEF Joins
    <3>3. G[k] = G[k - 1] \o vals[k]
      BY <1>12 DEF Joins
    <3>4. k \in 1 .. Len(list)
      BY <1>0
    <3>5. CASE list[k].type = "blank"
      <4>1. seqs[k] = <<>> /\ vals[k] = <<>>
        BY <1>5, <1>6, <3>5
      <4>2. F[k] = F[k - 1]
        BY <3>1, <3>2, <4>1
      <4>3. G[k] = G[k - 1]
        BY <3>1, <3>3, <4>1
      <4>4. ListRead(list, k, G[k - 1], outer, ReadOn(f, F[k - 1]))
        BY <3>1, <3>4, <3>5, OneMoreBlank
      <4> QED BY <3>1, <4>2, <4>3, <4>4
    <3>6. CASE list[k].type # "blank"
      <4>1. seqs[k] = ParamJson(list[k]) \o Separator(list, k)
        BY <1>5, <3>6
      <4>2. vals[k] = <<ParamValue(list[k])>> /\ ParamValue(list[k]) \in V
        BY <1>3, <1>6, <3>6
      <4>3. G[k] = Append(G[k - 1], ParamValue(list[k]))
        BY <3>1, <3>3, <4>2
      <4>4. ListRead(list, k, Append(G[k - 1], ParamValue(list[k])), outer,
                     ReadOn(f, F[k - 1] \o (ParamJson(list[k]) \o Separator(list, k))))
        BY <3>1, <3>4, <3>6, OneMoreShown
      <4>5. ListRead(list, k, G[k], outer, ReadOn(f, F[k]))
        BY <3>2, <4>1, <4>3, <4>4
      <4> QED BY <3>1, <4>5
    <3> QED BY <3>5, <3>6
  <2> HIDE DEF S
  <2>4. \A k \in 0 .. N : k \in S
    BY <2>2, <2>3, UpTo, Zenon
  <2>5. N \in S
    BY <2>4
  <2> QED BY <2>1, <2>5 DEF S
<1>14. PrintParametersJson(list) = F[N] /\ F[N] \in Seq(Tokens)
  BY <1>7, <1>11
<1>15. ListValue(list) = Value("array", G[N], <<>>, 0)
  BY <1>8, <1>12
<1> QED BY <1>0, <1>13, <1>14, <1>15

LEMMA ListSays ==
  ASSUME NEW list, PlainList(list)
  PROVE  /\ JsonList(list) \in Seq(Tokens)
         /\ ListOk(list) => Says(JsonList(list), ListValue(list))
         /\ ~ListOk(list) => Refused(JsonList(list))
<1>1. PICK items :
        /\ ListValue(list) = Value("array", items, <<>>, 0)
        /\ PrintParametersJson(list) \in Seq(Tokens)
        /\ \A outer : ListRead(list, Len(list), items, outer,
                               ReadOn(Frame("array", <<>>, "first", outer),
                                      PrintParametersJson(list)))
  BY ParametersRead
<1> DEFINE b == Mark("begin-array")
           m == PrintParametersJson(list)
           e == Mark("end-array")
<1>2. /\ b \in Seq(Tokens) /\ e \in Seq(Tokens)
      /\ \A f : ReadOn(f, b) = Read(f, Token("begin-array", <<>>, 0))
      /\ \A f : ReadOn(f, e) = Read(f, Token("end-array", <<>>, 0))
  BY MarkIsRead DEF Marks
<1>3. JsonList(list) = b \o m \o e
  BY DEF JsonList
<1>4. m \in Seq(Tokens)
  BY <1>1
<1> HIDE DEF b, m, e
<1>5. b \o m \in Seq(Tokens) /\ \A f : ReadOn(f, b \o m) = ReadOn(ReadOn(f, b), m)
  BY <1>2, <1>4, Joined
<1>6. JsonList(list) \in Seq(Tokens)
  BY <1>2, <1>3, <1>5, Joined
<1>7. ASSUME NEW f
      PROVE  ReadOn(f, JsonList(list)) = ReadOn(ReadOn(f, b \o m), e)
  <2>1. PICK a \in Seq(Tokens) : a = b \o m
    BY <1>5
  <2>2. JsonList(list) = a \o e
    BY <1>3, <2>1
  <2>3. ReadOn(f, a \o e) = ReadOn(ReadOn(f, a), e)
    BY <1>2, Joined
  <2> QED BY <2>1, <2>2, <2>3
<1>8. ASSUME NEW k, NEW had, NEW next, NEW outer, Ready(k, next)
      PROVE  \E f : /\ f = Frame(k, had, next, outer)
                    /\ ListRead(list, Len(list), items, f, ReadOn(f, b \o m))
                    /\ ReadOn(f, JsonList(list)) =
                         Read(ReadOn(f, b \o m), Token("end-array", <<>>, 0))
  <2>1. PICK f : f = Frame(k, had, next, outer)
    OBVIOUS
  <2>2. Read(f, Token("begin-array", <<>>, 0)) = Frame("array", <<>>, "first", f)
    BY <1>8, <2>1, ReadBegin
  <2>3. ReadOn(f, b \o m) = ReadOn(Frame("array", <<>>, "first", f), m)
    BY <1>2, <1>5, <2>2
  <2>4. ListRead(list, Len(list), items, f, ReadOn(f, b \o m))
    BY <1>1, <2>3, Zenon DEF m
  <2> QED BY <1>2, <1>7, <2>1, <2>4
<1>9. ASSUME ListOk(list) PROVE Says(JsonList(list), ListValue(list))
  <2>1. AllOk(list, Len(list))
    BY <1>9 DEF ListOk
  <2>2. NextAfter(list, Len(list)) \in {"first", "comma"}
    <3>1. Len(list) = 0 => AllBlank(list, Len(list))
      BY DEF AllBlank
    <3> QED BY <1>9, <3>1 DEF NextAfter, ListOk
  <2> SUFFICES ASSUME NEW k, NEW had, NEW next, NEW outer, Ready(k, next)
               PROVE  ReadOn(Frame(k, had, next, outer), JsonList(list)) =
                        Frame(k, Append(had, ListValue(list)), "comma", outer)
    BY DEF Says
  <2>3. PICK f : /\ f = Frame(k, had, next, outer)
                 /\ ListRead(list, Len(list), items, f, ReadOn(f, b \o m))
                 /\ ReadOn(f, JsonList(list)) =
                      Read(ReadOn(f, b \o m), Token("end-array", <<>>, 0))
    BY <1>8
  <2>4. ReadOn(f, b \o m) = Frame("array", items, NextAfter(list, Len(list)), f)
    BY <2>1, <2>3 DEF ListRead
  <2>5. Read(Frame("array", items, NextAfter(list, Len(list)), f), Token("end-array", <<>>, 0)) =
          Frame(k, Append(had, Value("array", items, <<>>, 0)), "comma", outer)
    BY <2>2, <2>3, ReadEnd
  <2> QED BY <1>1, <2>3, <2>4, <2>5
<1>10. ASSUME ~ListOk(list) PROVE Refused(JsonList(list))
  <2> SUFFICES ASSUME NEW k, NEW had, NEW next, NEW outer, Ready(k, next)
               PROVE  ReadOn(Frame(k, had, next, outer), JsonList(list)) = Failed
    BY DEF Refused
  <2>1. PICK f : /\ f = Frame(k, had, next, outer)
                 /\ ListRead(list, Len(list), items, f, ReadOn(f, b \o m))
                 /\ ReadOn(f, JsonList(list)) =
                      Read(ReadOn(f, b \o m), Token("end-array", <<>>, 0))
    BY <1>8
  <2>2. CASE ~AllOk(list, Len(list))
    <3>1. ReadOn(f, b \o m) = Failed
      BY <2>1, <2>2 DEF ListRead
    <3>2. Read(Failed, Token("end-array", <<>>, 0)) = Failed
      BY MarksOfFailed DEF Marks
    <3> QED BY <2>1, <3>1, <3>2
  <2>3. CASE AllOk(list, Len(list))
    <3>1. NextAfter(list, Len(list)) = "item"
      BY <1>10, <2>3 DEF NextAfter, ListOk
    <3>2. ReadOn(f, b \o m) = Frame("array", items, "item", f)
      BY <2>1, <2>3, <3>1 DEF ListRead
    <3> QED BY <2>1, <3>2, ReadEarlyEnd
  <2> QED BY <2>2, <2>3
<1> QED BY <1>6, <1>9, <1>10

-----------------------------------------------------------------------------
(* The pieces that printEventJson() writes, one after the other.           *)
LEMMA AppendedThree ==
  ASSUME NEW a, NEW b, NEW c
  PROVE  Append(<<a, b>>, c) = <<a, b, c>>
<1>1. PICK S : S = {a, b, c}
  OBVIOUS
<1>2. PICK s : s = <<a, b>>
  OBVIOUS
<1>3. c \in S /\ s \in Seq(S) /\ Len(s) = 2 /\ s[1] = a /\ s[2] = b
  BY <1>1, <1>2
<1>4. PICK t : t = Append(s, c)
  OBVIOUS
<1>5. c \in S /\ s \in Seq(S)
  BY <1>3
<1>6. /\ t \in Seq(S) /\ Len(t) = Len(s) + 1
      /\ t[Len(s) + 1] = c /\ \A i \in 1 .. Len(s) : t[i] = s[i]
  <2>1. t \in Seq(S) /\ Len(t) = Len(s) + 1
    BY <1>4, <1>5, AppendProperties
  <2>2. t[Len(s) + 1] = c /\ \A i \in 1 .. Len(s) : t[i] = s[i]
    BY <1>4, <1>5, AppendProperties
  <2> QED BY <2>1, <2>2
<1>7. Len(t) = 3 /\ t[1] = a /\ t[2] = b /\ t[3] = c
  BY <1>3, <1>6
<1>8. t = <<t[1], t[2], t[3]>>
  <2>1. t \in Seq(S) /\ Len(t) = 3
    BY <1>6, <1>7
  <2> QED BY <2>1
<1> QED BY <1>2, <1>4, <1>7, <1>8

LEMMA AppendedFour ==
  ASSUME NEW a, NEW b, NEW c, NEW d
  PROVE  Append(<<a, b, c>>, d) = <<a, b, c, d>>
<1>1. PICK S : S = {a, b, c, d}
  OBVIOUS
<1>2. PICK s : s = <<a, b, c>>
  OBVIOUS
<1>3. d \in S /\ s \in Seq(S) /\ Len(s) = 3 /\ s[1] = a /\ s[2] = b /\ s[3] = c
  BY <1>1, <1>2
<1>4. PICK t : t = Append(s, d)
  OBVIOUS
<1>5. d \in S /\ s \in Seq(S)
  BY <1>3
<1>6. /\ t \in Seq(S) /\ Len(t) = Len(s) + 1
      /\ t[Len(s) + 1] = d /\ \A i \in 1 .. Len(s) : t[i] = s[i]
  <2>1. t \in Seq(S) /\ Len(t) = Len(s) + 1
    BY <1>4, <1>5, AppendProperties
  <2>2. t[Len(s) + 1] = d /\ \A i \in 1 .. Len(s) : t[i] = s[i]
    BY <1>4, <1>5, AppendProperties
  <2> QED BY <2>1, <2>2
<1>7. Len(t) = 4 /\ t[1] = a /\ t[2] = b /\ t[3] = c /\ t[4] = d
  BY <1>3, <1>6
<1>8. t = <<t[1], t[2], t[3], t[4]>>
  <2>1. t \in Seq(S) /\ Len(t) = 4
    BY <1>6, <1>7
  <2> QED BY <2>1
<1> QED BY <1>2, <1>4, <1>7, <1>8

(* A key and a list of parameters as a member of an object.                *)
Member(word, list) == Key(word) \o JsonList(list)

LEMMA MemberIsRead ==
  ASSUME NEW word \in Words, NEW list, PlainList(list), NEW items, NEW outer,
         NEW next \in {"first", "item"}
  PROVE  LET f == ReadOn(Frame("object", items, next, outer), Member(word, list))
         IN  /\ Member(word, list) \in Seq(Tokens)
             /\ ListOk(list) =>
                  f = Frame("object", Append(Append(items, StringValue(<<word>>)), ListValue(list)),
                            "comma", outer)
             /\ ~ListOk(list) => f = Failed
<1> DEFINE e == Frame("object", items, next, outer)
           i == Append(items, StringValue(<<word>>))
           g == Frame("object", i, "value", outer)
<1>1. /\ JsonList(list) \in Seq(Tokens)
      /\ ListOk(list) => Says(JsonList(list), ListValue(list))
      /\ ~ListOk(list) => Refused(JsonList(list))
  BY ListSays
<1>2. Key(word) \in Seq(Tokens) /\ ReadOn(e, Key(word)) = g
  BY KeyIsRead
<1>3. Ready("object", "value")
  BY DEF Ready
<1>4. ListOk(list) =>
        ReadOn(g, JsonList(list)) = Frame("object", Append(i, ListValue(list)), "comma", outer)
  BY <1>1, <1>3 DEF Says
<1>5. ~ListOk(list) => ReadOn(g, JsonList(list)) = Failed
  BY <1>1, <1>3 DEF Refused
<1> HIDE DEF e, g, i
<1>6. /\ Member(word, list) \in Seq(Tokens)
      /\ ReadOn(e, Member(word, list)) = ReadOn(ReadOn(e, Key(word)), JsonList(list))
  BY <1>1, <1>2, Joined DEF Member
<1>7. /\ ListOk(list) => ReadOn(e, Member(word, list)) =
                           Frame("object", Append(i, ListValue(list)), "comma", outer)
      /\ ~ListOk(list) => ReadOn(e, Member(word, list)) = Failed
  BY <1>2, <1>4, <1>5, <1>6
<1> QED BY <1>6, <1>7 DEF e, i

(* A section.                                                              *)
LEMMA SectionPieces ==
  ASSUME NEW s, PlainList(s.header), PlainList(s.params), NEW last
  PROVE  /\ PrintSection(s, last) \in Seq(Tokens)
         /\ \A f : ReadOn(f, PrintSection(s, last)) =
              LET header == ReadOn(Read(f, Token("begin-object", <<>>, 0)), Member("header", s.header))
                  params == ReadOn(Read(header, Token("value-separator", <<>>, 0)),
                                   Member("params", s.params))
              IN  ReadOn(Read(params, Token("end-object", <<>>, 0)),
                         IF last THEN <<>> ELSE Mark("value-separator"))
<1>1. /\ Mark("begin-object") \in Seq(Tokens) /\ Mark("value-separator") \in Seq(Tokens)
      /\ Mark("end-object") \in Seq(Tokens)
  BY MarkIsRead DEF Marks
<1>2. /\ Key("header") \in Seq(Tokens) /\ JsonList(s.header) \in Seq(Tokens)
      /\ Key("params") \in Seq(Tokens) /\ JsonList(s.params) \in Seq(Tokens)
  BY KeyIsRead, ListSays DEF Words
<1>3. PICK e : e = IF last THEN <<>> ELSE Mark("value-separator")
  OBVIOUS
<1>4. e \in Seq(Tokens)
  <2>1. <<>> \in Seq(Tokens)
    OBVIOUS
  <2> QED BY <1>1, <1>3, <2>1
<1>5. PICK a : a = Mark("begin-object") \o Key("header")
  OBVIOUS
<1>6. PICK b : b = a \o JsonList(s.header)
  OBVIOUS
<1>7. PICK c : c = b \o Mark("value-separator")
  OBVIOUS
<1>8. PICK d : d = c \o Key("params")
  OBVIOUS
<1>9. PICK g : g = d \o JsonList(s.params)
  OBVIOUS
<1>10. PICK h : h = g \o Mark("end-object")
  OBVIOUS
<1>11. PrintSection(s, last) = h \o e
  BY <1>3, <1>5, <1>6, <1>7, <1>8, <1>9, <1>10, Zenon DEF PrintSection
<1>12. a \in Seq(Tokens) /\ \A f : ReadOn(f, a) = ReadOn(ReadOn(f, Mark("begin-object")), Key("header"))
  BY <1>1, <1>2, <1>5, Joined
<1>13. b \in Seq(Tokens) /\ \A f : ReadOn(f, b) = ReadOn(ReadOn(f, a), JsonList(s.header))
  BY <1>2, <1>6, <1>12, Joined
<1>14. c \in Seq(Tokens) /\ \A f : ReadOn(f, c) = ReadOn(ReadOn(f, b), Mark("value-separator"))
  BY <1>1, <1>7, <1>13, Joined
<1>15. d \in Seq(Tokens) /\ \A f : ReadOn(f, d) = ReadOn(ReadOn(f, c), Key("params"))
  BY <1>2, <1>8, <1>14, Joined
<1>16. g \in Seq(Tokens) /\ \A f : ReadOn(f, g) = ReadOn(ReadOn(f, d), JsonList(s.params))
  BY <1>2, <1>9, <1>15, Joined
<1>17. h \in Seq(Tokens) /\ \A f : ReadOn(f, h) = ReadOn(ReadOn(f, g), Mark("end-object"))
  BY <1>1, <1>10, <1>16, Joined
<1>18. h \o e \in Seq(Tokens) /\ \A f : ReadOn(f, h \o e) = ReadOn(ReadOn(f, h), e)
  BY <1>4, <1>17, Joined
<1>19. /\ \A f : ReadOn(f, Member("header", s.header)) =
                   ReadOn(ReadOn(f, Key("header")), JsonList(s.header))
       /\ \A f : ReadOn(f, Member("params", s.params)) =
                   ReadOn(ReadOn(f, Key("params")), JsonList(s.params))
  BY <1>2, Joined DEF Member
<1>20. /\ \A f : ReadOn(f, Mark("begin-object")) = Read(f, Token("begin-object", <<>>, 0))
       /\ \A f : ReadOn(f, Mark("value-separator")) = Read(f, Token("value-separator", <<>>, 0))
       /\ \A f : ReadOn(f, Mark("end-object")) = Read(f, Token("end-object", <<>>, 0))
  BY MarkIsRead DEF Marks
<1>21. ASSUME NEW f
       PROVE  ReadOn(f, PrintSection(s, last)) =
                LET header == ReadOn(Read(f, Token("begin-object", <<>>, 0)), Member("header", s.header))
                    params == ReadOn(Read(header, Token("value-separator", <<>>, 0)),
                                     Member("params", s.params))
                IN  ReadOn(Read(params, Token("end-object", <<>>, 0)), e)
  <2>1. PICK u : u = ReadOn(Read(f, Token("begin-object", <<>>, 0)), Member("header", s.header))
    OBVIOUS
  <2>2. ReadOn(f, b) = u
    BY <1>12, <1>13, <1>19, <1>20, <2>1
  <2>3. PICK w : w = ReadOn(Read(u, Token("value-separator", <<>>, 0)), Member("params", s.params))
    OBVIOUS
  <2>4. ReadOn(f, g) = w
    BY <1>14, <1>15, <1>16, <1>19, <1>20, <2>2, <2>3
  <2>5. ReadOn(f, h \o e) = ReadOn(Read(w, Token("end-object", <<>>, 0)), e)
    BY <1>17, <1>18, <1>20, <2>4
  <2> QED BY <1>11, <2>1, <2>3, <2>5
<1> QED BY <1>3, <1>11, <1>18, <1>21

LEMMA SectionIsRead ==
  ASSUME NEW s, PlainList(s.header), PlainList(s.params), ListOk(s.header), NEW last \in BOOLEAN,
         NEW items, NEW next \in {"first", "item"}, NEW outer
  PROVE  LET f == ReadOn(Frame("array", items, next, outer), PrintSection(s, last))
         IN  /\ ListOk(s.params) =>
                  f = Frame("array", Append(items, SectionValue(s)), IF last THEN "comma" ELSE "item",
                            outer)
             /\ ~ListOk(s.params) => f = Failed
<1>1. PICK f : f = Frame("array", items, next, outer)
  OBVIOUS
<1>2. PICK e : e = IF last THEN <<>> ELSE Mark("value-separator")
  OBVIOUS
<1>3. PICK key1 : key1 = StringValue(<<"header">>)
  OBVIOUS
<1>4. PICK key2 : key2 = StringValue(<<"params">>)
  OBVIOUS
<1>5. PICK val1 : val1 = ListValue(s.header)
  OBVIOUS
<1>6. PICK val2 : val2 = ListValue(s.params)
  OBVIOUS
<1>7. Read(f, Token("begin-object", <<>>, 0)) = Frame("object", <<>>, "first", f)
  BY <1>1, ReadBegin DEF Ready
<1>8. ReadOn(Frame("object", <<>>, "first", f), Member("header", s.header)) =
        Frame("object", <<key1, val1>>, "comma", f)
  <2>1. PICK none : none = <<>>
    OBVIOUS
  <2>2. ReadOn(Frame("object", none, "first", f), Member("header", s.header)) =
          Frame("object", Append(Append(none, key1), val1), "comma", f)
    BY <1>3, <1>5, MemberIsRead DEF Words
  <2>3. Append(<<>>, key1) = <<key1>> /\ Append(<<key1>>, val1) = <<key1, val1>>
    BY Appended
  <2> QED BY <2>1, <2>2, <2>3, Zenon
<1>9. Read(Frame("object", <<key1, val1>>, "comma", f), Token("value-separator", <<>>, 0)) =
        Frame("object", <<key1, val1>>, "item", f)
  BY ReadComma
<1>10. PICK g : g = ReadOn(Frame("object", <<key1, val1>>, "item", f), Member("params", s.params))
  OBVIOUS
<1>11. /\ ListOk(s.params) => g = Frame("object", <<key1, val1, key2, val2>>, "comma", f)
       /\ ~ListOk(s.params) => g = Failed
  <2>1. PICK two : two = <<key1, val1>>
    OBVIOUS
  <2>2. /\ ListOk(s.params) =>
             ReadOn(Frame("object", two, "item", f), Member("params", s.params)) =
               Frame("object", Append(Append(two, key2), val2), "comma", f)
        /\ ~ListOk(s.params) =>
             ReadOn(Frame("object", two, "item", f), Member("params", s.params)) = Failed
    BY <1>4, <1>6, MemberIsRead DEF Words
  <2>3. Append(Append(two, key2), val2) = <<key1, val1, key2, val2>>
    <3>1. Append(<<key1, val1>>, key2) = <<key1, val1, key2>>
      BY AppendedThree
    <3>2. Append(<<key1, val1, key2>>, val2) = <<key1, val1, key2, val2>>
      BY AppendedFour
    <3> QED BY <2>1, <3>1, <3>2, Zenon
  <2> QED BY <1>10, <2>1, <2>2, <2>3, Zenon
<1>12. ReadOn(f, PrintSection(s, last)) = ReadOn(Read(g, Token("end-object", <<>>, 0)), e)
  BY <1>2, <1>7, <1>8, <1>9, <1>10, SectionPieces
<1>13. ASSUME ListOk(s.params)
       PROVE  ReadOn(f, PrintSection(s, last)) =
                Frame("array", Append(items, SectionValue(s)), IF last THEN "comma" ELSE "item", outer)
  <2>1. SectionValue(s) = Value("object", <<key1, val1, key2, val2>>, <<>>, 0)
    BY <1>3, <1>4, <1>5, <1>6 DEF SectionValue
  <2>2. Read(g, Token("end-object", <<>>, 0)) =
          Frame("array", Append(items, SectionValue(s)), "comma", outer)
    BY <1>1, <1>11, <1>13, <2>1, ReadEnd
  <2>3. CASE last
    BY <1>2, <1>12, <2>2, <2>3, ReadOnNothing
  <2>4. CASE ~last
    <3>1. e = Mark("value-separator")
      BY <1>2, <2>4
    <3>2. \A h : ReadOn(h, e) = Read(h, Token("value-separator", <<>>, 0))
      BY <3>1, MarkIsRead DEF Marks
    <3> QED BY <1>12, <2>2, <2>4, <3>2, ReadComma
  <2> QED BY <2>3, <2>4
<1>14. ASSUME ~ListOk(s.params)
       PROVE  ReadOn(f, PrintSection(s, last)) = Failed
  <2>1. Read(g, Token("end-object", <<>>, 0)) = Failed
    BY <1>11, <1>14, MarksOfFailed DEF Marks
  <2>2. e \in Seq(Tokens)
    <3>1. <<>> \in Seq(Tokens)
      OBVIOUS
    <3> QED BY <1>2, <3>1, MarkIsRead DEF Marks
  <2> QED BY <1>12, <2>1, <2>2, FailedStays
<1> QED BY <1>1, <1>13, <1>14

-----------------------------------------------------------------------------
(* Every parameter of a report is in characters.                           *)
LEMMA FlatIn ==
  ASSUME NEW T, NEW N \in Nat, NEW seqs, Len(seqs) = N, N = 0 => seqs = <<>>,
         \A k \in 1 .. N : seqs[k] \in Seq(T)
  PROVE  FlattenSeq(seqs) \in Seq(T)
<1>3. \E F : /\ Joins(seqs, N, F) /\ FlattenSeq(seqs) = F[N]
            /\ \A k \in 0 .. N : F[k] \in Seq(T)
  BY FlattenIs
<1>4. N \in 0 .. N
  OBVIOUS
<1> QED BY <1>3, <1>4

LEMMA RowInChars ==
  ASSUME NEW data \in Seq(Chars)
  PROVE  Row(data) \in Seq(Chars)
<1>1. Space \in Chars /\ "x" \in Chars /\ "." \in Chars
  BY DEF Chars, Spaces, Space
<1>2. DOMAIN data = 1 .. Len(data) /\ \A k \in 1 .. Len(data) : data[k] \in Chars
  OBVIOUS
<1>3. [k \in DOMAIN data |-> IF data[k] \in Printable THEN data[k] ELSE "."] \in Seq(Chars)
  BY <1>1, <1>2
<1>4. <<"x", Space>> \in Seq(Chars)
  BY <1>1
<1> QED BY <1>3, <1>4 DEF Row

LEMMA PieceIn ==
  ASSUME NEW T, NEW data \in Seq(T), NEW m \in Nat \ {0}, NEW n \in Nat
  PROVE  SubSeq(data, m, Min({n, Len(data)})) \in Seq(T)
<1>1. Min({n, Len(data)}) \in {n, Len(data)} /\ Min({n, Len(data)}) <= Len(data)
  <2>1. Len(data) \in Nat
    OBVIOUS
  <2>2. PICK l \in Nat : l = Len(data)
    BY <2>1
  <2>3. Min({n, l}) \in {n, l} /\ Min({n, l}) <= l
    <3>1. PICK S : S = {n, l}
      OBVIOUS
    <3>2. S \subseteq Nat /\ S # {} /\ l \in S
      BY <3>1
    <3>3. Min(S) \in S /\ Min(S) <= l
      BY <3>2, MinOfSet
    <3> QED BY <3>1, <3>3
  <2> QED BY <2>2, <2>3
<1>2. PICK h \in Int : h = Min({n, Len(data)}) /\ h <= Len(data)
  BY <1>1
<1>3. SubSeq(data, m, h) \in Seq(T)
  <2>1. \A i \in m .. h : data[i] \in T
    BY <1>2
  <2> QED BY <2>1, SubSeqProperties
<1> QED BY <1>2, <1>3

LEMMA DumpInChars ==
  ASSUME NEW data \in Seq(Chars)
  PROVE  HexDump(data) \in Seq(Chars)
<1>1. PICK N \in Int : N = (Len(data) + RowBytes - 1) \div RowBytes
  BY ParamsAssumption
<1>2. N \in Nat
  BY <1>1, ParamsAssumption
<1> DEFINE row(r) == SubSeq(data, (r - 1) * RowBytes + 1, Min({r * RowBytes, Len(data)}))
           rows == [r \in 1 .. N |-> (IF r = 1 THEN <<>> ELSE <<"\n">>) \o Row(row(r))]
<1>3. HexDump(data) = FlattenSeq(rows)
  BY <1>1 DEF HexDump
<1>4. ASSUME NEW r \in 1 .. N PROVE rows[r] \in Seq(Chars)
  <2>1. (r - 1) * RowBytes + 1 \in Nat \ {0} /\ r * RowBytes \in Nat
    BY ParamsAssumption
  <2>2. row(r) \in Seq(Chars)
    <3>1. PICK m \in Nat \ {0} : m = (r - 1) * RowBytes + 1
      BY <2>1
    <3>2. PICK n \in Nat : n = r * RowBytes
      BY <2>1
    <3>3. SubSeq(data, m, Min({n, Len(data)})) \in Seq(Chars)
      BY PieceIn
    <3> QED BY <3>1, <3>2, <3>3
  <2>3. Row(row(r)) \in Seq(Chars)
    <3>1. PICK d \in Seq(Chars) : d = row(r)
      BY <2>2
    <3> QED BY <3>1, RowInChars
  <2>4. "\n" \in Chars
    BY DEF Chars, Spaces
  <2>5. <<>> \in Seq(Chars) /\ <<"\n">> \in Seq(Chars)
    BY <2>4
  <2>6. PICK a \in Seq(Chars) : a = IF r = 1 THEN <<>> ELSE <<"\n">>
    BY <2>5
  <2>7. PICK b \in Seq(Chars) : b = Row(row(r))
    BY <2>3
  <2>8. a \o b \in Seq(Chars)
    OBVIOUS
  <2> QED BY <2>6, <2>7, <2>8
<1>5. Len(rows) = N /\ (N = 0 => rows = <<>>)
  BY <1>2
<1> HIDE DEF rows
<1>6. FlattenSeq(rows) \in Seq(Chars)
  BY <1>2, <1>4, <1>5, FlatIn
<1> QED BY <1>3, <1>6

LEMMA TrimmedInChars ==
  ASSUME NEW text \in Seq(Chars)
  PROVE  Trimmed(text) \in Seq(Chars)
<1>1. TextShown(Trimmed(text), text)
  BY TrimmedShows
<1>2. PICK a, b \in 0 .. Len(text) : Trimmed(text) = SubSeq(text, a + 1, b)
  BY <1>1 DEF TextShown
<1>3. \A i \in a + 1 .. b : text[i] \in Chars
  BY <1>2
<1>4. SubSeq(text, a + 1, b) \in Seq(Chars)
  BY <1>2, <1>3
<1> QED BY <1>2, <1>4

(* ... and every list of them says itself to the reader, or is not JSON.   *)
LEMMA ParamsArePlain == \A p \in AnyParam : Plainly(p)
<1>0. <<"x">> \in Seq(Chars) /\ <<"x", Space, "x">> \in Seq(Chars) /\ <<>> \in Seq(Chars)
  <2>1. "x" \in Chars /\ Space \in Chars
    BY DEF Chars, Spaces, Space
  <2> QED BY <2>1
<1>1. ASSUME NEW call \in Calls PROVE Plainly(Collected(call))
  <2>1. /\ call.op \in Ops /\ call.name \in Seq(Chars)
        /\ call.text \in Seq(Chars) \/ (call.op = "string" /\ call.text = Null)
    BY ReportAssumption, Zenon
  <2>2. CASE call.op = "string"
    <3>1. PICK text \in Seq(Chars) : text = IF call.text = Null THEN <<>> ELSE Trimmed(call.text)
      <4>1. CASE call.text = Null
        BY <1>0, <4>1
      <4>2. CASE call.text # Null
        BY <2>1, <4>2, TrimmedInChars
      <4> QED BY <4>1, <4>2
    <3>2. Collected(call) = StringParam(call.name, text)
      BY <2>2, <3>1 DEF Collected
    <3> QED BY <2>1, <3>2 DEF StringParam, Param, Plainly
  <2>3. CASE call.op = "bool"
    <3>1. Collected(call) = Bool(call.name, call.n)
      BY <2>3 DEF Collected
    <3> QED BY <1>0, <2>1, <3>1 DEF Bool, Param, Plainly
  <2>4. CASE call.op = "number"
    <3>1. Collected(call) = PrintNumber(call.name, call.fmt, call.n)
      BY <2>4 DEF Collected
    <3>2. CASE Space \in call.fmt
      BY <1>0, <2>1, <3>1, <3>2 DEF PrintNumber, Formatted, StringParam, Param, Plainly
    <3>3. CASE Space \notin call.fmt
      <4>1. PICK m, w : Collected(call) = Number(call.name, m, w)
        BY <3>1, <3>3 DEF PrintNumber, SaveNumeric
      <4>2. w \in Widths /\ m \in 0 .. Limit(w) - 1
        BY <4>1, CallShows DEF TypedParam, Number, Param
      <4>3. m \in Int
        BY <4>2
      <4> QED BY <1>0, <2>1, <4>1, <4>3 DEF Number, Param, Plainly
    <3> QED BY <3>2, <3>3
  <2>5. CASE call.op = "dump"
    <3>1. call.text \in Seq(Chars) /\ Collected(call) = RawParam(HexDump(call.text))
      BY <2>1, <2>5 DEF Collected
    <3> QED BY <1>0, <3>1, DumpInChars DEF RawParam, Param, Plainly
  <2>6. CASE call.op \in {"heading", "trace", "blank"}
    <3>1. call.text \in Seq(Chars)
      BY <2>1, <2>6
    <3>2. \/ Collected(call) = Heading(call.text) \/ Collected(call) = RawParam(call.text)
          \/ Collected(call) = Blank
      BY <2>6 DEF Collected
    <3>3. Plainly(Heading(call.text))
      BY <1>0, <3>1 DEF Heading, Param, Plainly
    <3>4. Plainly(RawParam(call.text))
      BY <1>0, <3>1 DEF RawParam, Param, Plainly
    <3>5. Plainly(Blank)
      BY <1>0 DEF Blank, Param, Plainly
    <3> QED BY <3>2, <3>3, <3>4, <3>5, Zenon
  <2> QED BY <2>1, <2>2, <2>3, <2>4, <2>5, <2>6 DEF Ops
<1>2. ASSUME NEW data \in Dumped PROVE Plainly(RawParam(HexDump(data)))
  <2>1. data \in Seq(Chars)
    BY <1>0, ReportAssumption DEF Dumped
  <2> QED BY <1>0, <2>1, DumpInChars DEF RawParam, Param, Plainly
<1>3. ASSUME NEW p \in OwnNumbers PROVE Plainly(p)
  <2>1. PICK w \in Widths : p \in {Number(<<"x">>, n, w) : n \in 0 .. Limit(w) - 1}
    BY <1>3 DEF OwnNumbers
  <2>2. PICK n \in 0 .. Limit(w) - 1 : p = Number(<<"x">>, n, w)
    BY <2>1
  <2> QED BY <1>0, <2>2 DEF Number, Param, Plainly
<1>4. ASSUME NEW p \in OwnTexts PROVE Plainly(p)
  <2>1. PICK text \in Texts : p = StringParam(<<"x">>, text)
    BY <1>4 DEF OwnTexts
  <2>2. text \in Seq(Chars)
    BY <1>0, ReportAssumption DEF Texts
  <2> QED BY <1>0, <2>1, <2>2 DEF StringParam, Param, Plainly
<1> QED BY <1>1, <1>2, <1>3, <1>4 DEF AnyParam

LEMMA ListIsPlain ==
  ASSUME NEW S, NEW list \in Seq(S), \A p \in S : Plainly(p)
  PROVE  PlainList(list)
BY DEF PlainList

(* The parameters that every header and SEL record have.                   *)
Tame(p) == Plainly(p) /\ ParamOk(p) /\ p.type # "blank"

LEMMA TameList ==
  ASSUME NEW S, NEW list \in Seq(S), \A p \in S : Tame(p)
  PROVE  PlainList(list) /\ ListOk(list)
<1>1. PlainList(list)
  BY ListIsPlain DEF Tame
<1>2. \A i \in 1 .. Len(list) : ParamOk(list[i]) /\ list[i].type # "blank"
  BY DEF Tame
<1>3. Len(list) # 0 => Len(list) \in 1 .. Len(list)
  OBVIOUS
<1> QED BY <1>1, <1>2, <1>3 DEF ListOk, AllOk

LEMMA NamesAreTame ==
  /\ \A n \in Int : \A w : Tame(Number(<<"x">>, n, w))
  /\ \A text \in {<<"x">>, <<"x", Space, "x">>} : Tame(StringParam(<<"x">>, text))
<1>1. "x" \in Chars /\ Space \in Chars /\ "x" \notin Dirty /\ Space \notin Dirty
  BY DEF Chars, Spaces, Space, Dirty
<1>2. <<"x">> \in Seq(Chars) /\ IsClean(<<"x">>)
  BY <1>1 DEF IsClean
<1>3. <<"x", Space, "x">> \in Seq(Chars) /\ IsClean(<<"x", Space, "x">>)
  BY <1>1 DEF IsClean
<1>4. <<>> \in Seq(Chars) /\ IsClean(<<>>)
  BY DEF IsClean
<1> QED BY <1>2, <1>3, <1>4 DEF Tame, Plainly, ParamOk, Number, StringParam, Param

LEMMA HeadersAreTame ==
  /\ \A n \in Int : PlainList(HeaderParams(n)) /\ ListOk(HeaderParams(n))
  /\ PlainList(SelParams) /\ ListOk(SelParams) /\ SelParams # <<>>
<1> DEFINE A == UNION {{Number(<<"x">>, m, w) : m \in Int} : w \in Widths}
           B == {StringParam(<<"x">>, text) : text \in {<<"x">>, <<"x", Space, "x">>}}
           S == A \cup B
<1>1. \A p \in A : Tame(p)
  <2> SUFFICES ASSUME NEW w \in Widths, NEW p \in {Number(<<"x">>, m, w) : m \in Int}
               PROVE  Tame(p)
    OBVIOUS
  <2> QED BY NamesAreTame
<1>2. \A p \in S : Tame(p)
  <2> HIDE DEF A
  <2> QED BY <1>1, NamesAreTame
<1>3. ASSUME NEW m \in Int, NEW w \in Widths PROVE Number(<<"x">>, m, w) \in S
  OBVIOUS
<1>4. ASSUME NEW text \in {<<"x">>, <<"x", Space, "x">>} PROVE StringParam(<<"x">>, text) \in S
  OBVIOUS
<1> HIDE DEF A, B, S
<1>5. ASSUME NEW n \in Int PROVE PlainList(HeaderParams(n)) /\ ListOk(HeaderParams(n))
  <2>1. /\ StringParam(<<"x">>, <<"x", Space, "x">>) \in S /\ Number(<<"x">>, n, 2) \in S
        /\ Number(<<"x">>, 1, 1) \in S /\ Number(<<"x">>, 0, 1) \in S
        /\ StringParam(<<"x">>, <<"x">>) \in S
    BY <1>3, <1>4 DEF Widths
  <2>2. HeaderParams(n) \in Seq(S)
    BY <2>1 DEF HeaderParams
  <2>3. PICK list \in Seq(S) : list = HeaderParams(n)
    BY <2>2
  <2> QED BY <1>2, <2>3, TameList
<1>6. \A i \in 1 .. 11 : SelParams[i] \in S
  <2> TAKE i \in 1 .. 11
  <2>1. PICK w \in Widths : SelParams[i] = Number(<<"x">>, i, w)
    BY DEF SelParams, Widths
  <2> QED BY <1>3, <2>1
<1>7. SelParams \in Seq(S) /\ SelParams # <<>>
  <2>1. SelParams = [i \in 1 .. 11 |-> SelParams[i]]
    BY DEF SelParams
  <2>2. PICK n \in Nat : n = 11
    OBVIOUS
  <2>3. SelParams \in [1 .. n -> S]
    BY <1>6, <2>1, <2>2
  <2>4. SelParams \in Seq(S) /\ Len(SelParams) = n
    BY <2>3
  <2>5. Len(<<>>) = 0
    OBVIOUS
  <2>6. SelParams # <<>>
    <3> SUFFICES ASSUME SelParams = <<>> PROVE FALSE
      OBVIOUS
    <3>1. Len(SelParams) = 0
      BY <2>5, Zenon
    <3> QED BY <2>2, <2>4, <3>1
  <2> QED BY <2>4, <2>6
<1>8. PICK list \in Seq(S) : list = SelParams
  BY <1>7
<1> QED BY <1>2, <1>5, <1>7, <1>8, TameList

-----------------------------------------------------------------------------
(* What the reader has in front of it: in the array of sections, as many   *)
(* as are printed, behind the SEL record; and in the end the whole report. *)
HeadItems(list) ==
  Append(IF list = <<>> THEN <<>> ELSE <<StringValue(<<"sel">>), ListValue(list)>>,
         StringValue(<<"sections">>))

Around(list) == Frame("object", HeadItems(list), "value", Unread)

SectionValues(list, n) == [i \in 1 .. n |-> SectionValue(list[i])]
AllWritable(list, n)   == \A i \in 1 .. n : ListOk(list[i].params)

Midway(list, n) == IF n = 0 THEN "first" ELSE IF n = Len(list) THEN "comma" ELSE "item"

ReadSoFar(n) ==
  reader = IF AllWritable(sections, n)
             THEN Frame("array", SectionValues(sections, n), Midway(sections, n), Around(sel))
             ELSE Failed

ReadWhole ==
  reader = IF AllWritable(sections, Len(sections))
             THEN Frame("top", <<ReportValue(sel, sections)>>, "comma", <<>>)
             ELSE Failed

ReaderInv ==
  /\ printed \in -1 .. Len(sections) + 1
  /\ printed = -1 => reader = Unread
  /\ printed # -1 => cur = <<>> /\ sections # <<>>
  /\ printed \in 0 .. Len(sections) => ReadSoFar(printed)
  /\ Printed => ReadWhole

LEMMA GrownBy ==
  ASSUME NEW V, NEW n \in Nat, NEW f, \A i \in 1 .. n + 1 : f[i] \in V
  PROVE  Append([i \in 1 .. n |-> f[i]], f[n + 1]) = [i \in 1 .. n + 1 |-> f[i]]
<1>1. PICK s : s = [i \in 1 .. n |-> f[i]]
  OBVIOUS
<1>2. PICK u : u = [i \in 1 .. n + 1 |-> f[i]]
  OBVIOUS
<1>3. s \in Seq(V) /\ Len(s) = n /\ \A i \in 1 .. n : s[i] = f[i]
  <2>1. \A i \in 1 .. n : f[i] \in V
    OBVIOUS
  <2>2. s \in [1 .. n -> V]
    BY <1>1, <2>1
  <2> QED BY <1>1, <2>2
<1>4. u \in Seq(V) /\ Len(u) = n + 1 /\ \A i \in 1 .. n + 1 : u[i] = f[i]
  <2>1. PICK m \in Nat : m = n + 1
    OBVIOUS
  <2>2. u \in [1 .. m -> V]
    BY <1>2, <2>1
  <2> QED BY <1>2, <2>1, <2>2
<1>5. PICK c \in V : c = f[n + 1]
  OBVIOUS
<1>6. Append(s, c) \in Seq(V) /\ Len(Append(s, c)) = Len(s) + 1
  BY <1>3, AppendProperties
<1>7. Append(s, c)[Len(s) + 1] = c /\ \A i \in 1 .. Len(s) : Append(s, c)[i] = s[i]
  BY <1>3, AppendProperties
<1>8. PICK t : t = Append(s, c)
  OBVIOUS
<1>9. t \in Seq(V) /\ Len(t) = n + 1 /\ \A i \in 1 .. n + 1 : t[i] = f[i]
  BY <1>3, <1>5, <1>6, <1>7, <1>8
<1>10. t = u
  BY <1>4, <1>9, SeqEqual
<1> QED BY <1>1, <1>2, <1>5, <1>8, <1>10

LEMMA ValuesGrow ==
  ASSUME NEW list, NEW n \in Nat
  PROVE  /\ SectionValues(list, 0) = <<>>
         /\ Append(SectionValues(list, n), SectionValue(list[n + 1])) = SectionValues(list, n + 1)
<1>1. SectionValues(list, 0) = <<>>
  BY DEF SectionValues
<1>2. PICK f : f = [i \in 1 .. n + 1 |-> SectionValue(list[i])]
  OBVIOUS
<1>3. PICK V : V = {f[i] : i \in 1 .. n + 1}
  OBVIOUS
<1>4. \A i \in 1 .. n + 1 : f[i] \in V /\ f[i] = SectionValue(list[i])
  BY <1>2, <1>3
<1>5. Append([i \in 1 .. n |-> f[i]], f[n + 1]) = [i \in 1 .. n + 1 |-> f[i]]
  BY <1>4, GrownBy
<1>6. /\ [i \in 1 .. n |-> f[i]] = SectionValues(list, n)
      /\ [i \in 1 .. n + 1 |-> f[i]] = SectionValues(list, n + 1)
      /\ f[n + 1] = SectionValue(list[n + 1])
  BY <1>4 DEF SectionValues
<1> QED BY <1>1, <1>5, <1>6

LEMMA SelIsRead ==
  ASSUME NEW list, PlainList(list), ListOk(list)
  PROVE  LET part == Key("sel") \o JsonList(list) \o Mark("value-separator")
         IN  /\ part \in Seq(Tokens)
             /\ ReadOn(Frame("object", <<>>, "first", Unread), part) =
                  Frame("object", <<StringValue(<<"sel">>), ListValue(list)>>, "item", Unread)
<1>1. PICK m : m = Member("sel", list)
  OBVIOUS
<1>2. PICK key : key = StringValue(<<"sel">>)
  OBVIOUS
<1>3. PICK val : val = ListValue(list)
  OBVIOUS
<1>4. PICK none : none = <<>>
  OBVIOUS
<1>5. /\ m \in Seq(Tokens)
      /\ ReadOn(Frame("object", none, "first", Unread), m) =
           Frame("object", Append(Append(none, key), val), "comma", Unread)
  BY <1>1, <1>2, <1>3, MemberIsRead DEF Words
<1>6. Append(<<>>, key) = <<key>> /\ Append(<<key>>, val) = <<key, val>>
  BY Appended
<1>7. ReadOn(Frame("object", <<>>, "first", Unread), m) = Frame("object", <<key, val>>, "comma", Unread)
  BY <1>4, <1>5, <1>6, Zenon
<1>8. PICK e : e = Mark("value-separator")
  OBVIOUS
<1>9. e \in Seq(Tokens) /\ \A f : ReadOn(f, e) = Read(f, Token("value-separator", <<>>, 0))
  BY <1>8, MarkIsRead DEF Marks
<1>10. PICK f : f = Frame("object", <<>>, "first", Unread)
  OBVIOUS
<1>11. m \o e \in Seq(Tokens) /\ ReadOn(f, m \o e) = ReadOn(ReadOn(f, m), e)
  BY <1>5, <1>9, Joined
<1>12. Read(Frame("object", <<key, val>>, "comma", Unread), Token("value-separator", <<>>, 0)) =
         Frame("object", <<key, val>>, "item", Unread)
  BY ReadComma
<1>13. Key("sel") \o JsonList(list) \o Mark("value-separator") = m \o e
  BY <1>1, <1>8, Zenon DEF Member
<1> QED BY <1>2, <1>3, <1>7, <1>9, <1>10, <1>11, <1>12, <1>13

LEMMA HeadIsRead ==
  ASSUME NEW list, list # <<>> => PlainList(list) /\ ListOk(list)
  PROVE  ReadOn(Unread, PrintHead(list)) = Frame("array", <<>>, "first", Around(list))
<1>1. PICK items : items = IF list = <<>> THEN <<>> ELSE <<StringValue(<<"sel">>), ListValue(list)>>
  OBVIOUS
<1>2. PICK part : part = IF list = <<>> THEN <<>>
                         ELSE Key("sel") \o JsonList(list) \o Mark("value-separator")
  OBVIOUS
<1>3. PICK f : f = Frame("object", <<>>, "first", Unread)
  OBVIOUS
<1>4. part \in Seq(Tokens) /\ \E next \in {"first", "item"} :
                                ReadOn(f, part) = Frame("object", items, next, Unread)
  <2>1. CASE list = <<>>
    <3>1. part = <<>> /\ items = <<>>
      BY <1>1, <1>2, <2>1
    <3>2. part \in Seq(Tokens)
      <4>1. <<>> \in Seq(Tokens)
        OBVIOUS
      <4> QED BY <3>1, <4>1
    <3>3. ReadOn(f, part) = f
      BY <3>1, ReadOnNothing
    <3>4. ReadOn(f, part) = Frame("object", items, "first", Unread)
      BY <1>3, <3>1, <3>3
    <3> QED BY <3>2, <3>4
  <2>2. CASE list # <<>>
    <3>1. part = Key("sel") \o JsonList(list) \o Mark("value-separator")
      BY <1>2, <2>2
    <3>2. part \in Seq(Tokens) /\ ReadOn(f, part) = Frame("object", items, "item", Unread)
      BY <1>1, <1>3, <2>2, <3>1, SelIsRead
    <3> QED BY <3>2
  <2> QED BY <2>1, <2>2
<1>5. PICK b : b = Mark("begin-object")
  OBVIOUS
<1>6. PICK e : e = Mark("begin-array")
  OBVIOUS
<1>7. /\ b \in Seq(Tokens) /\ e \in Seq(Tokens)
      /\ \A g : ReadOn(g, b) = Read(g, Token("begin-object", <<>>, 0))
      /\ \A g : ReadOn(g, e) = Read(g, Token("begin-array", <<>>, 0))
  BY <1>5, <1>6, MarkIsRead DEF Marks
<1>8. PICK k : k = Key("sections")
  OBVIOUS
<1>9. /\ k \in Seq(Tokens)
      /\ \A next \in {"first", "item"} :
           ReadOn(Frame("object", items, next, Unread), k) =
             Frame("object", Append(items, StringValue(<<"sections">>)), "value", Unread)
  BY <1>8, KeyIsRead DEF Words
<1>10. PICK c : c = b \o part
  OBVIOUS
<1>11. PICK d : d = c \o k
  OBVIOUS
<1>12. PrintHead(list) = d \o e
  BY <1>2, <1>5, <1>6, <1>8, <1>10, <1>11, Zenon DEF PrintHead
<1>13. c \in Seq(Tokens) /\ ReadOn(Unread, c) = ReadOn(ReadOn(Unread, b), part)
  BY <1>4, <1>7, <1>10, Joined
<1>14. d \in Seq(Tokens) /\ ReadOn(Unread, d) = ReadOn(ReadOn(Unread, c), k)
  BY <1>9, <1>11, <1>13, Joined
<1>15. ReadOn(Unread, d \o e) = ReadOn(ReadOn(Unread, d), e)
  BY <1>7, <1>14, Joined
<1>16. ReadOn(Unread, b) = f
  <2>1. Unread = Frame("top", <<>>, "first", <<>>)
    BY DEF Unread, Open
  <2>2. Read(Unread, Token("begin-object", <<>>, 0)) = Frame("object", <<>>, "first", Unread)
    BY <2>1, ReadBegin DEF Ready
  <2> QED BY <1>3, <1>7, <2>2
<1>17. ReadOn(Unread, d) = Around(list)
  <2>1. ReadOn(Unread, d) = Frame("object", Append(items, StringValue(<<"sections">>)), "value", Unread)
    BY <1>4, <1>9, <1>13, <1>14, <1>16
  <2> QED BY <1>1, <2>1, Zenon DEF Around, HeadItems
<1>18. Read(Around(list), Token("begin-array", <<>>, 0)) = Frame("array", <<>>, "first", Around(list))
  BY ReadBegin DEF Around, Ready
<1> QED BY <1>7, <1>12, <1>15, <1>17, <1>18

LEMMA ConcatPairs ==
  ASSUME NEW a, NEW b, NEW c, NEW d
  PROVE  <<>> \o <<c, d>> = <<c, d>> /\ <<a, b>> \o <<c, d>> = <<a, b, c, d>>
<1>1. PICK S : S = {a, b, c, d}
  OBVIOUS
<1>2. PICK s : s = <<a, b>>
  OBVIOUS
<1>3. PICK r : r = <<c, d>>
  OBVIOUS
<1>4. s \in Seq(S) /\ Len(s) = 2 /\ s[1] = a /\ s[2] = b
  BY <1>1, <1>2
<1>5. r \in Seq(S) /\ Len(r) = 2 /\ r[1] = c /\ r[2] = d
  BY <1>1, <1>3
<1>6. PICK t : t = s \o r
  OBVIOUS
<1>7. t \in Seq(S) /\ Len(t) = 4
  <2>1. t \in Seq(S) /\ Len(t) = Len(s) + Len(r)
    BY <1>4, <1>5, <1>6, ConcatProperties
  <2> QED BY <1>4, <1>5, <2>1
<1>8. t[1] = a /\ t[2] = b /\ t[3] = c /\ t[4] = d
  <2>1. \A i \in 1 .. Len(s) + Len(r) :
          (s \o r)[i] = IF i <= Len(s) THEN s[i] ELSE r[i - Len(s)]
    BY <1>4, <1>5, ConcatProperties
  <2>2. t[1] = s[1] /\ t[2] = s[2]
    BY <1>4, <1>5, <1>6, <2>1
  <2>3. \A i \in {1, 2} : t[i + 2] = r[i]
    <3> TAKE i \in {1, 2}
    <3>1. i + 2 \in 1 .. Len(s) + Len(r) /\ ~(i + 2 <= Len(s)) /\ (i + 2) - Len(s) = i
      BY <1>4, <1>5
    <3> QED BY <1>6, <2>1, <3>1
  <2>4. t[3] = r[1] /\ t[4] = r[2]
    BY <2>3
  <2> QED BY <1>4, <1>5, <2>2, <2>4
<1>9. t = <<t[1], t[2], t[3], t[4]>>
  <2>1. t \in Seq(S) /\ Len(t) = 4
    BY <1>7
  <2> QED BY <2>1
<1>10. <<>> \o r = r
  BY <1>5
<1> QED BY <1>2, <1>3, <1>6, <1>8, <1>9, <1>10

LEMMA ReportIs ==
  ASSUME NEW list, NEW secs, NEW n \in Nat, DOMAIN secs = 1 .. n
  PROVE  ReportValue(list, secs) =
           Value("object", Append(HeadItems(list), Value("array", SectionValues(secs, n), <<>>, 0)),
                 <<>>, 0)
<1>1. PICK key : key = StringValue(<<"sections">>)
  OBVIOUS
<1>2. PICK all : all = Value("array", SectionValues(secs, n), <<>>, 0)
  OBVIOUS
<1>3. PICK sels : sels = StringValue(<<"sel">>)
  OBVIOUS
<1>4. PICK vals : vals = ListValue(list)
  OBVIOUS
<1>5. [i \in DOMAIN secs |-> SectionValue(secs[i])] = SectionValues(secs, n)
  BY DEF SectionValues
<1>6. ReportValue(list, secs) =
        Value("object", (IF list = <<>> THEN <<>> ELSE <<sels, vals>>) \o <<key, all>>, <<>>, 0)
  BY <1>1, <1>2, <1>3, <1>4, <1>5, Zenon DEF ReportValue
<1>7. HeadItems(list) = Append(IF list = <<>> THEN <<>> ELSE <<sels, vals>>, key)
  BY <1>1, <1>3, <1>4, Zenon DEF HeadItems
<1>8. <<>> \o <<key, all>> = <<key, all>> /\ <<sels, vals>> \o <<key, all>> = <<sels, vals, key, all>>
  BY ConcatPairs
<1>9. Append(<<>>, key) = <<key>> /\ Append(<<key>>, all) = <<key, all>>
  BY Appended
<1>10. Append(<<sels, vals>>, key) = <<sels, vals, key>>
  BY AppendedThree
<1>11. Append(<<sels, vals, key>>, all) = <<sels, vals, key, all>>
  BY AppendedFour
<1>12. CASE list = <<>>
  <2>1. (IF list = <<>> THEN <<>> ELSE <<sels, vals>>) = <<>>
    BY <1>12
  <2>2. Append(HeadItems(list), all) = <<key, all>>
    BY <1>7, <1>9, <2>1, Zenon
  <2> QED BY <1>2, <1>6, <1>8, <2>1, <2>2, Zenon
<1>13. CASE list # <<>>
  <2>1. (IF list = <<>> THEN <<>> ELSE <<sels, vals>>) = <<sels, vals>>
    BY <1>13
  <2>2. Append(HeadItems(list), all) = <<sels, vals, key, all>>
    BY <1>7, <1>10, <1>11, <2>1, Zenon
  <2> QED BY <1>2, <1>6, <1>8, <2>1, <2>2, Zenon
<1> QED BY <1>12, <1>13

LEMMA TailPieces ==
  /\ PrintTail \in Seq(Tokens)
  /\ \A f : ReadOn(f, PrintTail) =
              Read(Read(f, Token("end-array", <<>>, 0)), Token("end-object", <<>>, 0))
<1>1. PICK a : a = Mark("end-array")
  OBVIOUS
<1>2. PICK b : b = Mark("end-object")
  OBVIOUS
<1>3. /\ a \in Seq(Tokens) /\ b \in Seq(Tokens)
      /\ \A f : ReadOn(f, a) = Read(f, Token("end-array", <<>>, 0))
      /\ \A f : ReadOn(f, b) = Read(f, Token("end-object", <<>>, 0))
  BY <1>1, <1>2, MarkIsRead DEF Marks
<1>4. PrintTail = a \o b
  BY <1>1, <1>2 DEF PrintTail
<1>5. a \o b \in Seq(Tokens) /\ \A f : ReadOn(f, a \o b) = ReadOn(ReadOn(f, a), b)
  BY <1>3, Joined
<1> QED BY <1>3, <1>4, <1>5

LEMMA TailIsRead ==
  ASSUME NEW items, NEW next \in {"first", "comma"}, NEW list
  PROVE  ReadOn(Frame("array", items, next, Around(list)), PrintTail) =
           Frame("top", <<Value("object", Append(HeadItems(list), Value("array", items, <<>>, 0)),
                                <<>>, 0)>>, "comma", <<>>)
<1>1. PICK h : h = HeadItems(list)
  OBVIOUS
<1>2. PICK v : v = Value("array", items, <<>>, 0)
  OBVIOUS
<1>3. PICK none : none = <<>>
  OBVIOUS
<1>4. PICK top : top = Frame("top", none, "first", <<>>)
  OBVIOUS
<1>5. Unread = top
  BY <1>3, <1>4 DEF Unread, Open
<1>6. Around(list) = Frame("object", h, "value", top)
  BY <1>1, <1>5 DEF Around
<1>7. Read(Frame("array", items, next, Around(list)), Token("end-array", <<>>, 0)) =
        Frame("object", Append(h, v), "comma", top)
  BY <1>2, <1>6, ReadEnd
<1>8. PICK w : w = Value("object", Append(h, v), <<>>, 0)
  OBVIOUS
<1>9. Read(Frame("object", Append(h, v), "comma", top), Token("end-object", <<>>, 0)) =
        Frame("top", Append(none, w), "comma", <<>>)
  <2>1. PICK k : k = Append(h, v)
    OBVIOUS
  <2>2. Read(Frame("object", k, "comma", top), Token("end-object", <<>>, 0)) =
          Frame("top", Append(none, Value("object", k, <<>>, 0)), "comma", <<>>)
    BY <1>4, ReadEnd
  <2> QED BY <1>8, <2>1, <2>2
<1>10. Append(<<>>, w) = <<w>>
  BY Appended
<1>11. ReadOn(Frame("array", items, next, Around(list)), PrintTail) =
         Frame("top", Append(none, w), "comma", <<>>)
  BY <1>7, <1>9, TailPieces
<1> QED BY <1>1, <1>2, <1>3, <1>8, <1>10, <1>11, Zenon

-----------------------------------------------------------------------------
LEMMA SectionsArePlain ==
  ASSUME ReportInv, NEW i \in 1 .. Len(sections)
  PROVE  /\ PlainList(sections[i].header) /\ ListOk(sections[i].header)
         /\ PlainList(sections[i].params)
<1>1. sections[i] \in Sections
  BY DEF ReportInv
<1>2. PICK s \in Sections : s = sections[i]
  BY <1>1
<1>3. s.params \in Seq(AnyParam)
  BY DEF Sections
<1>4. PICK data \in Dumped : s.header = HeaderParams(Len(data))
  BY DEF Sections
<1>5. Len(data) \in Int
  <2>1. data \in Seq(Chars)
    <3>1. <<>> \in Seq(Chars)
      OBVIOUS
    <3> QED BY <3>1, ReportAssumption DEF Dumped
  <2> QED BY <2>1
<1>6. PICK n \in Int : n = Len(data)
  BY <1>5
<1>7. PlainList(HeaderParams(n)) /\ ListOk(HeaderParams(n))
  BY HeadersAreTame
<1>8. PICK list \in Seq(AnyParam) : list = s.params
  BY <1>3
<1>9. PlainList(list)
  BY ListIsPlain, ParamsArePlain
<1> QED BY <1>2, <1>4, <1>6, <1>7, <1>8, <1>9

(* One more section: what is printed of it continues what has been read.   *)
LEMMA OneMoreSection ==
  ASSUME ReportInv, NEW n \in 0 .. Len(sections) - 1, ReadSoFar(n)
  PROVE  ReadOn(reader, PrintSection(sections[n + 1], n + 1 = Len(sections))) =
           IF AllWritable(sections, n + 1)
             THEN Frame("array", SectionValues(sections, n + 1), Midway(sections, n + 1), Around(sel))
             ELSE Failed
<1>1. Len(sections) \in Nat /\ n \in Nat /\ n + 1 \in 1 .. Len(sections)
  BY DEF ReportInv
<1>2. PICK s : s = sections[n + 1]
  OBVIOUS
<1>3. PlainList(s.header) /\ ListOk(s.header) /\ PlainList(s.params)
  BY <1>1, <1>2, SectionsArePlain
<1>4. PICK last \in BOOLEAN : last <=> n + 1 = Len(sections)
  OBVIOUS
<1>5. PICK tokens : tokens = PrintSection(s, last)
  OBVIOUS
<1>6. tokens = PrintSection(sections[n + 1], n + 1 = Len(sections))
  <2>1. CASE n + 1 = Len(sections)
    <3>1. last = TRUE /\ (n + 1 = Len(sections)) = TRUE
      BY <1>4, <2>1
    <3> QED BY <1>2, <1>5, <3>1
  <2>2. CASE n + 1 # Len(sections)
    <3>1. last = FALSE /\ (n + 1 = Len(sections)) = FALSE
      BY <1>4, <2>2
    <3> QED BY <1>2, <1>5, <3>1
  <2> QED BY <2>1, <2>2
<1>7. AllWritable(sections, n + 1) <=> AllWritable(sections, n) /\ ListOk(s.params)
  <2>1. \A i \in 1 .. n + 1 : i \in 1 .. n \/ i = n + 1
    BY <1>1
  <2>2. 1 .. n \subseteq 1 .. n + 1 /\ n + 1 \in 1 .. n + 1
    BY <1>1
  <2> QED BY <1>2, <2>1, <2>2 DEF AllWritable
<1>8. CASE AllWritable(sections, n)
  <2>1. PICK items : items = SectionValues(sections, n)
    OBVIOUS
  <2>2. Midway(sections, n) \in {"first", "item"}
    BY <1>1 DEF Midway
  <2>3. PICK next \in {"first", "item"} : next = Midway(sections, n)
    BY <2>2
  <2>4. reader = Frame("array", items, next, Around(sel))
    BY <1>8, <2>1, <2>3 DEF ReadSoFar
  <2>5. /\ ListOk(s.params) =>
             ReadOn(reader, tokens) =
               Frame("array", Append(items, SectionValue(s)), IF last THEN "comma" ELSE "item",
                     Around(sel))
        /\ ~ListOk(s.params) => ReadOn(reader, tokens) = Failed
    BY <1>3, <1>5, <2>4, SectionIsRead
  <2>6. Append(items, SectionValue(s)) = SectionValues(sections, n + 1)
    BY <1>1, <1>2, <2>1, ValuesGrow
  <2>7. Midway(sections, n + 1) = IF last THEN "comma" ELSE "item"
    BY <1>1, <1>4 DEF Midway
  <2> QED BY <1>6, <1>7, <1>8, <2>5, <2>6, <2>7
<1>9. CASE ~AllWritable(sections, n)
  <2>1. reader = Failed
    BY <1>9 DEF ReadSoFar
  <2>2. tokens \in Seq(Tokens)
    BY <1>3, <1>5, SectionPieces
  <2>3. ReadOn(reader, tokens) = Failed
    BY <2>1, <2>2, FailedStays
  <2> QED BY <1>6, <1>7, <1>9, <2>3
<1> QED BY <1>8, <1>9

LEMMA EndIsRead ==
  ASSUME ReportInv, sections # <<>>, ReadSoFar(Len(sections))
  PROVE  ReadOn(reader, PrintTail) =
           IF AllWritable(sections, Len(sections))
             THEN Frame("top", <<ReportValue(sel, sections)>>, "comma", <<>>)
             ELSE Failed
<1>1. sections \in Seq(Sections)
  BY DEF ReportInv
<1>2. PICK n \in Nat : n = Len(sections) /\ n # 0 /\ DOMAIN sections = 1 .. n
  BY <1>1
<1>3. CASE AllWritable(sections, n)
  <2>1. PICK items : items = SectionValues(sections, n)
    OBVIOUS
  <2>2. Midway(sections, n) = "comma"
    BY <1>2 DEF Midway
  <2>3. reader = Frame("array", items, "comma", Around(sel))
    BY <1>2, <1>3, <2>1, <2>2 DEF ReadSoFar
  <2>4. ReadOn(reader, PrintTail) =
          Frame("top", <<Value("object", Append(HeadItems(sel), Value("array", items, <<>>, 0)),
                               <<>>, 0)>>, "comma", <<>>)
    BY <2>3, TailIsRead
  <2>5. ReportValue(sel, sections) =
          Value("object", Append(HeadItems(sel), Value("array", items, <<>>, 0)), <<>>, 0)
    BY <1>2, <2>1, ReportIs
  <2> QED BY <1>2, <1>3, <2>4, <2>5
<1>4. CASE ~AllWritable(sections, n)
  <2>1. reader = Failed
    BY <1>2, <1>4 DEF ReadSoFar
  <2>2. ReadOn(reader, PrintTail) = Failed
    BY <2>1, TailPieces, FailedStays
  <2> QED BY <1>2, <1>4, <2>2
<1> QED BY <1>3, <1>4

(* One more piece on the screen.                                           *)
LEMMA PrintStep ==
  ASSUME ReportInv, ReaderInv, PrintReport
  PROVE  ReaderInv'
<1>1. /\ cur = <<>> /\ sections # <<>> /\ printed <= Len(sections) /\ printed' = printed + 1
      /\ UNCHANGED <<sel, sections, cur>>
      /\ reader' = ReadOn(reader,
           IF printed = -1 THEN PrintHead(sel)
           ELSE IF printed = Len(sections) THEN PrintTail
           ELSE PrintSection(sections[printed + 1], printed + 1 = Len(sections)))
  BY DEF PrintReport
<1>2. Len(sections) \in Nat /\ Len(sections) # 0
  <2>1. sections \in Seq(Sections)
    BY DEF ReportInv
  <2> QED BY <1>1, <2>1
<1>3. printed \in -1 .. Len(sections) + 1
  BY DEF ReaderInv
<1>4. printed' \in 0 .. Len(sections) + 1 /\ printed' # -1
  BY <1>1, <1>2, <1>3
<1>5. CASE printed = -1
  <2>1. reader = Unread /\ reader' = ReadOn(reader, PrintHead(sel))
    BY <1>1, <1>5 DEF ReaderInv
  <2>2. sel # <<>> => PlainList(sel) /\ ListOk(sel)
    BY HeadersAreTame DEF ReportInv
  <2>3. reader' = Frame("array", <<>>, "first", Around(sel))
    BY <2>1, <2>2, HeadIsRead
  <2>4. SectionValues(sections, 0) = <<>>
    BY ValuesGrow
  <2>5. AllWritable(sections, 0) /\ Midway(sections, 0) = "first"
    BY DEF AllWritable, Midway
  <2>6. printed' = 0 /\ printed' # Len(sections) + 1
    BY <1>1, <1>2, <1>5
  <2>7. ReadSoFar(0)'
    BY <1>1, <2>3, <2>4, <2>5 DEF ReadSoFar
  <2>8. ReadSoFar(printed)'
    BY <2>6, <2>7 DEF ReadSoFar
  <2> QED BY <1>1, <1>4, <2>6, <2>8 DEF ReaderInv, Printed
<1>6. CASE printed \in 0 .. Len(sections) - 1
  <2>1. ReadSoFar(printed) /\ printed # -1 /\ printed # Len(sections)
    BY <1>2, <1>6 DEF ReaderInv
  <2>2. reader' = ReadOn(reader, PrintSection(sections[printed + 1], printed + 1 = Len(sections)))
    BY <1>1, <2>1
  <2>3. reader' = IF AllWritable(sections, printed + 1)
                    THEN Frame("array", SectionValues(sections, printed + 1),
                               Midway(sections, printed + 1), Around(sel))
                    ELSE Failed
    BY <1>6, <2>1, <2>2, OneMoreSection
  <2>4. ReadSoFar(printed)'
    BY <1>1, <2>3 DEF ReadSoFar
  <2>5. printed' # Len(sections) + 1
    BY <1>1, <1>2, <1>6
  <2> QED BY <1>1, <1>4, <2>4, <2>5 DEF ReaderInv, Printed
<1>7. CASE printed = Len(sections)
  <2>1. ReadSoFar(Len(sections)) /\ printed # -1
    BY <1>2, <1>7 DEF ReaderInv
  <2>2. reader' = ReadOn(reader, PrintTail)
    BY <1>1, <1>7, <2>1
  <2>3. ReadWhole'
    BY <1>1, <2>1, <2>2, EndIsRead DEF ReadWhole
  <2>4. printed' \notin 0 .. Len(sections)
    BY <1>1, <1>2, <1>7
  <2> QED BY <1>1, <1>4, <2>3, <2>4 DEF ReaderInv
<1>8. printed = -1 \/ printed \in 0 .. Len(sections) - 1 \/ printed = Len(sections)
  BY <1>1, <1>2, <1>3
<1> QED BY <1>5, <1>6, <1>7, <1>8

(* Nothing is printed before every section is parsed.                      *)
LEMMA NotYetPrinted ==
  ASSUME printed = -1, reader = Unread, UNCHANGED <<printed, reader>>,
         NEW T, sections' \in Seq(T)
  PROVE  ReaderInv'
<1>1. Len(sections') \in Nat
  OBVIOUS
<1>2. printed' = -1 /\ reader' = Unread
  OBVIOUS
<1>3. /\ printed' \in -1 .. Len(sections') + 1 /\ printed' # Len(sections') + 1
      /\ printed' \notin 0 .. Len(sections')
  BY <1>1, <1>2
<1> QED BY <1>2, <1>3 DEF ReaderInv, Printed

LEMMA ReaderStep ==
  ReportInv /\ ReportInv' /\ ReaderInv /\ [Next]_vars => ReaderInv'
<1> SUFFICES ASSUME ReportInv, ReportInv', ReaderInv, [Next]_vars PROVE ReaderInv'
  OBVIOUS
<1>0. sections' \in Seq(Sections)
  BY DEF ReportInv
<1>1. CASE Startup \/ Shutdown \/ UNCHANGED vars
  <2>1. UNCHANGED <<sel, sections, cur, printed, reader>>
    BY <1>1 DEF Startup, Shutdown, reportVars, vars
  <2> QED BY <2>1 DEF ReaderInv, ReadSoFar, ReadWhole, Printed
<1>2. CASE PrintReport
  BY <1>2, PrintStep
<1>3. CASE Finish
  <2>1. sections' = <<>> /\ printed' = -1 /\ reader' = Unread
    BY <1>3 DEF Finish
  <2>2. Len(sections') = 0
    BY <2>1
  <2>3. /\ printed' \in -1 .. Len(sections') + 1 /\ printed' # Len(sections') + 1
        /\ printed' \notin 0 .. Len(sections')
    BY <2>1, <2>2
  <2> QED BY <2>1, <2>3 DEF ReaderInv, Printed
<1>4. ASSUME NEW s, Parsing, Begin(s) PROVE ReaderInv'
  <2>1. printed = -1 /\ UNCHANGED <<printed, reader>>
    BY <1>4 DEF Parsing, Begin
  <2>2. reader = Unread
    BY <2>1 DEF ReaderInv
  <2> QED BY <1>0, <2>1, <2>2, NotYetPrinted
<1>5. CASE ParseUnknown
  BY <1>4, <1>5 DEF ParseUnknown
<1>6. ASSUME NEW key \in Keys, ParseHeader(key) PROVE ReaderInv'
  BY <1>4, <1>6 DEF ParseHeader
<1>7. ASSUME NEW id \in CompIds, NEW payload \in Payloads, ParseUD(id, payload) PROVE ReaderInv'
  BY <1>4, <1>7 DEF ParseUD
<1>8. ASSUME NEW rc \in RefCodes, ParsePS(rc) PROVE ReaderInv'
  BY <1>4, <1>8 DEF ParsePS
<1>9. ASSUME \/ \E call \in Calls : Callback(call)
             \/ \E ok \in BOOLEAN : Return(ok)
      PROVE  ReaderInv'
  <2>1. cur # <<>> /\ UNCHANGED <<printed, reader>>
    BY <1>9 DEF Callback, Return
  <2>2. printed = -1 /\ reader = Unread
    BY <2>1 DEF ReaderInv
  <2> QED BY <1>0, <2>1, <2>2, NotYetPrinted
<1> QED BY <1>1, <1>2, <1>3, <1>5, <1>6, <1>7, <1>8, <1>9 DEF Next

(* Whatever is on the screen, the reader is in the array of sections, as   *)
(* many of them behind it as are printed, or knows that it is not JSON.    *)
THEOREM ReaderInvariance == Spec => []ReaderInv
<1>1. Init => ReaderInv
  <2> SUFFICES ASSUME Init PROVE ReaderInv
    OBVIOUS
  <2>1. sections = <<>> /\ printed = -1 /\ reader = Unread
    BY DEF Init
  <2>2. Len(sections) = 0
    BY <2>1
  <2>3. /\ printed \in -1 .. Len(sections) + 1 /\ printed # Len(sections) + 1
        /\ printed \notin 0 .. Len(sections)
    BY <2>1, <2>2
  <2> QED BY <2>1, <2>3 DEF ReaderInv, Printed
<1> QED BY <1>1, ReaderStep, ReportInvariance, PTL DEF Spec

(* A list is written so that it is read back exactly if no comma is left   *)
(* over and every character has an escape.                                 *)
LEMMA ListIsRepresentable ==
  ASSUME NEW list \in Seq(AnyParam)
  PROVE  ListOk(list) <=>
           /\ list # <<>> /\ list[Len(list)].type = "blank" =>
                \A j \in DOMAIN list : list[j].type = "blank"
           /\ \A j \in DOMAIN list :
                {"ctrl", "vt"} \cap (Range(list[j].text) \cup Range(list[j].name)) = {}
<1>1. PICK n \in Nat : n = Len(list) /\ DOMAIN list = 1 .. n /\ (n = 0 <=> list = <<>>)
  OBVIOUS
<1>2. ASSUME NEW text \in Seq(Chars)
      PROVE  IsClean(text) <=> {"ctrl", "vt"} \cap Range(text) = {}
  BY DEF IsClean, Dirty, Range
<1>3. ASSUME NEW j \in 1 .. n
      PROVE  ParamOk(list[j]) <=>
               {"ctrl", "vt"} \cap (Range(list[j].text) \cup Range(list[j].name)) = {}
  <2>1. PICK p \in AnyParam : p = list[j]
    BY <1>1
  <2>2. p.text \in Seq(Chars) /\ p.name \in Seq(Chars)
    BY ParamsArePlain DEF Plainly
  <2>3. /\ IsClean(p.text) <=> {"ctrl", "vt"} \cap Range(p.text) = {}
        /\ IsClean(p.name) <=> {"ctrl", "vt"} \cap Range(p.name) = {}
    BY <1>2, <2>2
  <2> QED BY <2>1, <2>3 DEF ParamOk
<1>4. AllOk(list, n) <=>
        \A j \in 1 .. n : {"ctrl", "vt"} \cap (Range(list[j].text) \cup Range(list[j].name)) = {}
  BY <1>3 DEF AllOk
<1> QED BY <1>1, <1>4 DEF ListOk, AllBlank

(* The JSON output says exactly what the report has: whoever reads it back *)
(* finds every section with its header and all its parameters but the      *)
(* blank ones, in order, with the names, texts and numbers they have; and  *)
(* what is not Representable is not JSON at all.                           *)
THEOREM JsonIsTrue == Spec => []JsonShowsReport
<1>1. ReportInv /\ ReaderInv => JsonShowsReport
  <2> SUFFICES ASSUME ReportInv, ReaderInv, Printed
               PROVE  ValueOf(reader) =
                        IF Representable THEN <<ReportValue(sel, sections)>> ELSE <<>>
    BY DEF JsonShowsReport
  <2>1. sections \in Seq(Sections)
    BY DEF ReportInv
  <2>2. PICK n \in Nat : n = Len(sections) /\ DOMAIN sections = 1 .. n
    BY <2>1
  <2>3. ASSUME NEW i \in 1 .. n
        PROVE  LET list == sections[i].params
               IN  ListOk(list) <=>
                     /\ list # <<>> /\ list[Len(list)].type = "blank" =>
                          \A j \in DOMAIN list : list[j].type = "blank"
                     /\ \A j \in DOMAIN list :
                          {"ctrl", "vt"} \cap (Range(list[j].text) \cup Range(list[j].name)) = {}
    <3>1. sections[i] \in Sections
      BY <2>1, <2>2
    <3>2. PICK list \in Seq(AnyParam) : list = sections[i].params
      BY <3>1 DEF Sections
    <3> QED BY <3>2, ListIsRepresentable
  <2>4. AllWritable(sections, n) <=> Representable
    BY <2>2, <2>3 DEF AllWritable, Representable
  <2>5. ReadWhole
    BY DEF ReaderInv
  <2>6. CASE Representable
    <3>1. reader = Frame("top", <<ReportValue(sel, sections)>>, "comma", <<>>)
      BY <2>2, <2>4, <2>5, <2>6 DEF ReadWhole
    <3>2. PICK items : items = <<ReportValue(sel, sections)>>
      OBVIOUS
    <3>3. reader.k = "top" /\ reader.items = items
      BY <3>1, <3>2, FrameIs
    <3> QED BY <2>6, <3>2, <3>3 DEF ValueOf
  <2>7. CASE ~Representable
    <3>1. reader = Failed
      BY <2>2, <2>4, <2>5, <2>7 DEF ReadWhole
    <3>2. reader.k = "failed"
      BY <3>1, FrameIs DEF Failed
    <3> QED BY <2>7, <3>2 DEF ValueOf
  <2> QED BY <2>6, <2>7
<1> QED BY <1>1, ReportInvariance, ReaderInvariance, PTL
=============================================================================
