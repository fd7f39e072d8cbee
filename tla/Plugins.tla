------------------------------- MODULE Plugins -------------------------------
(***************************************************************************)
(* The registry of parser plugins (hbplugins/errlplugins.hpp and .cpp).    *)
(* A plugin is a static object: its constructor adds its function to the   *)
(* factory of its kind under a component id, its destructor removes the    *)
(* id.  A factory is a static object as well, made when it is first asked  *)
(* for.  Nobody fixes the order in which the plugins of several files are  *)
(* constructed; exit destroys all static objects in reverse order.         *)
(***************************************************************************)
EXTENDS Naturals, Sequences, Functions

CONSTANTS
  Plugins,   \* the static plugin objects
  KindOf,    \* the kind of each: User Defined data or SRC
  IdOf,      \* its component id
  CompIds,   \* component ids, also those that no plugin has
  NoPlugin   \* the null function

Kinds == {"data", "src"}

ASSUME PluginAssumption ==
  /\ KindOf \in [Plugins -> Kinds] /\ IdOf \in [Plugins -> CompIds]
  /\ NoPlugin \notin Plugins /\ Plugins \cap Kinds = {}

VARIABLES
  stage,       \* "init", "main" or "exit"
  statics,     \* the static objects, in the order in which they were completed
  dead,        \* destroyed factories
  registered,  \* for each kind, the plugin of each id
  misused      \* history: a factory was used after its end

pluginVars == <<stage, statics, dead, registered, misused>>

(* PluginsFactory::instance() makes the factory the first time.            *)
WithFactory(k) ==
  IF k \in Range(statics) \cup dead THEN statics ELSE Append(statics, k)

Use(k) == misused' = (misused \/ k \in dead)

(* PluginsFactory::add(), emplace: the first plugin of an id stays.        *)
\* mutant: the last one does
AddLast(k, p) ==
  registered' = [registered EXCEPT ![k] =
    [id \in DOMAIN @ \cup {IdOf[p]} |-> IF id = IdOf[p] THEN p ELSE @[id]]]

Add(k, p) ==
  registered' = [registered EXCEPT ![k] =
    [id \in DOMAIN @ \cup {IdOf[p]} |-> IF id \in DOMAIN @ THEN @[id] ELSE p]]

\* mutant: only the function is taken out
EraseFunction(k, id) ==
  registered' = [registered EXCEPT ![k] =
    [i \in DOMAIN @ |-> IF i = id THEN NoPlugin ELSE @[i]]]

(* PluginsFactory::remove() erases the id, whichever plugin it belongs to. *)
Erase(k, id) ==
  registered' = [registered EXCEPT ![k] = [i \in DOMAIN @ \ {id} |-> @[i]]]

(* PluginsFactory::get() *)
Get(k, id) == IF id \in DOMAIN registered[k] THEN registered[k][id] ELSE NoPlugin

PluginInit ==
  /\ stage = "init" /\ statics = <<>> /\ dead = {}
  /\ registered = [k \in Kinds |-> <<>>] /\ misused = FALSE

(* DataPlugin and SrcPlugin: the factory is complete before the plugin is. *)
Construct(p) ==
  /\ stage = "init" /\ p \notin Range(statics)
  /\ statics' = Append(WithFactory(KindOf[p]), p)
  /\ Add(KindOf[p], p) /\ Use(KindOf[p])
  /\ UNCHANGED <<stage, dead>>

EnterMain ==
  /\ stage = "init" /\ Plugins \subseteq Range(statics)
  /\ stage' = "main"
  /\ UNCHANGED <<statics, dead, registered, misused>>

(* A section asks for the factory of its kind. *)
Ask(k) ==
  /\ stage = "main"
  /\ statics' = WithFactory(k) /\ Use(k)
  /\ UNCHANGED <<stage, dead, registered>>

Exit ==
  /\ stage = "main"
  /\ stage' = "exit"
  /\ UNCHANGED <<statics, dead, registered, misused>>

(* ~DataPlugin, ~SrcPlugin and the implicit ~PluginsFactory, last first.   *)
Destroy(o) ==
  /\ stage = "exit" /\ statics # <<>> /\ o = statics[Len(statics)]
  /\ statics' = SubSeq(statics, 1, Len(statics) - 1)
  /\ IF o \in Kinds
       THEN /\ dead' = dead \cup {o}
            /\ registered' = [registered EXCEPT ![o] = <<>>]
            /\ UNCHANGED misused
       ELSE /\ Erase(KindOf[o], IdOf[o]) /\ Use(KindOf[o])
            /\ UNCHANGED dead
  /\ UNCHANGED stage

PluginNext ==
  \/ \E p \in Plugins : Construct(p)
  \/ EnterMain \/ Exit
  \/ \E k \in Kinds : Ask(k)
  \/ \E o \in Plugins \cup Kinds : Destroy(o)

PluginSpec == PluginInit /\ [][PluginNext]_pluginVars

-----------------------------------------------------------------------------
PluginTypeOK ==
  /\ stage \in {"init", "main", "exit"}
  /\ statics \in Seq(Plugins \cup Kinds) /\ dead \subseteq Kinds
  /\ DOMAIN registered = Kinds
  /\ \A k \in Kinds : /\ DOMAIN registered[k] \subseteq CompIds
                      /\ \A id \in DOMAIN registered[k] : registered[k][id] \in Plugins
  /\ misused \in BOOLEAN

(* No constructor, lookup or destructor uses a factory that is destroyed,  *)
(* in whatever order the plugins were constructed (errlplugins.cpp).       *)
FactoryOutlives == ~misused

(* A function that can be called belongs to a plugin that is alive and has *)
(* the id it is registered under.                                          *)
RegisteredIsAlive ==
  \A k \in Kinds : \A id \in DOMAIN registered[k] :
    LET p == registered[k][id]
    IN  p \in Range(statics) /\ KindOf[p] = k /\ IdOf[p] = id

(* The program finds, for each id, the plugin that was constructed first   *)
(* and none only if there is none.                                         *)
FirstWins ==
  stage = "main" =>
    \A k \in Kinds, id \in CompIds :
      LET fits == {i \in DOMAIN statics : /\ statics[i] \in Plugins
                                          /\ KindOf[statics[i]] = k
                                          /\ IdOf[statics[i]] = id}
      IN  IF fits = {} THEN Get(k, id) = NoPlugin
          ELSE \E i \in fits : Get(k, id) = statics[i] /\ \A j \in fits : i <= j

RegistrySound == FactoryOutlives /\ RegisteredIsAlive /\ FirstWins
=============================================================================
