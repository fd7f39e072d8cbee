------------------------------- MODULE Report --------------------------------
(***************************************************************************)
(* From a section's payload to the JSON on the screen: the program starts  *)
(* with the plugins of Plugins, the parser looks for the one of each       *)
(* section's component (hbplugins.cpp), the plugin calls back with what it *)
(* wants shown (Params), and the printer writes everything out (Json).     *)
(***************************************************************************)
EXTENDS Plugins, Json

CONSTANTS
  Calls,        \* calls that plugins make
  RefCodes,     \* reference codes of Primary SRC sections
  Payloads,     \* payloads of User Defined sections
  MaxSections,  \* bound: sections of an event
  MaxCalls      \* bound: calls in a run

(* The calls of the interface.  A number is an int or an uint64_t.         *)
Ops == {"string", "bool", "number", "dump", "heading", "blank", "trace"}

ASSUME ReportAssumption ==
  /\ MaxSections \in Nat /\ MaxCalls \in Nat
  /\ \A rc \in RefCodes :
       /\ rc.valid => rc.num \in Nat /\ rc.id \in CompIds
       /\ rc.flags \in 0 .. Limit(1) - 1 /\ rc.words \in 0 .. Limit(1) - 1
       /\ rc.text \in Seq(Chars)
  /\ \A call \in Calls :
       /\ call.op \in Ops
       /\ call.op = "number" => call.n \in -(Limit(4) \div 2) .. Limit(8) - 1
       /\ call.name \in Seq(Chars)
       /\ call.text \in Seq(Chars) \/ (call.op = "string" /\ call.text = Null)
  /\ Payloads \subseteq Seq(Chars)

VARIABLES
  sel,       \* the parameters of the SEL record, or empty
  sections,  \* the sections parsed so far
  cur,       \* the section that a plugin is working on, as a sequence
  made,      \* history: the calls that plugins have made
  printed,   \* the sections on the screen; -1 and one more for the head and the end
  reader     \* history: what a reader makes of the screen

reportVars == <<sel, sections, cur, made, printed, reader>>
vars == <<pluginVars, reportVars>>

(* SelRecord::params() *)
SelParams ==
  [i \in 1 .. 11 |-> Number(<<"x">>, i, CASE i \in {1, 4} -> 2 [] i = 3 -> 4 [] OTHER -> 1)]

Section(kind, payload, params, plugin) ==
  [kind |-> kind, payload |-> payload, header |-> HeaderParams(Len(payload)),
   params |-> params, plugin |-> plugin, calls |-> <<>>, ok |-> FALSE]

-----------------------------------------------------------------------------
Init ==
  /\ PluginInit
  /\ sel \in {<<>>, SelParams}
  /\ sections = <<>> /\ cur = <<>> /\ made = 0 /\ printed = -1 /\ reader = Unread

(* The static objects come and go. *)
Startup ==
  /\ \/ \E p \in Plugins : Construct(p)
     \/ EnterMain
  /\ UNCHANGED reportVars

Shutdown ==
  /\ \E o \in Plugins \cup Kinds : Destroy(o)
  /\ UNCHANGED reportVars

Parsing == stage = "main" /\ cur = <<>> /\ printed = -1 /\ Len(sections) < MaxSections

(* SectionUD falls back to a hex dump if the plugin is not there or says   *)
(* that it failed, after whatever the plugin has shown.                    *)
Completed(s, ok) ==
  IF s.kind # "ud" \/ ok THEN [s EXCEPT !.ok = ok]
                         ELSE [s EXCEPT !.params = Append(@, RawParam(HexDump(s.payload)))]

(* The plugin that is found goes to work; without one the section is done. *)
Begin(s) ==
  /\ IF s.plugin # NoPlugin
       THEN cur' = <<s>> /\ UNCHANGED sections
       ELSE sections' = Append(sections, Completed(s, FALSE)) /\ UNCHANGED cur
  /\ UNCHANGED <<sel, made, printed, reader>>

(* The first section is the Private Header; others have no plugin either.  *)
ParseHeader(key) ==
  /\ Parsing
  /\ Begin(IF sections = <<>> THEN Section("ph", <<>>, SectionPH(key), NoPlugin)
                              ELSE Section("uh", <<>>, SectionUH(key), NoPlugin))
  /\ UNCHANGED pluginVars

ParseUnknown ==
  /\ Parsing /\ sections # <<>>
  /\ Begin(Section("unknown", <<>>, <<>>, NoPlugin))
  /\ UNCHANGED pluginVars

(* parseUserDefinedSection() *)
ParseUD(id, payload) ==
  /\ Parsing /\ sections # <<>> /\ Ask("data")
  /\ Begin(Section("ud", payload, <<>>, Get("data", id)))

(* getSourceDescription(), which is asked about a reference code that is   *)
(* a number whose 32 bits are not 0 only.                                  *)
ParsePS(rc) ==
  /\ Parsing /\ sections # <<>>
  /\ IF rc.valid /\ rc.num % Limit(4) # 0
       THEN Ask("src") /\ Begin(Section("ps", <<>>, SectionPS(rc), Get("src", rc.id)))
       ELSE /\ Begin(Section("ps", <<>>, SectionPS(rc), NoPlugin))
            /\ UNCHANGED pluginVars

Callback(call) ==
  /\ cur # <<>> /\ made < MaxCalls
  /\ made' = made + 1
  /\ cur' = <<[cur[1] EXCEPT !.params = Append(@, Collected(call)),
                             !.calls = Append(@, call)]>>
  /\ UNCHANGED <<pluginVars, sel, sections, printed, reader>>

(* What the plugin of a Primary SRC returns makes no difference.           *)
Return(ok) ==
  /\ cur # <<>>
  /\ cur[1].kind = "ps" => ~ok
  /\ sections' = Append(sections, Completed(cur[1], ok))
  /\ cur' = <<>>
  /\ UNCHANGED <<pluginVars, sel, made, printed, reader>>

(* Printer::printEventJson() writes piece by piece.                        *)
PrintReport ==
  /\ stage = "main" /\ cur = <<>> /\ sections # <<>> /\ printed <= Len(sections)
  /\ printed' = printed + 1
  /\ reader' = ReadOn(reader,
       IF printed = -1 THEN PrintHead(sel)
       ELSE IF printed = Len(sections) THEN PrintTail
       ELSE PrintSection(sections[printed + 1], printed + 1 = Len(sections)))
  /\ UNCHANGED <<pluginVars, sel, sections, cur, made>>

(* The end of main() destroys the event.                                   *)
Finish ==
  /\ printed = Len(sections) + 1 /\ Exit
  /\ sel' = <<>> /\ sections' = <<>> /\ made' = 0 /\ printed' = -1 /\ reader' = Unread
  /\ UNCHANGED cur

Next ==
  \/ Startup \/ PrintReport \/ Finish \/ Shutdown
  \/ ParseUnknown
  \/ \E key \in Keys : ParseHeader(key)
  \/ \E id \in CompIds, payload \in Payloads : ParseUD(id, payload)
  \/ \E rc \in RefCodes : ParsePS(rc)
  \/ \E call \in Calls : Callback(call)
  \/ \E ok \in BOOLEAN : Return(ok)

Spec == Init /\ [][Next]_vars

-----------------------------------------------------------------------------
TypeOK ==
  /\ PluginTypeOK
  /\ sel \in {<<>>, SelParams}
  /\ Len(sections) <= MaxSections /\ Len(cur) <= 1 /\ made \in 0 .. MaxCalls
  /\ \A i \in DOMAIN sections : \A j \in DOMAIN sections[i].params :
       LET p == sections[i].params[j]
       IN  /\ p.type \in {"blank", "header", "raw", "bool", "number", "string"}
           /\ p.type = "number" => p.width \in Widths /\ p.n \in 0 .. Limit(p.width) - 1

(* The parameters of a section that a plugin's calls have made: all behind *)
(* those of the section itself, but for the hex dump at the end.           *)
OfCalls(s) == LET own == IF s.kind = "ps" THEN 6 ELSE 0
              IN  SubSeq(s.params, own + 1, own + Len(s.calls))

(* The narrowest width that holds n and is no less than the format's.      *)
LeastWidth(fmt, n) ==
  LET asked == IF "16" \in fmt THEN 8 ELSE IF "8" \in fmt THEN 4
               ELSE IF "4" \in fmt THEN 2 ELSE 1
  IN  Min({w \in Widths : asked <= w /\ n < Limit(w)})

(* A number is shown whole, in the narrowest width that holds it and that  *)
(* its format asks for; a negative int as the 64 bits that are equal to it *)
(* modulo 2^64.                                                            *)
NumberShown(p, fmt, n) ==
  /\ p.type = "number"
  /\ (p.n - n) % Limit(8) = 0
  /\ p.width = LeastWidth(fmt, p.n)
  /\ n < 0 => p.width = 8

(* A text is shown without the spaces around it, and loses nothing else.   *)
TextShown(shown, text) ==
  /\ \E a, b \in 0 .. Len(text) :
       /\ shown = SubSeq(text, a + 1, b)
       /\ \A j \in (1 .. a) \cup (b + 1 .. Len(text)) : text[j] \in Spaces
  /\ shown # <<>> => shown[1] \notin Spaces /\ shown[Len(shown)] \notin Spaces

Shows(p, call) ==
  /\ call.op = "number" /\ Space \notin call.fmt => NumberShown(p, call.fmt, call.n)
  /\ call.op = "string" /\ call.text # Null => TextShown(p.text, call.text)
  /\ call.op = "blank" <=> p.type = "blank"

(* Everything a plugin calls back with is in its section, in order (class  *)
(* ParamsCollector), and a User Defined section shows its payload exactly  *)
(* if no plugin was there or it failed.                                    *)
SectionsKeepCalls ==
  \A i \in DOMAIN sections :
    LET s == sections[i]
    IN  /\ \A k \in DOMAIN s.calls : Shows(OfCalls(s)[k], s.calls[k])
        /\ s.kind = "ud" =>
             /\ Len(s.params) = Len(s.calls) + IF s.ok THEN 0 ELSE 1
             /\ s.ok => s.plugin # NoPlugin
             /\ ~s.ok => s.params[Len(s.params)] = RawParam(HexDump(s.payload))

(* No list of parameters ends with a blank behind something else, and no   *)
(* text has a control character that jsonEscape() does not know.           *)
Representable ==
  \A i \in DOMAIN sections :
    LET list == sections[i].params
    IN  /\ list # <<>> /\ list[Len(list)].type = "blank" =>
             \A j \in DOMAIN list : list[j].type = "blank"
        /\ \A j \in DOMAIN list :
             {"ctrl", "vt"} \cap (Range(list[j].text) \cup Range(list[j].name)) = {}

Printed == printed = Len(sections) + 1

(* The JSON output (printEventJson, jsonEscape) says exactly what the      *)
(* report has: every section with its header and all its parameters but    *)
(* the blank ones, in order, with the names, texts and numbers they have.  *)
(* What is not Representable is not JSON at all, rather than other JSON.   *)
JsonShowsReport ==
  Printed => ValueOf(reader) = IF Representable THEN <<ReportValue(sel, sections)>> ELSE <<>>

(* The help text calls it JSON output. *)
JsonIsWellFormed == Printed => ValueOf(reader) # <<>>
=============================================================================
