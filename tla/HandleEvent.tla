----------------------------- MODULE HandleEvent ----------------------------
(***************************************************************************)
(* One call of handleEvent in pipelined (backend/pipelined/handle.go,      *)
(* filter.go, mutate.go): the names on the event are expanded to handlers, *)
(* then each handler's filters decide whether it gets the event, its       *)
(* mutator makes the data, and it runs.  What the etcd store answers is    *)
(* part of the configuration, which the initial state chooses.             *)
(***************************************************************************)
EXTENDS Integers, Sequences, Functions

(***************************************************************************)
(* A configuration is a record of names, the handlers on the event, and    *)
(* entries, what the store has under a name: a "handler" with its filters  *)
(* and mutator ("grpc" if that is its type), an "extension" with its URL,  *)
(* which has neither, a "set" with its members, "none", or "error" when    *)
(* the store cannot tell.                                                  *)
(***************************************************************************)
CONSTANT Configs

Plain == {"handler", "grpc", "extension"}
Windows == {"none", "in", "out", "error"}
Filters ==
  [kind : {"builtin"}, denies : BOOLEAN]
    \cup [kind : {"custom"}, action : {"allow", "deny"}, window : Windows,
          matches : Seq(BOOLEAN)]
    \cup [kind : {"extension"}, answer : {"allow", "deny", "error"}]
    \cup [kind : {"unreadable"}]

\* The types of what the store and the event hold.
ASSUME ConfigsAssumption ==
  \A c \in Configs :
    /\ c.names \in Seq(DOMAIN c.entries)
    /\ \A m \in DOMAIN c.entries :
         /\ c.entries[m].kind \in Plain \cup {"set", "none", "error"}
         /\ c.entries[m].members \in Seq(DOMAIN c.entries)
         /\ c.entries[m].filters \in Seq(Filters)

VARIABLES
  config,
  pc,
  stack,     \* the calls of expandHandlers, the innermost last
  todo,      \* the expanded handlers that are still to be gone through
  expanded,  \* what expandHandlers returned
  redacted,  \* the event's entity has been redacted
  handed,    \* names of the handlers that were given the event
  panicked

vars == <<config, pc, stack, todo, expanded, redacted, handed, panicked>>

-----------------------------------------------------------------------------
(***************************************************************************)
(* expandHandlers.  A call goes through its names; next is the one it is   *)
(* at, found is the map it will return.  Every set it meets increments its *)
(* level, and is expanded by a call of its own.                            *)
(***************************************************************************)
\* Mutant: the limit is one too low.
LowLevel == 2

MaxLevel == 3

Call(names, level) == [names |-> names, next |-> 1, level |-> level, found |-> {}]

Init ==
  /\ config \in Configs
  /\ pc = "expand"
  /\ stack = <<Call(config.names, 1)>>
  /\ todo = {} /\ expanded = {} /\ handed = {}
  /\ redacted = FALSE /\ panicked = FALSE

\* A handler in the map: under its name, or the URL of an extension.
Key(m) == IF config.entries[m].kind = "extension" THEN config.entries[m].url ELSE m
Union(m, ext) == [key |-> Key(m), name |-> m, ext |-> ext]

\* Mutant: a handler that is met again replaces the first.
Replaced(found, new) ==
  new \cup {g \in found : \A h \in new : h.key # g.key}

\* A handler that is met again is left as it was found first.
Added(found, new) ==
  found \cup {h \in new : \A g \in found : g.key # h.key}

Top == stack[Len(stack)]
Met == config.entries[Top.names[Top.next]]

InLoop ==
  /\ pc = "expand" /\ Top.next <= Len(Top.names)
  /\ UNCHANGED <<config, pc, todo, expanded, redacted, handed, panicked>>

\* The innermost call goes on to its next name.
GoesOn(level, found) ==
  stack' = [stack EXCEPT ![Len(stack)] =
              [Top EXCEPT !.next = @ + 1, !.level = level, !.found = found]]

\* Nothing is there, or an error is logged.
NotFound ==
  /\ InLoop
  /\ Met.kind \in {"none", "error"}
  /\ GoesOn(Top.level, Top.found)

AddHandler ==
  /\ InLoop
  /\ Met.kind \in Plain
  /\ GoesOn(Top.level,
            Added(Top.found, {Union(Top.names[Top.next], Met.kind = "extension")}))

\* The call for the set returns an error at once, which is logged.
SetTooDeep ==
  /\ InLoop
  /\ Met.kind = "set" /\ Top.level + 1 > MaxLevel
  /\ GoesOn(Top.level + 1, Top.found)

EnterSet ==
  /\ InLoop
  /\ Met.kind = "set" /\ Top.level + 1 <= MaxLevel
  /\ stack' = Append([stack EXCEPT ![Len(stack)].level = @ + 1],
                     Call(Met.members, Top.level + 1))

\* Handlers that come out of a set lose their extension.
SetReturns ==
  /\ pc = "expand" /\ Top.next > Len(Top.names) /\ Len(stack) > 1
  /\ stack' = [d \in 1 .. Len(stack) - 1 |->
                 IF d < Len(stack) - 1 THEN stack[d]
                 ELSE [stack[d] EXCEPT
                         !.next = @ + 1,
                         !.found = Added(@, {Union(h.name, FALSE) : h \in Top.found})]]
  /\ UNCHANGED <<config, pc, todo, expanded, redacted, handed, panicked>>

\* The first call returns.
Expanded ==
  /\ pc = "expand" /\ Top.next > Len(Top.names) /\ Len(stack) = 1
  /\ stack' = << >>
  /\ expanded' = Top.found /\ todo' = Top.found
  /\ pc' = IF Top.found = {} THEN "return" ELSE "loop"
  /\ UNCHANGED <<config, redacted, handed, panicked>>

-----------------------------------------------------------------------------
(***************************************************************************)
(* evaluateEventFilter and filterEvent.  A filter is "builtin", with the   *)
(* answer it gives for this event; "custom", with its action, where the    *)
(* time lies relative to its window, and which of its expressions match;   *)
(* "extension", with what the extension answers; or "unreadable".          *)
(***************************************************************************)

\* Mutant: one matching expression is enough.
EvaluateAny(f) ==
  /\ f.window # "error"
  /\ IF f.window # "out" /\ (f.matches = << >> \/ TRUE \in Range(f.matches))
     THEN f.action = "deny" ELSE f.action = "allow"

EvaluateEventFilter(f) ==
  /\ f.window # "error"
  /\ IF f.window # "out" /\ FALSE \notin Range(f.matches)
     THEN f.action = "deny" ELSE f.action = "allow"

Denies(f) ==
  CASE f.kind = "builtin" -> f.denies
    [] f.kind = "custom" -> EvaluateEventFilter(f)
    [] f.kind = "extension" -> f.answer = "deny"
    [] f.kind = "unreadable" -> FALSE

\* The filters that filterEvent looks at: up to the first that denies the
\* event or cannot be read.
Evaluated(filters) ==
  {i \in DOMAIN filters :
     \A j \in 1 .. i - 1 : ~Denies(filters[j]) /\ filters[j].kind # "unreadable"}

FilterEvent(filters) == \E i \in Evaluated(filters) : Denies(filters[i])

\* Evaluating a custom filter redacts the entity of the event itself.
Redacts(filters) == \E i \in Evaluated(filters) : filters[i].kind = "custom"

-----------------------------------------------------------------------------
Entry(h) == config.entries[h.name]

\* The loop's body for the handler the map yields next.
Loop(h) ==
  /\ h \in todo
  /\ todo' = todo \ {h}
  /\ pc = "loop" /\ pc' = IF todo' = {} THEN "return" ELSE "loop"
  /\ redacted' = (redacted \/ Redacts(Entry(h).filters))

Filtered(h) ==
  /\ Loop(h)
  /\ FilterEvent(Entry(h).filters)
  /\ UNCHANGED <<config, stack, expanded, handed, panicked>>

MutationFails(h) ==
  /\ Loop(h)
  /\ ~FilterEvent(Entry(h).filters) /\ Entry(h).mutator = "fails"
  /\ UNCHANGED <<config, stack, expanded, handed, panicked>>

\* grpcHandler dereferences the extension, which must be there.
Handled(h) ==
  /\ ~panicked
  /\ Loop(h)
  /\ ~FilterEvent(Entry(h).filters) /\ Entry(h).mutator # "fails"
  /\ handed' = handed \cup {h.name}
  /\ panicked' = (Entry(h).kind \in {"extension", "grpc"} /\ ~h.ext)
  /\ UNCHANGED <<config, stack, expanded>>

Next ==
  \/ NotFound \/ AddHandler \/ SetTooDeep \/ EnterSet \/ SetReturns \/ Expanded
  \/ ~panicked /\ \E h \in todo : Filtered(h) \/ MutationFails(h) \/ Handled(h)

Spec == Init /\ [][Next]_vars

-----------------------------------------------------------------------------
Sets(names) == {i \in DOMAIN names : config.entries[names[i]].kind = "set"}

\* The members of the sets among ms, and the handlers and extensions among ms.
Through(ms) ==
  UNION {Range(config.entries[m].members) : m \in {x \in ms : config.entries[x].kind = "set"}}
Handlers(ms) == {m \in ms : config.entries[m].kind \in Plain}

\* What the event names, and what it reaches through two sets, one inside the
\* other.
Named == Range(config.names)
Reached == Handlers(Named \cup Through(Named) \cup Through(Through(Named)))

\* No list of names, on the event or in a set, has two sets in it.
OneSet(names) == \A i, j \in Sets(names) : i = j
SetsAreAlone ==
  /\ OneSet(config.names)
  /\ \A m \in DOMAIN config.entries : OneSet(config.entries[m].members)

Keys(ms) == {Key(m) : m \in ms}

\* The expansion only has handlers that the event's names reach through two
\* nested sets, and has them all when no list has two sets in it; sets that
\* contain themselves do no harm.
Expands ==
  pc # "expand" =>
    /\ {h.name : h \in expanded} \subseteq Reached
    /\ SetsAreAlone => {h.key : h \in expanded} = Keys(Reached)

\* What a filter's documentation says of an event: an "allow" filter lets it
\* through when the time is in its window and every expression matches, a
\* "deny" filter unless that is so; a window that cannot be determined lets
\* it through.
LetsThrough(f) ==
  CASE f.kind = "builtin" -> ~f.denies
    [] f.kind = "extension" -> f.answer # "deny"
    [] f.kind = "unreadable" -> TRUE
    [] f.kind = "custom" ->
         \/ f.window = "error"
         \/ (f.action = "allow") <=>
               (f.window \in {"none", "in"} /\ \A i \in DOMAIN f.matches : f.matches[i])

\* The filters before the first one that the store cannot give.
Readable(filters) ==
  {i \in DOMAIN filters : \A j \in 1 .. i : filters[j].kind # "unreadable"}

\* When the call returns, the handlers that got the event are the expanded
\* ones whose filters, up to one that cannot be read, all let it through and
\* whose mutator did not fail: a handler that is denied or fails does not
\* keep the event from the others.
Decided ==
  pc = "return" /\ ~panicked =>
    handed = {h.name : h \in {g \in expanded :
                /\ \A i \in Readable(Entry(g).filters) : LetsThrough(Entry(g).filters[i])
                /\ Entry(g).mutator # "fails"}}

\* A handler of type grpc from the store, or an extension that the event names
\* only behind a set, if at all.
Unsafe(m) ==
  \/ config.entries[m].kind = "grpc"
  \/ /\ config.entries[m].kind = "extension"
     /\ \A i \in DOMAIN config.names :
          config.names[i] = m => \E j \in Sets(config.names) : j < i

\* grpcHandler finds the extension it dereferences whenever the event names it
\* before any set; the call panics for no other reason.
ExtensionsRun == panicked => \E m \in handed : Unsafe(m)
=============================================================================
