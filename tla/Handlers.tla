------------------------------ MODULE Handlers ------------------------------
(***************************************************************************)
(* The handlers an application installs for OIDs: src/snmp_callback.c.     *)
(* Prefixes and OIDs are texts, compared character by character, so here   *)
(* a text is the sequence of its characters.                               *)
(***************************************************************************)
EXTENDS Naturals, Sequences, SequencesExt

CONSTANTS
  Entries,      \* bound: the entries applications have
  PrefixOf,     \* the prefix of an entry
  HandlerSet,   \* the entries with a handler
  Characters,   \* bound: the characters texts are made of
  Requested,    \* bound: the OIDs asked for
  MaxInstalls,  \* bound: the calls of install_snmp_handler()
  NoEntry,      \* NULL
  Star          \* '*'

ASSUME HandlersAssumption ==
  /\ NoEntry \notin Entries
  /\ HandlerSet \subseteq Entries
  /\ \A e \in Entries : /\ PrefixOf[e] \in Seq(Characters)
                         /\ Star \notin ToSet(Front(PrefixOf[e]))
  /\ Requested \subseteq Seq(Characters)
  /\ MaxInstalls \in Nat

VARIABLES
  first_handler,
  next,         \* the next entry of an entry
  installed,    \* the entries in the order they were installed
  asked, called,\* the last OID asked for and the entry that was called
  stuck         \* a loop over the entries goes round and never ends

handlerVars == <<first_handler, next, installed, asked, called, stuck>>

HandlersInit ==
  /\ first_handler = NoEntry
  /\ next = [e \in Entries |-> NoEntry]
  /\ installed = <<>>
  /\ asked = <<>> /\ called = NoEntry /\ stuck = FALSE

\* The first element of a sequence at one of some places; the loops end with the first.
FirstAt(list, places) ==
  IF places = {} THEN NoEntry ELSE list[CHOOSE i \in places : \A j \in places : i <= j]

\* The entries a loop over the list comes by, each once: each leads to the next one, and
\* the last to none, or back to one of them.
IsList(list, links) ==
  /\ \A i, j \in DOMAIN list : list[i] = list[j] => i = j
  /\ first_handler = IF list = <<>> THEN NoEntry ELSE list[1]
  /\ \A i \in DOMAIN list : IF i = Len(list) THEN links[list[i]] \in {NoEntry} \cup ToSet(list)
                            ELSE links[list[i]] = list[i + 1]
HandlerList(links) ==
  CHOOSE list \in UNION {[1 .. n -> Entries] : n \in 0 .. Len(installed)} : IsList(list, links)
GoesRound(links) == LET list == HandlerList(links) IN list # <<>> /\ links[Last(list)] # NoEntry

\* install_snmp_handler(): behind the last entry.  An entry that is installed already is
\* the last one, once its next is cleared: those behind it are lost, and it is linked
\* behind itself.
\* (Mutated: the search for the last entry begins and ends at the first one.)
LinkedBehindFirst(entry, links) == [links EXCEPT ![first_handler] = entry]
LinkedBehind(entry, links) == [links EXCEPT ![Last(HandlerList(links))] = entry]
Install(entry) ==
  LET cleared == [next EXCEPT ![entry] = NoEntry]
  IN  /\ Len(installed) < MaxInstalls
      /\ installed' = Append(installed, entry)
      /\ \/ /\ first_handler = NoEntry
            /\ first_handler' = entry /\ next' = cleared /\ stuck' = FALSE
         \/ /\ first_handler # NoEntry /\ ~GoesRound(cleared)
            /\ next' = LinkedBehind(entry, cleared) /\ stuck' = FALSE
            /\ UNCHANGED first_handler
         \/ /\ first_handler # NoEntry /\ GoesRound(cleared)
            /\ next' = cleared /\ stuck' = TRUE
            /\ UNCHANGED first_handler
      /\ asked' = <<>> /\ called' = NoEntry

\* match_length(): the characters that match, with the star that ends them.
Stops(complete, partial) ==
  {i \in DOMAIN complete \cap DOMAIN partial : partial[i] = Star \/ partial[i] # complete[i]}
MatchLength(complete, partial) ==
  LET stop == Stops(complete, partial)
      at == CHOOSE i \in stop : \A j \in stop : i <= j
  IN  IF stop = {} THEN IF Len(complete) < Len(partial) THEN Len(complete) ELSE Len(partial)
      ELSE IF partial[at] = Star THEN at ELSE at - 1

Matches(oid, entry) ==
  LET mlength == MatchLength(oid, PrefixOf[entry])
  IN  mlength >= Len(oid) \/ mlength = Len(PrefixOf[entry])

\* snmp_private_call_handler(): the first entry that matches is called.
Request(oid) ==
  LET list == HandlerList(next)
      matching == {i \in DOMAIN list : list[i] \in HandlerSet /\ Matches(oid, list[i])}
  IN  /\ asked' = oid
      /\ called' = FirstAt(list, matching)
      /\ stuck' = (matching = {} /\ GoesRound(next))
      /\ UNCHANGED <<first_handler, next, installed>>

HandlersStep ==
  /\ ~stuck
  /\ \/ \E entry \in Entries : Install(entry)
     \/ \E oid \in Requested : Request(oid)

-----------------------------------------------------------------------------
\* A prefix answers for an OID when, without the star it may end with, one of the two
\* texts begins with the other.
UpToStar(text) == IF text # <<>> /\ Last(text) = Star THEN Front(text) ELSE text
AnswersFor(oid, entry) ==
  \/ IsPrefix(UpToStar(PrefixOf[entry]), oid)
  \/ IsPrefix(oid, PrefixOf[entry])

\* What a user of install_snmp_handler() has to keep to: an entry is installed once.
InstalledOnce == \A i, j \in DOMAIN installed : installed[i] = installed[j] => i = j

\* Of all handlers an application has installed, the one that was installed first among
\* those whose prefix answers for the OID is called, however many there are and in
\* whatever order they came; none gets lost behind another, and no loop over them goes
\* round, as long as none was installed twice
\* (install_snmp_handler(), snmp_private_call_handler()).
FirstInstalledIsCalled ==
  InstalledOnce =>
    /\ ~stuck
    /\ asked # <<>> =>
         called = FirstAt(installed, {i \in DOMAIN installed : /\ installed[i] \in HandlerSet
                                                              /\ AnswersFor(asked, installed[i])})
=============================================================================
