---------------------------- MODULE SshDiscovery ----------------------------
(***************************************************************************)
(* ssh_discovery.py: hosts named in ssh's files and on the local network   *)
(* are listed once each, the user picks, the picks' host keys are fetched  *)
(* and compared, every pick that is left is tested at once, and the ones   *)
(* that refuse the login come back one at a time for a user name.          *)
(*                                                                         *)
(* A name's entry has the keys known_hosts has for it, the names it goes   *)
(* by and the addresses that were looked up in time.  ssh-keyscan shows    *)
(* the key of the machine the name leads to.                               *)
(***************************************************************************)
EXTENDS Naturals, Sequences, FiniteSets, SequencesExt, Selection

CONSTANTS Order,      \* the names found, config's first, then known_hosts', then mDNS's
          Source,     \* where each name was found
          Inventory,  \* names of the SSH hosts the inventory has
          SelfNames, SelfKeys, GitHosts,
          IPs,        \* names that are bare addresses
          Networks,   \* what the names may stand for: records of machine, known, names, addresses
          Users       \* what the user may type

Sources == <<"config", "known_hosts", "mdns">>
ASSUME SourceAssumption == /\ Order \in Seq(ToSet(Order))
                           /\ \A i \in 1..Len(Order) : Source[Order[i]] \in ToSet(Sources)

\* Every entry goes by a name, its own to begin with (_entry).
ASSUME NamesAssumption == \A w \in Networks : \A i \in 1..Len(Order) : w.names[Order[i]] # {}

None == "none"
Hosts == ToSet(Order)

VARIABLES
  net,
  phase,
  list,      \* the candidates, each the set of an entry's names
  picked,    \* what the user picked
  picks,     \* of these, the ones still to be confirmed
  unscanned, \* those that showed ssh-keyscan no key
  kept,      \* the keys of each pick accepted so far
  recorded,  \* picks whose fetched keys known_hosts was given
  ready,     \* the picks to test, in order
  tried,     \* where each one's test is
  remembered, offered, refused,  \* the last name typed; this host's default; its refusals
  taken,     \* names of hosts that worked which the file, read once more, has
  written    \* hosts added to the inventory
pick_vars == <<list, picked, picks, unscanned, kept, recorded, ready>>
login_vars == <<tried, remembered, offered, refused>>
file_vars == <<taken, written>>
vars == <<net, phase, pick_vars, login_vars, file_vars>>

-----------------------------------------------------------------------------
(* The list. *)

Touches(e, n) == net.known[e] \cap net.known[n] # {} \/ net.names[e] \cap net.names[n] # {}

\* One entry of _groups: the groups it touches become one, which goes last.
Join(groups, e) ==
  LET touching == {g \in ToSet(groups) : \E n \in g : Touches(e, n)}
  IN Append(Chosen(groups, ToSet(groups) \ touching), {e} \cup UNION touching)

Groups ==
  LET upto[n \in 0 .. Len(Order)] == IF n = 0 THEN <<>> ELSE Join(upto[n - 1], Order[n])
  IN upto[Len(Order)]

KeysOf(g) == UNION {net.known[n] : n \in g}
NamesOf(g) == UNION {net.names[n] : n \in g}
AddressesOf(g) == UNION {net.addresses[n] : n \in g}

\* Already in the inventory, this machine, or git hosting.
Dropped(g) ==
  \/ KeysOf(g) \cap (KeysOf(Inventory) \cup SelfKeys) # {}
  \/ NamesOf(g) \cap (NamesOf(Inventory) \cup SelfNames \cup GitHosts) # {}

\* Those of S that are in T, or all of them when none is.
Foremost(S, T) == IF S \cap T # {} THEN S \cap T ELSE S

\* _representative: config's names first, a name before an address, then the
\* order they were found in.
Lead(g) ==
  LET best == Foremost(Foremost(g, {n \in g : Source[n] = "config"}), Hosts \ IPs)
  IN CHOOSE n \in best : \A m \in best :
       SelectInSeq(Order, LAMBDA x : x = n) <= SelectInSeq(Order, LAMBDA x : x = m)

\* A source's candidates, named hosts before bare addresses.
Of(s) == {g \in ToSet(Groups) : ~ Dropped(g) /\ Source[Lead(g)] = s}
FromSource(s) ==    Chosen(Groups, {g \in Of(s) : Lead(g) \notin IPs})
                 \o Chosen(Groups, {g \in Of(s) : Lead(g) \in IPs})

\* gather_candidates, sorted by source.
Candidates == FromSource(Sources[1]) \o FromSource(Sources[2]) \o FromSource(Sources[3])

\* _link_probable: they share an address, and one has no key to compare.
Probable(g, h) == /\ AddressesOf(g) \cap AddressesOf(h) # {}
                  /\ KeysOf(g) = {} \/ KeysOf(h) = {}

Init ==
  /\ net \in Networks
  /\ phase = "list"
  /\ list = <<>> /\ picked = {} /\ picks = <<>> /\ ready = <<>>
  /\ unscanned = {} /\ recorded = {}
  /\ kept = [h \in {} |-> {}]
  /\ tried = [n \in Hosts |-> "no"]
  /\ remembered = None /\ offered = None /\ refused = {}
  /\ taken = {} /\ written = {}

List == /\ phase = "list" /\ list' = Candidates
        /\ phase' = IF list' = <<>> THEN "done" ELSE "pick"
        /\ UNCHANGED <<net, file_vars, picked, picks, unscanned, kept, recorded, ready, login_vars>>

\* The numbers typed, in the list's order.
Pick == /\ phase = "pick"
        /\ picked' \in SUBSET ToSet(list)
        /\ picks' = Chosen(list, picked')
        /\ phase' = IF picked' = {} THEN "done" ELSE "confirm"
        /\ UNCHANGED <<net, file_vars, list, unscanned, kept, recorded, ready, login_vars>>

-----------------------------------------------------------------------------
(* Host keys decide. *)

KeptKeys(g) == IF Lead(g) \in DOMAIN kept THEN kept[Lead(g)] ELSE KeysOf(g)

\* Mutant: a pick is compared with inventory hosts alone.
InventoryOnly(g, keys) ==
  \E i \in Inventory : Probable(g, {i}) /\ keys \cap net.known[i] # {}

\* Mutant: a pick is left out for a partner that was not picked.
AnyPartner(g, keys) ==
  \/ InventoryOnly(g, keys)
  \/ \E h \in ToSet(list) \ {g} : Probable(g, h) /\ keys \cap KeptKeys(h) # {}

\* _is_duplicate: a probable partner, in the inventory or kept, has its key.
Duplicate(g, keys) ==
  \/ \E i \in Inventory : Probable(g, {i}) /\ keys \cap net.known[i] # {}
  \/ \E h \in ToSet(list) \ {g} :
       Probable(g, h) /\ Lead(h) \in DOMAIN kept /\ keys \cap KeptKeys(h) # {}

\* Mutant: a key is recorded as soon as it is fetched.
RecordFetched(g, keys) == IF KeysOf(g) = {} THEN {g} ELSE {}

\* A fetched key is written "only once it's certain to be tested".
Recorded(g, keys) == IF KeysOf(g) = {} /\ ~ Duplicate(g, keys) THEN {g} ELSE {}

NotFetched(keys) == keys = {}

\* The keys a pick is compared by: known_hosts', or the one ssh-keyscan shows.
Presented(g) == IF KeysOf(g) # {} THEN KeysOf(g) ELSE {net.machine[Lead(g)]}

\* A pick known_hosts has no key for is asked for it, and may not answer.
Fetched(g) == {Presented(g)} \cup IF KeysOf(g) # {} THEN {} ELSE {{}}

Confirm ==
  /\ phase = "confirm" /\ picks # <<>>
  /\ LET g == Head(picks) IN \E keys \in Fetched(g) :
       IF NotFetched(keys)
       THEN unscanned' = unscanned \cup {g} /\ UNCHANGED <<kept, ready, recorded>>
       ELSE /\ UNCHANGED unscanned
            /\ recorded' = recorded \cup Recorded(g, keys)
            /\ IF Duplicate(g, keys) THEN UNCHANGED <<kept, ready>>
               ELSE /\ kept' = [h \in DOMAIN kept \cup {Lead(g)} |->
                                  IF h = Lead(g) THEN keys ELSE kept[h]]
                    /\ ready' = Append(ready, g)
  /\ picks' = Tail(picks)
  /\ UNCHANGED <<net, file_vars, phase, list, picked, login_vars>>

-----------------------------------------------------------------------------
(* The tests, all at once. *)

Begin == /\ phase = "confirm" /\ picks = <<>> /\ phase' = "probe"
         /\ UNCHANGED <<net, file_vars, pick_vars, login_vars>>

Ready == {Lead(g) : g \in ToSet(ready)}

\* As it is: it works, the login is refused, it cannot be reached, or qna
\* fails there, which is tried again with become.
AsIs == {"works", "refused", "unreachable", "needs become"}
WithBecome == {"works become", "refused", "unreachable", "fails"}
Over == (AsIs \cup WithBecome) \ {"needs become"}
Working == {"works", "works become"}

\* Mutant: become is tried after any failure.
AnyFailure(n, s) == s = "needs become" \/ s = "refused"

\* _probe goes on to become.
GoesOn(n, s) == s = "needs become"

Attempt(n) == \/ tried[n] = "no" /\ tried' \in {[tried EXCEPT ![n] = s] : s \in AsIs}
              \/ /\ GoesOn(n, tried[n])
                 /\ tried' \in {[tried EXCEPT ![n] = s] : s \in WithBecome}

Probe(n) == /\ phase = "probe" /\ n \in Ready /\ Attempt(n)
            /\ UNCHANGED <<net, file_vars, phase, pick_vars, remembered, offered, refused>>

\* The gather returns; the refused ones come back in order.
Probed == /\ phase = "probe" /\ \A n \in Ready : tried[n] \in Over
          /\ phase' = "next"
          /\ UNCHANGED <<net, file_vars, pick_vars, login_vars>>

-----------------------------------------------------------------------------
(* The prompts. *)

Refused == Chosen(ready, {g \in ToSet(ready) : tried[Lead(g)] = "refused"})

\* The last name typed is the next host's default.
Prompt == /\ phase = "next" /\ Refused # <<>> /\ phase' = "ask"
          /\ offered' = remembered /\ refused' = {}
          /\ UNCHANGED <<net, file_vars, pick_vars, tried, remembered>>

Asked == Lead(Head(Refused))
Settle(s) == tried' = [tried EXCEPT ![Asked] = s] /\ phase' = "next"

\* A name refused here is not this host's default again.
Offer(names) == IF offered \in names THEN None ELSE offered

\* A name, or Enter for the default, and one more test as that user.
LogIn(answer) ==
  LET user == IF answer = None THEN offered ELSE answer
  IN /\ phase = "ask" /\ user # None
     /\ remembered' = IF answer = None THEN remembered ELSE answer
     /\ \/ /\ \E s \in Working \cup {"fails"} : Settle(s)
           /\ UNCHANGED <<offered, refused>>
        \/ /\ refused' = refused \cup {user} /\ offered' = Offer(refused')
           /\ UNCHANGED <<phase, tried>>
     /\ UNCHANGED <<net, file_vars, pick_vars>>

\* Enter with no default, or no reply at all, skips the host.
Skip == /\ phase = "ask" /\ Settle("fails")
        /\ UNCHANGED <<net, file_vars, pick_vars, remembered, offered, refused>>

Found == {n \in Ready : tried[n] \in Working}

\* write_discovered reads the file again, which may have one of these names by
\* now, or had it all along: for a host of another transport.
Write == /\ phase = "next" /\ Refused = <<>> /\ phase' = "done"
         /\ taken' \in SUBSET Found /\ written' = Found \ taken'
         /\ UNCHANGED <<net, pick_vars, login_vars>>

\* Ctrl-C, or a file that can no longer be read: what was found is gone, what
\* known_hosts was given stays, whether the tests were over or cut off.
Stop == /\ phase \notin {"done", "stopped", "cut"}
        /\ phase' = IF phase \in {"confirm", "probe"} THEN "cut" ELSE "stopped"
        /\ UNCHANGED <<net, file_vars, pick_vars, login_vars>>

Next == \/ List \/ Pick \/ Confirm \/ Begin \/ Probed \/ Prompt \/ Skip \/ Write \/ Stop
        \/ \E n \in Hosts : Probe(n)
        \/ \E answer \in Users \cup {None} : LogIn(answer)

Spec == Init /\ [][Next]_vars

-----------------------------------------------------------------------------
TypeOK ==
  /\ phase \in {"list", "pick", "confirm", "probe", "next", "ask", "done", "stopped", "cut"}
  /\ \A n \in DOMAIN kept : kept[n] # {}
  /\ Ready = DOMAIN kept
  /\ tried \in [Hosts -> {"no"} \cup AsIs \cup WithBecome]
  /\ {remembered, offered} \subseteq Users \cup {None} /\ refused \subseteq Users

\* No machine is listed twice, as far as names and known keys tell, nor one the
\* inventory has, nor this one, nor a git host under any of its names.
ListedOnce ==
  \A i \in 1..Len(list) :
    /\ ~ Dropped(list[i])
    /\ \A j \in 1..Len(list) : i # j => \A e \in list[i], n \in list[j] : ~ Touches(e, n)

\* "A host's key is written to known_hosts only once it's certain to be tested":
\* once the tests are over, every host that known_hosts was given a key of has
\* been tested.  Not so when the program is stopped before that: a key is
\* written as soon as its own pick is settled, and later picks are still asked
\* for theirs.
KeyOnlyForTested ==
  phase \notin {"confirm", "probe", "cut"} => \A g \in recorded : tried[Lead(g)] # "no"

\* Two names that share an address, one of them without a known key, are not
\* both tested when the keys they present are the same, whichever is picked
\* first; nor is a name the inventory has so.
TwinsSkipped ==
  \A g \in ToSet(ready) :
    /\ \A i \in Inventory : Probable(g, {i}) => kept[Lead(g)] \cap net.known[i] = {}
    /\ \A h \in ToSet(ready) \ {g} : Probable(g, h) => kept[Lead(g)] \cap kept[Lead(h)] = {}

\* "Once a name is refused on this host it is never offered again here."
NeverOfferedAgain == phase = "ask" => offered \notin refused

\* A name in the inventory, or one that is tested, has this one's address and the
\* key that this one presents.
Twin(g) ==
  \/ \E i \in Inventory : Probable(g, {i}) /\ Presented(g) \cap net.known[i] # {}
  \/ \E h \in ToSet(ready) : Probable(g, h) /\ Presented(g) \cap kept[Lead(h)] # {}

\* No pick is forgotten in a run that comes to its end.  One that worked, at once
\* or after a prompt, is added, unless the file has its name; one that was tested
\* and did not work was beyond reach, failed or was given up by the user; and one
\* that was not tested showed no key, or the key of a host that is in the
\* inventory or was tested, with an address in common.  Nothing else is added.
PicksSettled ==
  phase = "done" =>
    /\ \A g \in picked :
         IF g \in ToSet(ready)
         THEN IF Lead(g) \in written \cup taken THEN tried[Lead(g)] \in Working
              ELSE tried[Lead(g)] \in {"unreachable", "fails"}
         ELSE g \in unscanned \/ Twin(g)
    /\ written \subseteq {Lead(g) : g \in picked \cap ToSet(ready)}

\* No two picks that are tested go by the same name.
TestedOnce == Len(ready) = Cardinality(Ready)

\* Of those to choose from no two go by one name, and who is chosen is picked once.
PickedOnce == phase = "pick" =>
  /\ \A g, h \in ToSet(list) : Lead(g) = Lead(h) => g = h
  /\ \A chosen \in SUBSET ToSet(list) :
       LET p == Chosen(list, chosen)
       IN p \in Seq(chosen) /\ ToSet(p) = chosen /\ IsInjective(p)

\* A machine is met once: in the list, in the tests and with a name at a prompt.
OncePerMachine ==
  ListedOnce /\ PickedOnce /\ TwinsSkipped /\ TestedOnce /\ NeverOfferedAgain

\* known_hosts is given keys of hosts that are tested, and every pick is settled.
WritesTheTested == KeyOnlyForTested /\ PicksSettled

\* "Every login attempt is one the user asked for": a host that refused the
\* login is not tried again before the user is asked.
NothingGuessed ==
  [][\A n \in Hosts : phase = "probe" /\ tried[n] = "refused" => tried'[n] = "refused"]_vars
=============================================================================
