--------------------------- MODULE NearbyMailbag ---------------------------
(* How events travel from computer to computer in a local network            *)
(* (core/src/desktop_nearby.rs).  Every service finds others by mDNS, dials  *)
(* them, and over each connection says hello, offers what is in its mailbag  *)
(* (inv), asks for what it lacks (want) and sends it (event).  Two services  *)
(* that find each other may have two connections.  A frame that is not an    *)
(* answer to one peer's hello goes to all connections.                       *)
(* Frames take much less time than the intervals of hellos, of offers and of *)
(* maintenance.  Left out: presence events (but for the name that one gives  *)
(* to a connection), profiles, the list of peers on the screen.              *)
EXTENDS Naturals, FiniteSets, Sequences

CONSTANTS
    Services, Dials,   \* the services, and <<x, y>> where x finds and dials y
    AtStart,           \* those dialled before the behaviours begin
    Records, Large,    \* events, and those whose frame exceeds SINGLE_FRAME_BYTES
    AuthorOf, StampOf, \* who publishes an event, and its place by created_at
    NoMailbag,         \* services whose user turned the mailbag off
    MaxBag,            \* MAX_MAILBAG_EVENTS, per bag
    MaxOffers,         \* events offered at a time (200)
    Restarting,        \* services the user may turn off and on
    MaxBusy,           \* connections with frames on the way while another thing begins
    MaxMishaps         \* services turned off, connections that break, mailbags emptied

MailbagAssumption ==
    /\ IsFiniteSet(Records) /\ Dials \subseteq Services \X Services /\ AtStart \subseteq Dials
    /\ AuthorOf \in [Records -> Services] /\ StampOf \in [Records -> Nat]
    /\ \A e, f \in Records : StampOf[e] = StampOf[f] => e = f
    /\ Large \subseteq Records /\ NoMailbag \subseteq Services /\ Restarting \subseteq Services
    /\ {MaxBag, MaxOffers, MaxBusy, MaxMishaps} \subseteq Nat
ASSUME MailbagAssumption

\* The two ends of each connection, of the one who dialled and of the one who accepted.
EndsOf(D) == {<<c[1], c[2], "out">> : c \in D} \cup {<<c[2], c[1], "in">> : c \in D}
Ends == EndsOf(Dials)
Pairs == Services \X Services

VARIABLES
    visible,  \* the service is on
    nonce,    \* local_nonce and port, new at each start
    own,      \* own_outbound
    carried,  \* forwarded
    taken,    \* what the app of each service has been given, or published
    found,    \* endpoint_keys: <<x, y, nonce of y>>
    joined,   \* ends: connections has an entry
    wire,     \* frames on the way, from the first to the second of an end
    named,    \* ends: the entry has a peer id
    greeted,  \* peer_nonces, peers: <<x, y>> to the nonce of y that x heard last, 0 for none
    advertised,  \* peer_inventory_sent_at: offered to within INVENTORY_RESEND_INTERVAL
    missed,   \* history: <<x, y>> where y may lack what x had, and x has offered nothing since
    mishaps   \* so far

bagVars == <<visible, nonce, own, carried, taken, found, joined, wire, named, greeted,
             advertised, missed, mishaps>>

\* All are on and those who have a connection have met.
MailbagInit ==
    /\ visible = [x \in Services |-> TRUE] /\ nonce = [x \in Services |-> 1]
    /\ own = [x \in Services |-> {}] /\ carried = own /\ taken = own
    /\ found = {<<c[1], c[2], 1>> : c \in AtStart}
    /\ joined = EndsOf(AtStart) /\ wire = [c \in Ends |-> <<>>] /\ named = joined
    /\ greeted = [p \in Pairs |-> IF \E c \in joined : p = <<c[1], c[2]>> THEN 1 ELSE 0]
    /\ advertised = {} /\ missed = {} /\ mishaps = 0

-----------------------------------------------------------------------------
(* Frames.                                                                   *)

Frame(type, what) == [type |-> type, what |-> what]
Back(c) == <<c[2], c[1], IF c[3] = "out" THEN "in" ELSE "out">>
From(x) == {c \in joined : c[1] = x}

\* The connections of two services that both ends have.
Live(x, y) == {c \in joined : c[1] = x /\ c[2] = y /\ Back(c) \in joined}
Unlinked(x) == {p \in Pairs : p[1] = x /\ Live(p[1], p[2]) = {}}
Linked(x) == {p \in Pairs : p[1] = x} \ Unlinked(x)

\* send_frame: to all connections of x but one.
ToAll(w, x, frames, but) ==
    [c \in Ends |-> IF visible[x] /\ c \in From(x) \ but THEN w[c] \o frames ELSE w[c]]

Hello(x) == <<Frame("hello", nonce[x])>>

Newest(S, n) == {e \in S : Cardinality({f \in S : StampOf[f] > StampOf[e]}) < n}
Pruned(S) == Newest(S, MaxBag)
Bag(x) == own[x] \cup carried[x]

\* Frames that are sent one after the other, an event each, are one frame here.  One whose
\* frame is too long is not sent.
Frames(type, S) == IF S = {} THEN <<>> ELSE <<Frame(type, S)>>
EventFrames(S) == Frames("event", S \ Large)

\* send_inventory
Inventory(x, bag) == IF x \in NoMailbag THEN <<>> ELSE Frames("inv", Newest(bag, MaxOffers))

Hushed == \A c \in Ends : wire[c] = <<>>

\* When connections are made and intervals end (a bound).
Calm == Cardinality({c \in Ends : wire[c] # <<>>}) <= MaxBusy

-----------------------------------------------------------------------------
(* Connections.                                                              *)

TurnOn(x) ==
    /\ Calm /\ ~visible[x]
    /\ visible' = [visible EXCEPT ![x] = TRUE] /\ nonce' = [nonce EXCEPT ![x] = @ + 1]
    /\ missed' = {p \in missed : x \notin {p[1], p[2]}}
    /\ UNCHANGED <<own, carried, taken, found, joined, wire, named, greeted, advertised, mishaps>>

\* start, of a service that is on.
Announce(x) ==
    /\ Calm /\ visible[x] /\ From(x) # {}
    /\ wire' = ToAll(wire, x, Hello(x) \o Inventory(x, Bag(x)), {})
    /\ missed' = missed \ Linked(x)
    /\ UNCHANGED <<visible, nonce, own, carried, taken, found, joined, named, greeted, advertised,
                   mishaps>>

\* stop: connections, peers and nonces are forgotten, the bags stay.
TurnOff(x) ==
    /\ x \in Restarting /\ visible[x] /\ mishaps < MaxMishaps /\ mishaps' = mishaps + 1
    /\ visible' = [visible EXCEPT ![x] = FALSE]
    /\ found' = {f \in found : f[1] # x}
    /\ joined' = joined \ From(x)
    /\ wire' = [c \in Ends |-> IF c[2] = x \/ (c[1] = x /\ Back(c) \notin joined)
                               THEN <<>> ELSE wire[c]]
    /\ greeted' = [p \in Pairs |-> IF p[1] = x THEN 0 ELSE greeted[p]]
    /\ UNCHANGED <<nonce, own, carried, taken, named, advertised, missed>>

\* handle_mdns_packet dials an endpoint once.  Both ends say hello to all they have.  The
\* dialler knows from mDNS whom it talks to, the other end does not yet.
Dial(x, y) ==
    LET c == <<x, y, "out">>
        key == <<x, y, nonce[y]>>
        both == joined \cup {c, Back(c)}
        HelloTo == {d \in both : d[1] \in {x, y}}
    IN  /\ Calm /\ visible[x] /\ visible[y] /\ key \notin found
        /\ c \notin joined /\ Back(c) \notin joined
        /\ found' = found \cup {key} /\ joined' = both
        /\ wire' = [d \in Ends |-> IF d \in HelloTo THEN wire[d] \o Hello(d[1]) ELSE wire[d]]
        /\ named' = (named \cup {c}) \ {Back(c)}
        /\ advertised' = advertised \ {Back(c)}
        /\ UNCHANGED <<visible, nonce, own, carried, taken, greeted, missed, mishaps>>

\* A connection breaks: the frames on it are lost.
Break(c) ==
    /\ c \in joined /\ Back(c) \in joined /\ mishaps < MaxMishaps /\ mishaps' = mishaps + 1
    /\ joined' = joined \ {c, Back(c)}
    /\ wire' = [wire EXCEPT ![c] = <<>>, ![Back(c)] = <<>>]
    /\ missed' = IF wire[c] # <<>> \/ wire[Back(c)] # <<>>
                 THEN missed \cup {<<c[1], c[2]>>, <<c[2], c[1]>>} ELSE missed
    /\ UNCHANGED <<visible, nonce, own, carried, taken, found, named, greeted, advertised>>

\* close_connection, when all that the other end had sent is read.
Closed(c) ==
    /\ c \in joined /\ Back(c) \notin joined /\ wire[Back(c)] = <<>>
    /\ joined' = joined \ {c} /\ wire' = [wire EXCEPT ![c] = <<>>]
    /\ UNCHANGED <<visible, nonce, own, carried, taken, found, named, greeted, advertised, missed,
                   mishaps>>

\* The end that was called learns the peer's name from a presence event.
Named(c) ==
    /\ Calm /\ c \in joined \ named /\ named' = named \cup {c}
    /\ UNCHANGED <<visible, nonce, own, carried, taken, found, joined, wire, greeted, advertised,
                   missed, mishaps>>

\* Every HELLO_INTERVAL.
SayHello(x) ==
    /\ Calm /\ visible[x] /\ From(x) # {}
    /\ wire' = ToAll(wire, x, Hello(x), {})
    /\ UNCHANGED <<visible, nonce, own, carried, taken, found, joined, named, greeted, advertised,
                   missed, mishaps>>

\* INVENTORY_RESEND_INTERVAL has passed for all that x advertised to.
OfferAgain(x) ==
    /\ Calm /\ \E k \in advertised : k[1] = x
    /\ advertised' = {k \in advertised : k[1] # x}
    /\ UNCHANGED <<visible, nonce, own, carried, taken, found, joined, wire, named, greeted,
                   missed, mishaps>>

\* run_maintenance forgets a peer that has not been heard for PEER_TTL: it has no connection, or
\* dials endpoints that do not answer and says no hellos meanwhile.
Expire(x, y) ==
    /\ Calm /\ visible[x] /\ greeted[<<x, y>>] # 0
    /\ greeted' = [greeted EXCEPT ![<<x, y>>] = 0]
    /\ advertised' = advertised \ {<<x, y>>}
    /\ missed' = missed \ {<<x, y>>}
    /\ UNCHANGED <<visible, nonce, own, carried, taken, found, joined, wire, named, mishaps>>

-----------------------------------------------------------------------------
(* What a service does with a frame.  c is its end, on which frame came.     *)

Reads(c, type) ==
    /\ c \in joined /\ wire[Back(c)] # <<>> /\ Head(wire[Back(c)]).type = type
Arrived(c) == Head(wire[Back(c)]).what
Rest(c) == [wire EXCEPT ![Back(c)] = Tail(@)]

\* response_key: the peer id, or the id of the connection.
Key(c) == IF c \in named THEN <<c[1], c[2]>> ELSE c

\* Mutant: the bag is offered to a peer only the first time it is met.
HearHelloOnce(c) ==
    LET x == c[1]
        p == <<c[1], c[2]>>
        new == c \in named /\ greeted[p] = 0
        offer == new \/ Key(c) \notin advertised
    IN  /\ Reads(c, "hello")
        /\ greeted' = IF c \in named THEN [greeted EXCEPT ![p] = Arrived(c)] ELSE greeted
        /\ advertised' = advertised \cup {Key(c)}
        /\ wire' = ToAll(Rest(c), x, (IF new THEN Hello(x) ELSE <<>>)
                                     \o (IF offer THEN Inventory(x, Bag(x)) ELSE <<>>), {})
        /\ missed' = IF offer THEN missed \ Linked(x) ELSE missed
        /\ UNCHANGED <<visible, nonce, own, carried, taken, found, joined, named, mishaps>>

\* A peer that is new is said hello to; one that is new or has a new nonce is offered the bag,
\* and any other when it was not within the interval.
HearHello(c) ==
    LET x == c[1]
        p == <<c[1], c[2]>>
        new == c \in named /\ greeted[p] = 0
        changed == c \in named /\ greeted[p] # Arrived(c)
        offer == changed \/ Key(c) \notin advertised
    IN  /\ Reads(c, "hello")
        /\ greeted' = IF c \in named THEN [greeted EXCEPT ![p] = Arrived(c)] ELSE greeted
        /\ advertised' = IF offer THEN advertised \cup {Key(c)} ELSE advertised
        /\ wire' = ToAll(Rest(c), x, (IF new THEN Hello(x) ELSE <<>>)
                                     \o (IF offer THEN Inventory(x, Bag(x)) ELSE <<>>), {})
        /\ missed' = IF offer THEN missed \ Linked(x) ELSE missed
        /\ UNCHANGED <<visible, nonce, own, carried, taken, found, joined, named, mishaps>>

HearOffer(c) ==
    LET x == c[1]
        wants == IF x \in NoMailbag THEN {} ELSE Arrived(c) \ Bag(x)
    IN  /\ Reads(c, "inv")
        /\ wire' = ToAll(Rest(c), x, Frames("want", wants), {})
        /\ UNCHANGED <<visible, nonce, own, carried, taken, found, joined, named, greeted,
                       advertised, missed, mishaps>>

HearWant(c) ==
    LET x == c[1]
        has == IF x \in NoMailbag THEN {} ELSE Arrived(c) \cap Bag(x)
    IN  /\ Reads(c, "want")
        /\ wire' = ToAll(Rest(c), x, EventFrames(has), {})
        /\ UNCHANGED <<visible, nonce, own, carried, taken, found, joined, named, greeted,
                       advertised, missed, mishaps>>

\* An event that is not in the bags goes to the app, into the bag, and the bag is offered to
\* all but the peer it came from, if that has a name.
HearEvent(c) ==
    LET x == c[1]
        new == Arrived(c) \ Bag(x)
        bag == IF x \in NoMailbag THEN carried[x] ELSE Pruned(carried[x] \cup new)
        source == IF c \in named THEN {d \in named : d[1] = x /\ d[2] = c[2]} ELSE {}
    IN  /\ Reads(c, "event")
        /\ IF new = {} THEN wire' = Rest(c) /\ UNCHANGED <<carried, taken, missed>>
           ELSE /\ taken' = [taken EXCEPT ![x] = @ \cup new]
                /\ carried' = [carried EXCEPT ![x] = bag]
                /\ wire' = ToAll(Rest(c), x, Inventory(x, own[x] \cup bag), source)
                /\ missed' = missed \cup Unlinked(x)
        /\ UNCHANGED <<visible, nonce, own, found, joined, named, greeted, advertised, mishaps>>

-----------------------------------------------------------------------------
(* The user.                                                                 *)

\* publish: into the bag, and to all connections.
PublishNearby(e) ==
    LET x == AuthorOf[e] IN
    /\ e \notin taken[x] /\ taken' = [taken EXCEPT ![x] = @ \cup {e}]
    /\ IF x \in NoMailbag THEN UNCHANGED <<own, carried>>
       ELSE /\ own' = [own EXCEPT ![x] = Pruned(@ \cup {e})]
            /\ carried' = [carried EXCEPT ![x] = Pruned(@ \ {e})]
    /\ wire' = ToAll(wire, x, EventFrames({e}), {})
    /\ missed' = missed \cup Unlinked(x)
    /\ UNCHANGED <<visible, nonce, found, joined, named, greeted, advertised, mishaps>>

\* empty_mailbag
Wipe(x) ==
    /\ Bag(x) # {} /\ mishaps < MaxMishaps /\ mishaps' = mishaps + 1
    /\ own' = [own EXCEPT ![x] = {}] /\ carried' = [carried EXCEPT ![x] = {}]
    /\ UNCHANGED <<visible, nonce, taken, found, joined, wire, named, greeted, advertised, missed>>

Hear(c) == HearHello(c) \/ HearOffer(c) \/ HearWant(c) \/ HearEvent(c)

MailbagNext ==
    \/ \E x \in Services : \/ TurnOn(x) \/ Announce(x) \/ TurnOff(x)
                           \/ SayHello(x) \/ OfferAgain(x) \/ Wipe(x)
    \/ \E c \in Ends : Hear(c) \/ Closed(c) \/ Named(c) \/ Break(c)
    \/ \E p \in Dials : Dial(p[1], p[2])
    \/ \E p \in Pairs : Expire(p[1], p[2])
    \/ \E e \in Records : PublishNearby(e)

MailbagSpec == MailbagInit /\ [][MailbagNext]_bagVars

-----------------------------------------------------------------------------
(* Properties.                                                               *)

\* Both have a connection and have heard the hello of the other's present start, over this
\* connection or an earlier one.
Met(x, y) ==
    Live(x, y) # {} /\ greeted[<<x, y>>] = nonce[y] /\ greeted[<<y, x>>] = nonce[x]

\* When nothing is on the way, the app of a service has been given every event that a neighbour
\* it has met offers and that fits into a frame, whatever broke, restarted, was forgotten,
\* emptied or crossed on the way before: no event waits for the next interval because the offer
\* of it, the want or the event itself went to a connection that was closing, came before the
\* peer's name, or was taken for a repetition.  Excepted is what was lost with a connection or
\* came while the two had none, until the neighbour offers its bag again, is started again or
\* forgets the service: on a new connection it offers nothing to a service whose hello it
\* remembers and whose interval has not passed.
NeighboursAgree ==
    Hushed => \A x, y \in Services :
        Met(x, y) /\ {x, y} \cap NoMailbag = {} /\ <<x, y>> \notin missed
            => Newest(Bag(x), MaxOffers) \ Large \subseteq taken[y]
=============================================================================
