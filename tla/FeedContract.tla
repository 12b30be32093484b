---------------------------- MODULE FeedContract ----------------------------
(***************************************************************************)
(* What a device feed promises the client that follows it, whatever it     *)
(* keeps in between (docs of SubscribeWithRevision, Publish and            *)
(* TakePendingResync in eventbus.go): the client starts from the revision  *)
(* current when it asked, is handed what follows in order, and may be left *)
(* out of a change only if it is then owed word that it missed something.  *)
(***************************************************************************)
EXTENDS Naturals

CONSTANTS
    Feed,       \* the clients' subscriptions
    Device,
    NoDevice    \* what a closed feed follows

VARIABLES
    newest,     \* [Device -> the number of its latest change]
    topic,      \* [Feed -> the device it follows]
    known,      \* [Feed -> the latest change its client has been told of]
    coming,     \* [Feed -> the changes accepted for it and not handed out]
    owed        \* the feeds whose client must be told that it missed something

vars == <<newest, topic, known, coming, owed>>

Later(a, b) == IF a > b THEN a ELSE b

Init ==
    /\ newest = [d \in Device |-> 0]
    /\ topic = [f \in Feed |-> NoDevice]
    /\ known = [f \in Feed |-> 0]
    /\ coming = [f \in Feed |-> {}]
    /\ owed = {}

Open(f, d) ==
    /\ topic[f] = NoDevice
    /\ topic' = [topic EXCEPT ![f] = d]
    /\ known' = [known EXCEPT ![f] = newest[d]]
    /\ UNCHANGED <<newest, coming, owed>>

Close(f) ==
    /\ topic[f] # NoDevice
    /\ topic' = [topic EXCEPT ![f] = NoDevice]
    /\ coming' = [coming EXCEPT ![f] = {}]
    /\ UNCHANGED <<newest, known, owed>>

\* Device d changes, and the feeds in leftOut cannot take the change.
Change(d, leftOut) ==
    /\ newest' = [newest EXCEPT ![d] = @ + 1]
    /\ coming' = [f \in Feed |-> IF topic[f] = d /\ f \notin leftOut
                                 THEN coming[f] \cup {newest[d] + 1} ELSE coming[f]]
    /\ owed' = owed \cup leftOut
    /\ UNCHANGED <<topic, known>>

\* The oldest accepted change is handed out.  It leaves no gap behind it unless
\* the client is owed word of what it missed.
HandOut(f) ==
    /\ topic[f] # NoDevice
    /\ \E r \in coming[f] :
        /\ \A q \in coming[f] : r <= q
        /\ r <= known[f] + 1 \/ f \in owed
        /\ coming' = [coming EXCEPT ![f] = @ \ {r}]
        /\ known' = [known EXCEPT ![f] = Later(@, r)]
    /\ UNCHANGED <<newest, topic, owed>>

\* The client is told that it missed something and where the device stands now.
Tell(f) ==
    /\ topic[f] # NoDevice
    /\ f \in owed
    /\ known' = [known EXCEPT ![f] = newest[topic[f]]]
    /\ owed' = owed \ {f}
    /\ UNCHANGED <<newest, topic, coming>>

Next ==
    \/ \E d \in Device : \E leftOut \in SUBSET {f \in Feed : topic[f] = d} :
            Change(d, leftOut)
    \/ \E f \in Feed :
        \/ \E d \in Device : Open(f, d)
        \/ Close(f)
        \/ HandOut(f)
        \/ Tell(f)

Spec == Init /\ [][Next]_vars

=============================================================================
