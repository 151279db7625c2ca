------------------------------ MODULE HttpAuth ------------------------------
(***************************************************************************)
(* Authentication of a download's requests (prism-engine, http/auth.rs and *)
(* the send loop of http/fetcher.rs): the workers share what the server's  *)
(* challenges said, an NTLM handshake holds for one worker's connection.   *)
(* The password is the right one.                                          *)
(*                                                                         *)
(* The server is external: it offers the schemes of Offers, forgets its    *)
(* nonces and drops idle connections when it likes, and answers a repeated *)
(* nonce count with another challenge.                                     *)
(***************************************************************************)
EXTENDS Naturals, FiniteSets

CONSTANTS
  Workers,     \* fetchers
  Schemes,     \* the schemes the credentials may ask for
  OfferSets,   \* the schemes a server may offer
  MaxSends,    \* bound: requests of a worker
  MaxFaults    \* bound: nonces forgotten and connections dropped

VARIABLES
  scheme,    \* Credentials::scheme
  offers,    \* what the server's challenges name
  client,    \* AuthState::client: Basic, or Digest with its nonce and count
  ntlm,      \* AuthState::ntlm
  workers,   \* each fetcher: its step, rounds, ntlm_ready and the header of its request
  conns,     \* the server's side of its connection: "new", "challenged", "open"
  nonces,    \* the server's: those it accepts, and how many it gave out
  used,      \* nonces and counts the server has seen
  replayed,  \* a request repeated a nonce and its count
  faults, sends

server == <<offers, conns, nonces, used, replayed>>
vars == <<scheme, client, ntlm, workers, server, faults, sends>>

NoClient == [is |-> "none", nonce |-> 0, count |-> 0]
Nothing == [is |-> "none", nonce |-> 0, count |-> 0]
Idle == [at |-> "idle", rounds |-> 0, ready |-> FALSE, header |-> Nothing]

Init ==
  /\ scheme \in Schemes /\ offers \in OfferSets
  /\ client = NoClient /\ ntlm = (scheme = "ntlm")
  /\ workers = [w \in Workers |-> Idle] /\ conns = [w \in Workers |-> "new"]
  /\ nonces = [valid |-> {}, given |-> 0] /\ used = {} /\ replayed = FALSE
  /\ faults = 0 /\ sends = [w \in Workers |-> 0]

------------------------------------------------------------------------------
(* The client's side.                                                       *)

\* send
Send(w) ==
  /\ workers[w].at \in {"idle", "done"} /\ sends[w] < MaxSends
  /\ workers' = [workers EXCEPT ![w].at = "build", ![w].rounds = 0]
  /\ sends' = [sends EXCEPT ![w] = @ + 1]
  /\ UNCHANGED <<scheme, client, ntlm, server, faults>>

\* Mutant: the answer comes from a copy of the shared client.
Counted_Copy(c) == c
Counted(c) == IF c.is = "digest" THEN [c EXCEPT !.count = @ + 1] ELSE c

\* authorization, under the lock: an answer to the challenge seen last; without one, Basic
\* credentials are sent unasked.
Authorization ==
  IF client.is # "none" THEN Counted(client)
  ELSE IF scheme = "basic" THEN [Nothing EXCEPT !.is = "basic"] ELSE Nothing

Build(w) ==
  LET handshake == ntlm /\ ~workers[w].ready
  IN /\ workers[w].at = "build"
     /\ client' = IF handshake THEN client ELSE Counted(client)
     /\ workers' = [workers EXCEPT ![w].at = IF handshake THEN "leg1" ELSE "sent",
                      ![w].header = IF handshake THEN [Nothing EXCEPT !.is = "negotiate"] ELSE Authorization]
     /\ UNCHANGED <<scheme, ntlm, server, faults, sends>>

\* Mutant: a worker answered 401 thinks its connection is still authenticated.
Unready_Never(ready) == ready
Unready(ready) == FALSE

\* on_challenge of a 401, with what the server offers.
WantsNtlm == scheme = "ntlm" \/ (scheme = "auto" /\ "ntlm" \in offers /\ "digest" \notin offers)
Allowed == CASE scheme = "auto" -> {"basic", "digest"} \cap offers
             [] scheme = "ntlm" -> {}
             [] OTHER -> {scheme} \cap offers

\* The library behind PasswordClient prefers Digest.
ClientFor(nonce) == IF "digest" \in Allowed THEN [is |-> "digest", nonce |-> nonce, count |-> 0]
                    ELSE [NoClient EXCEPT !.is = "basic"]

Fails(w) == /\ workers' = [workers EXCEPT ![w].at = "refused"]
            /\ UNCHANGED <<client, ntlm>>

\* A 401 arrived; nonce is the one it came with.
Refused(w, nonce) ==
  LET again == [workers EXCEPT ![w].at = "build", ![w].rounds = @ + 1, ![w].ready = Unready(@)]
  IN IF workers[w].rounds >= 2 THEN Fails(w)
     ELSE IF WantsNtlm /\ "ntlm" \in offers
     THEN ntlm' = TRUE /\ workers' = again /\ UNCHANGED client
     ELSE IF Allowed # {}
     THEN client' = ClientFor(nonce) /\ workers' = again /\ UNCHANGED ntlm
     ELSE Fails(w)

Answered(w) == /\ workers' = [workers EXCEPT ![w].at = "done", ![w].ready = IF ntlm THEN TRUE ELSE @]
               /\ UNCHANGED <<client, ntlm>>

------------------------------------------------------------------------------
(* The server's answer, and what the worker does with it.                   *)

Accepts(w) ==
  LET h == workers[w].header
  IN CASE h.is = "basic"  -> "basic" \in offers
       [] h.is = "digest" -> h.nonce \in nonces.valid /\ <<h.nonce, h.count>> \notin used
       [] OTHER           -> conns[w] = "open"

Note(w) ==
  LET h == workers[w].header
  IN /\ used' = IF h.is = "digest" THEN used \cup {<<h.nonce, h.count>>} ELSE used
     /\ replayed' = (replayed \/ (h.is = "digest" /\ <<h.nonce, h.count>> \in used))

\* A request outside the handshake.
Answer(w) ==
  /\ workers[w].at = "sent" /\ Note(w)
  /\ IF Accepts(w) THEN Answered(w) /\ UNCHANGED nonces
     ELSE /\ Refused(w, nonces.given + 1)
          /\ nonces' = IF "digest" \in offers
                       THEN [valid |-> nonces.valid \cup {nonces.given + 1}, given |-> nonces.given + 1]
                       ELSE nonces
  /\ UNCHANGED <<scheme, offers, conns, faults, sends>>

\* ntlm_handshake, first leg: a connection that needs none answers at once; a challenge is
\* answered on the same connection; a server that offers no NTLM is a refusal.
Leg1(w) ==
  /\ workers[w].at = "leg1"
  /\ IF conns[w] = "open" THEN Answered(w) /\ UNCHANGED conns
     ELSE IF "ntlm" \in offers
     THEN /\ conns' = [conns EXCEPT ![w] = "challenged"]
          /\ workers' = [workers EXCEPT ![w].at = "leg3"] /\ UNCHANGED <<client, ntlm>>
     ELSE Fails(w) /\ UNCHANGED conns
  /\ UNCHANGED <<scheme, offers, nonces, used, replayed, faults, sends>>

\* The third leg: a connection the server dropped in between is a new one to it.
Leg3(w) ==
  /\ workers[w].at = "leg3"
  /\ IF conns[w] = "challenged"
     THEN Answered(w) /\ conns' = [conns EXCEPT ![w] = "open"]
     ELSE Refused(w, 0) /\ UNCHANGED conns
  /\ UNCHANGED <<scheme, offers, nonces, used, replayed, faults, sends>>

Forget ==
  /\ faults < MaxFaults /\ nonces.valid # {}
  /\ nonces' = [nonces EXCEPT !.valid = {}] /\ faults' = faults + 1
  /\ UNCHANGED <<scheme, client, ntlm, workers, offers, conns, used, replayed, sends>>

Drop(w) ==
  /\ faults < MaxFaults /\ conns[w] # "new"
  /\ conns' = [conns EXCEPT ![w] = "new"] /\ faults' = faults + 1
  /\ UNCHANGED <<scheme, client, ntlm, workers, offers, nonces, used, replayed, sends>>

Next == \/ \E w \in Workers : Send(w) \/ Build(w) \/ Answer(w) \/ Leg1(w) \/ Leg3(w) \/ Drop(w)
        \/ Forget
Spec == Init /\ [][Next]_vars

------------------------------------------------------------------------------
TypeOK ==
  /\ client.is \in {"none", "basic", "digest"} /\ ntlm \in BOOLEAN
  /\ \A w \in Workers : /\ workers[w].at \in {"idle", "build", "sent", "leg1", "leg3", "done", "refused"}
                        /\ workers[w].rounds \in 0 .. 2
                        /\ conns[w] \in {"new", "challenged", "open"}

\* However the workers' requests interleave, none repeats a nonce with the same count: the
\* server would take it for a replay.
CountsAreFresh == ~replayed

\* A server with a scheme the credentials may use lets every request in, with a nonce that
\* expired or a connection that was lost on the way: two rounds of challenges are enough.
Usable == Allowed # {} \/ ("ntlm" \in offers /\ scheme \in {"ntlm", "auto"})
RightPasswordGetsIn == Usable => \A w \in Workers : workers[w].at # "refused"
=============================================================================
