------------------------------- MODULE MCStorage -------------------------------
(* One run for what is stored of a login: a behaviour is the life of one state     *)
(* file (StateFile), or that of the files of one server with the processes that    *)
(* refresh and log in (TokenClient), which take each file as atomic.  The other    *)
(* part never begins.                                                              *)
EXTENDS StateFile_proofs, TLC

CONSTANTS short, long,
          Workers, Modes, Rotates, Faults, Configs, Known, Confidential, Starts,
          MaxGrants, MaxClients

ASSUME TokenConstants ==
  /\ MaxGrants \in Nat \ {0} /\ MaxClients \in Nat /\ Known \in Nat
  /\ Rotates \in BOOLEAN /\ Faults \in BOOLEAN
  /\ Configs \subseteq 0..Known
  /\ Starts \subseteq [owner : 0..Known, named : BOOLEAN, cached : 0..Known, metadata : BOOLEAN]

VARIABLES
  part,
  tokenFile, clientFile, metadata, workerCall, issued, live, owner, clients, expired, past

tokenVars == <<tokenFile, clientFile, metadata, workerCall, issued, live, owner, clients,
               expired, past>>
allVars == <<part, vars, tokenVars>>

T == INSTANCE TokenClient WITH Procs <- Workers, call <- workerCall

Symmetry == Permutations(Workers)

\* Nothing; the tokens of a login whose client another process replaced in client.json;
\* tokens that do not name their client: with its client.json, and those of the
\* confidential client that is configured.
SomeStarts ==
  {[owner |-> 0, named |-> FALSE, cached |-> 0, metadata |-> FALSE],
   [owner |-> 1, named |-> TRUE, cached |-> 3, metadata |-> TRUE],
   [owner |-> 1, named |-> FALSE, cached |-> 1, metadata |-> TRUE],
   [owner |-> 2, named |-> FALSE, cached |-> 0, metadata |-> TRUE]}

Lengths == (short :> 1) @@ (long :> 2)

TokensOff ==
  /\ tokenFile = "off" /\ clientFile = "off" /\ metadata = "off" /\ workerCall = "off"
  /\ issued = "off" /\ live = "off" /\ owner = "off" /\ clients = "off" /\ expired = "off"
  /\ past = "off"

MCInit ==
  \/ part = "file" /\ Init /\ TokensOff
  \/ part = "tokens" /\ Init /\ T!Init

MCNext ==
  \/ part = "file" /\ Next /\ UNCHANGED <<part, tokenVars>>
  \/ part = "tokens" /\ T!Next /\ UNCHANGED <<part, vars>>

MCSpec == MCInit /\ [][MCNext]_allVars

-------------------------------------------------------------------------------
\* The refresh token on disk stays usable: TokenClient!FileRefreshLive.
FileRefreshLive == part = "tokens" => T!FileRefreshLive

\* Refreshes name the client of their tokens: TokenClient!OwnClient.
OwnClient == part = "tokens" => T!OwnClient

\* The file does not return to older tokens: TokenClient!NeverBackwards.
NeverBackwards ==
  [][part = "tokens" => (past.login \/ tokenFile'.access >= tokenFile.access
                           \/ \E w \in Workers : workerCall[w].pc = "clear")]_tokenVars
===============================================================================
