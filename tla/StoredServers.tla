----------------------------- MODULE StoredServers -----------------------------
(***************************************************************************)
(* The directories of the token storage (src/src/auth/storage.ts) as the   *)
(* commands `login` (LoginApp.tsx), `token` (TokenApp.tsx) and `generate`  *)
(* (listKnownServers) use them: a server's key, the URL that is guessed    *)
(* from a key, and tokens that leave as environment variables.             *)
(*                                                                         *)
(* A URL is [scheme, port, path]; all are on one host.  A path is a        *)
(* sequence of "/", "a" (a letter), "_" and "!" (a character that is not   *)
(* safe in a file name); a port is a sequence, <<>> if it is the default.  *)
(***************************************************************************)
EXTENDS Integers, Sequences, SequencesExt, FiniteSets

CONSTANTS
  Urls,        \* the URLs the user may type
  Times,       \* the instants of expiresAt; 0 is one of them
  Buffer       \* DEFAULT_EXPIRY_BUFFER_MS

None == <<>>

VARIABLES
  disk,        \* key |-> the tokens in its directory and the URL they were issued for
  env,         \* the environment of a CI job: variable |-> value
  shell        \* [step, url, tokens]: the command that runs, or the last screen

vars == <<disk, env, shell>>

-------------------------------------------------------------------------------
(* Keys. *)

\* A path without its leading and trailing slashes.
Stripped(path) ==
  LET inner == {i \in DOMAIN path : path[i] # "/"}
  IN IF inner = {} THEN <<>>
     ELSE SubSeq(path, CHOOSE i \in inner : \A j \in inner : i <= j,
                       CHOOSE i \in inner : \A j \in inner : i >= j)

\* Mutant: the slashes around the path are kept.
ServerKeyUnstripped(url) ==
  LET joined == (IF url.port = <<>> THEN <<>> ELSE <<"_">> \o url.port) \o <<"_">> \o url.path
  IN [i \in DOMAIN joined |-> IF joined[i] \in {"/", "!"} THEN "_" ELSE joined[i]]

\* What follows the host in generateServerKey.
ServerKey(url) ==
  LET clean == Stripped(url.path)
      joined == (IF url.port = <<>> THEN <<>> ELSE <<"_">> \o url.port)
                \o (IF clean = <<>> THEN <<>> ELSE <<"_">> \o clean)
  IN [i \in DOMAIN joined |-> IF joined[i] \in {"/", "!"} THEN "_" ELSE joined[i]]

\* listKnownServers: the scheme is https, and every part after the host is one of the path.
KnownUrl(key) ==
  [scheme |-> "https", port |-> <<>>,
   path |-> <<"/">> \o [i \in 1..(Len(key) - 1) |-> IF key[i + 1] = "_" THEN "/" ELSE key[i + 1]]]

-------------------------------------------------------------------------------
(* Tokens. *)

Tokens(url) == [url : {url}, access : {TRUE}, refresh : BOOLEAN, expiresAt : Times \cup {-1}]   \* -1: undefined

\* hasValidToken
Valid(tokens, now) ==
  tokens.access /\ (tokens.expiresAt \in {-1, 0} \/ tokens.expiresAt > now + Buffer)

\* EnvFormat: what is not there, or is zero, is not printed.
EnvFormat(tokens) ==
  [MCP_ACCESS_TOKEN |-> <<tokens.url>>,
   MCP_REFRESH_TOKEN |-> IF tokens.refresh THEN <<tokens.url>> ELSE None,
   MCP_TOKEN_TYPE |-> <<"Bearer">>,
   MCP_TOKEN_EXPIRES_AT |-> IF tokens.expiresAt \in {-1, 0} THEN None ELSE <<tokens.expiresAt>>]

\* loadTokensFromEnv, None without an access token.
LoadTokensFromEnv(variables) ==
  IF variables.MCP_ACCESS_TOKEN = None THEN None
  ELSE <<[url |-> variables.MCP_ACCESS_TOKEN[1], access |-> TRUE,
          refresh |-> variables.MCP_REFRESH_TOKEN # None,
          expiresAt |-> IF variables.MCP_TOKEN_EXPIRES_AT = None THEN -1
                        ELSE variables.MCP_TOKEN_EXPIRES_AT[1]]>>

-------------------------------------------------------------------------------
(* The commands. *)

NoVariables == [v \in {"MCP_ACCESS_TOKEN", "MCP_REFRESH_TOKEN", "MCP_TOKEN_TYPE",
                       "MCP_TOKEN_EXPIRES_AT"} |-> None]

Init ==
  /\ disk = [k \in {ServerKey(u) : u \in Urls} |-> None]
  /\ env = NoVariables
  /\ shell = [step |-> "prompt", url |-> None, tokens |-> None]

Store(url, tokens) ==
  disk' = [k \in DOMAIN disk |-> IF k = ServerKey(url) THEN tokens ELSE disk[k]]

\* LoginApp up to getAccessToken; --force clears the tokens of the key first.
Login ==
  /\ shell.step = "prompt"
  /\ \E url \in Urls, force \in BOOLEAN :
       /\ shell' = [step |-> "authenticating", url |-> <<url>>, tokens |-> None]
       /\ IF force THEN Store(url, None) ELSE UNCHANGED disk
  /\ UNCHANGED env

\* Tokens that are stored and valid are used; otherwise new ones are stored, or the login fails.
Authenticate ==
  /\ shell.step = "authenticating"
  /\ LET url == shell.url[1]
         stored == disk[ServerKey(url)]
     IN \/ /\ stored # None /\ Valid(stored[1], 0)
           /\ shell' = [shell EXCEPT !.step = "done", !.tokens = stored]
           /\ UNCHANGED disk
        \/ /\ ~(stored # None /\ Valid(stored[1], 0))
           /\ \/ \E tokens \in Tokens(url) :
                   /\ Store(url, <<tokens>>)
                   /\ shell' = [shell EXCEPT !.step = "done", !.tokens = <<tokens>>]
              \/ shell' = [shell EXCEPT !.step = "error"] /\ UNCHANGED disk
  /\ UNCHANGED env

\* TokenApp prints what is stored, expired or not.
Token ==
  /\ shell.step = "prompt"
  /\ \E url \in Urls :
       LET stored == disk[ServerKey(url)]
       IN /\ shell' = [step |-> IF stored = None THEN "error" ELSE "exported",
                       url |-> <<url>>, tokens |-> stored]
          /\ env' = IF stored = None THEN env ELSE EnvFormat(stored[1])
  /\ UNCHANGED disk

\* `generate` offers the known servers and asks for the tokens of the URL that was chosen.
SelectKnown ==
  /\ shell.step = "prompt"
  /\ \E key \in DOMAIN disk :
       /\ disk[key] # None
       /\ LET url == KnownUrl(key)
          IN shell' = [step |-> "selected", url |-> <<url>>,
                       tokens |-> IF ServerKey(url) \in DOMAIN disk THEN disk[ServerKey(url)] ELSE None]
  /\ UNCHANGED <<disk, env>>

Prompt ==
  /\ shell.step \notin {"prompt", "authenticating"}
  /\ shell' = [step |-> "prompt", url |-> None, tokens |-> None]
  /\ UNCHANGED <<disk, env>>

Next == Login \/ Authenticate \/ Token \/ SelectKnown \/ Prompt

-------------------------------------------------------------------------------
(* Properties. *)

\* A server whose path begins or ends with "_" in its key, which is taken for a slash.
Ambiguous(url) ==
  LET clean == Stripped(url.path)
  IN clean # <<>> /\ {clean[1], Last(clean)} \cap {"_", "!"} # {}

\* A known server that was chosen has its tokens: the URL guessed from a key leads back to the
\* key, although its scheme, its port and some characters of its path may be wrong, unless the
\* path is Ambiguous.  And the tokens a CI job finds in its environment are valid as long as
\* the exported ones were.
TokensAreFound ==
  /\ shell.step = "selected" =>
       \/ shell.tokens # None
       \/ \E key \in DOMAIN disk : /\ disk[key] # None /\ Ambiguous(disk[key][1].url)
                                  /\ KnownUrl(key) = shell.url[1]
  /\ shell.step = "exported" =>
       LET loaded == LoadTokensFromEnv(env)
       IN /\ loaded # None
          /\ \A now \in Times : Valid(loaded[1], now) = Valid(shell.tokens[1], now)
          /\ loaded[1].refresh = shell.tokens[1].refresh
===============================================================================
