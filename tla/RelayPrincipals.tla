--------------------------- MODULE RelayPrincipals ---------------------------
(***************************************************************************)
(* Caller identities (src/src/mcp_relay/principals.py): the principals of  *)
(* the file PRINCIPALS_FILE, read once at startup, and what a bearer token *)
(* resolves to.  A configuration is the list of principals in the file,    *)
(* tokens with their ${VAR} expanded; <<>> stands for no file as well.     *)
(***************************************************************************)
EXTENDS Naturals, Sequences

CONSTANTS BlankId,    \* an id of white space only
          BadTokens,  \* tokens that are empty or could not be expanded
          NoToken,    \* no "Bearer <token>" in the request
          AllServers, \* servers: null
          Nobody      \* resolve() returned None

\* Where a token stands in the file.
Places(cfg) == UNION {{i} \X (1..Len(cfg[i].tokens)) : i \in 1..Len(cfg)}
TokenAt(cfg, p) == cfg[p[1]].tokens[p[2]]

TokensDistinct(cfg) ==
  \A p, q \in Places(cfg) : TokenAt(cfg, p) = TokenAt(cfg, q) => p = q

\* load_principals accepts the file; otherwise the relay does not start.
Loads(cfg) ==
  /\ \A i \in 1..Len(cfg) : cfg[i].id # BlankId /\ cfg[i].tokens # <<>>
  /\ \A i, j \in 1..Len(cfg) : cfg[i].id = cfg[j].id => i = j
  /\ \A p \in Places(cfg) : TokenAt(cfg, p) \notin BadTokens
  /\ TokensDistinct(cfg)

\* PrincipalRegistry: principals are configured, so identity is checked.
Shared(cfg) == cfg # <<>>

\* _by_token is filled principal by principal: the last one to list a token has it.
Holders(cfg, t) == {p[1] : p \in {q \in Places(cfg) : TokenAt(cfg, q) = t}}
ByToken(cfg, t) == CHOOSE i \in Holders(cfg, t) : \A j \in Holders(cfg, t) : j <= i

Resolve(cfg, t) ==
  IF t = NoToken \/ Holders(cfg, t) = {} THEN Nobody ELSE cfg[ByToken(cfg, t)]

AllowsServer(principal, n) ==
  principal.servers = AllServers \/ n \in principal.servers

-----------------------------------------------------------------------------
\* If the relay starts, a token resolves to the one principal that lists it: no
\* tenant's token is another's, whatever the order of the file.
TokensResolve(cfg) ==
  Loads(cfg) =>
    \A p \in Places(cfg), i \in 1..Len(cfg) :
      TokenAt(cfg, p) # NoToken =>
        (Resolve(cfg, TokenAt(cfg, p)) = cfg[i] <=> i = p[1])
=============================================================================
