--------------------------- MODULE ContractConfig ---------------------------
(***************************************************************************)
(* Administration of the contract: the admin account, the emergency pause, *)
(* the collaborator cap and the token allowlist.  The allowlist is stored  *)
(* three times (a marker key per token, an ordered list, a counter); every *)
(* call that changes one has to change all three.                          *)
(*                                                                         *)
(* A call whose authorisation or argument is refused returns an error and  *)
(* reverts, so it is not a step.                                           *)
(***************************************************************************)
EXTENDS Shares

CONSTANTS
  Tokens,        \* token contracts
  NoAdmin,       \* the Admin key is absent
  Admins,        \* accounts set_admin is called with
  Caps,          \* values set_max_collaborators is called with
  MinCap,        \* MIN_MAX_COLLABORATORS, 2
  MaxCap,        \* MAX_MAX_COLLABORATORS, 200
  DefaultCap     \* DEFAULT_MAX_COLLABORATORS, 50

ASSUME ConfigAssumption ==
  /\ NoAdmin \notin Addresses
  /\ Admins \subseteq Addresses
  /\ MinCap \in Nat /\ MaxCap \in Nat /\ DefaultCap \in MinCap..MaxCap
  /\ Caps \subseteq Nat

VARIABLES
  admin,              \* DataKey::Admin
  paused,             \* DataKey::DistributionsPaused
  maxCollaborators,   \* the effective cap
  allowedTokens,      \* tokens with an AllowedToken(t) marker
  allowedTokenList,   \* DataKey::AllowedTokenList
  allowedTokenCount   \* DataKey::AllowedTokenCount

configVars == <<admin, paused, maxCollaborators,
                allowedTokens, allowedTokenList, allowedTokenCount>>

ConfigTypeOK ==
  /\ admin \in Addresses \cup {NoAdmin}
  /\ paused \in BOOLEAN
  /\ maxCollaborators \in MinCap..MaxCap
  /\ allowedTokens \in SUBSET Tokens
  /\ allowedTokenList \in Seq(Tokens)
  /\ allowedTokenCount \in Nat

ConfigInit ==
  /\ admin = NoAdmin
  /\ paused = FALSE
  /\ maxCollaborators = DefaultCap
  /\ allowedTokens = {}
  /\ allowedTokenList = <<>>
  /\ allowedTokenCount = 0
-----------------------------------------------------------------------------
\* require_contract_admin: the key exists and its account signs the call.
RequireContractAdmin(signer) == admin # NoAdmin /\ signer = admin

\* The first caller may install itself; afterwards the current admin signs.
SetAdmin(signer, a) ==
  /\ signer = IF admin = NoAdmin THEN a ELSE admin
  /\ admin' = a
  /\ UNCHANGED <<paused, maxCollaborators,
                 allowedTokens, allowedTokenList, allowedTokenCount>>

SetPaused(signer, value) ==
  /\ RequireContractAdmin(signer)
  /\ paused' = value
  /\ UNCHANGED <<admin, maxCollaborators,
                 allowedTokens, allowedTokenList, allowedTokenCount>>

PauseDistributions(signer) == SetPaused(signer, TRUE)
UnpauseDistributions(signer) == SetPaused(signer, FALSE)

SetMaxCollaborators(signer, value) ==
  /\ RequireContractAdmin(signer)
  /\ value \in MinCap..MaxCap
  /\ maxCollaborators' = value
  /\ UNCHANGED <<admin, paused,
                 allowedTokens, allowedTokenList, allowedTokenCount>>

\* A token that already has its marker changes nothing.
AllowToken(signer, t) ==
  /\ RequireContractAdmin(signer)
  /\ IF t \in allowedTokens
     THEN UNCHANGED <<allowedTokens, allowedTokenList, allowedTokenCount>>
     ELSE /\ allowedTokens' = allowedTokens \cup {t}
          /\ allowedTokenList' = Append(allowedTokenList, t)
          /\ allowedTokenCount' = allowedTokenCount + 1
  /\ UNCHANGED <<admin, paused, maxCollaborators>>

\* Faulty variant: drops only the first entry of the list.
WithoutFirst(list, t) == IF list = <<>> THEN <<>> ELSE Tail(list)

\* The loop that rebuilds the list without a token.
Without(list, t) == Dropping(list, {i \in DOMAIN list : list[i] = t})

\* The list is rebuilt without the token; the counter saturates at zero.
DisallowToken(signer, t) ==
  /\ RequireContractAdmin(signer)
  /\ IF t \notin allowedTokens
     THEN UNCHANGED <<allowedTokens, allowedTokenList, allowedTokenCount>>
     ELSE /\ allowedTokens' = allowedTokens \ {t}
          /\ allowedTokenList' = Without(allowedTokenList, t)
          /\ allowedTokenCount' =
               IF allowedTokenCount = 0 THEN 0 ELSE allowedTokenCount - 1
  /\ UNCHANGED <<admin, paused, maxCollaborators>>

\* validate_token_allowlist: an empty allowlist admits every token.
TokenAdmitted(t) == allowedTokenCount = 0 \/ t \in allowedTokens

ConfigNext ==
  \E signer \in Addresses :
    \/ \E a \in Admins : SetAdmin(signer, a)
    \/ PauseDistributions(signer)
    \/ UnpauseDistributions(signer)
    \/ \E v \in Caps : SetMaxCollaborators(signer, v)
    \/ \E t \in Tokens : AllowToken(signer, t) \/ DisallowToken(signer, t)

-----------------------------------------------------------------------------
\* The three copies of the allowlist agree: the list enumerates the markers
\* without repetition and the counter is its length.  TokenAdmitted tests the
\* counter and then the marker, so a drift would open or close the contract
\* to every token (allow_token and disallow_token in lib.rs).
AllowlistAgrees ==
  /\ {allowedTokenList[i] : i \in DOMAIN allowedTokenList} = allowedTokens
  /\ \A i, j \in DOMAIN allowedTokenList :
       allowedTokenList[i] = allowedTokenList[j] => i = j
  /\ allowedTokenCount = Len(allowedTokenList)
=============================================================================
