---------------------------- MODULE TokenRegistry ----------------------------
(***************************************************************************)
(* The tokens the wallet knows: package templates.                         *)
(*                                                                         *)
(* Rows of the table are added and removed through the API; tokens enabled *)
(* by configuration live in the memory of the process and are read at its  *)
(* start.  Everything else refers to a token by its name, which is looked  *)
(* up anew each time, without regard to case and with SQL's LIKE, for      *)
(* which "_" stands for any character.                                     *)
(***************************************************************************)
EXTENDS Integers, Sequences, FiniteSets

CONSTANTS
    Contracts,   \* token contracts: [name, address, type]
    Alike,       \* pairs <<asked, stored>> of names: stored LIKE asked
    Enabled,     \* the contracts ENABLED_TOKENS lists
    Added,       \* the contracts AddToken is called with
    InitTokens,  \* the table at the first start
    MaxTokens    \* bound of the instance: rows ever in the table

TokenTypes == {"FT", "NFT"}
Names == {c.name : c \in Contracts}

\* Equal but for case.
SameKey(a, b) == <<a, b>> \in Alike /\ <<b, a>> \in Alike

ASSUME RegistryOK ==
    /\ Contracts # {}
    /\ \A c \in Contracts : DOMAIN c = {"name", "address", "type"} /\ c.type \in TokenTypes
    /\ Alike \subseteq Names \X Names /\ \A n \in Names : <<n, n>> \in Alike
    /\ Enabled \subseteq {c \in Contracts : c.type = "FT"}
    /\ \A c, d \in Enabled : SameKey(c.name, d.name) => c = d
    /\ Added \subseteq Contracts /\ InitTokens \in Seq(Contracts)
    /\ \A i, j \in DOMAIN InitTokens : InitTokens[i].name = InitTokens[j].name => i = j
    /\ MaxTokens \in Nat

VARIABLES
    tokens,  \* the table, by id: a contract, and whether the row is still there
    temp     \* tempStore: what this process has from its configuration

Token == [token : Contracts, live : BOOLEAN]

registryVars == <<tokens, temp>>

-----------------------------------------------------------------------------
\* gorm's First: the row of the lowest id, if there is any.
First(ids) == {i \in ids : \A j \in ids : i <= j}

Live == {i \in DOMAIN tokens : tokens[i].live}
FromTemp(n) == {t \in temp : SameKey(t.name, n)}
FromDB(n) == {tokens[i].token : i \in First({j \in Live : <<n, tokens[j].token.name>> \in Alike})}

\* Faulty variant for mutation testing: it breaks AddKeepsNames in the place of GetByName.
GetByNameTableFirst(n) == IF FromDB(n) # {} THEN FromDB(n) ELSE FromTemp(n)

\* GetTokenByName: no token, or one.
GetByName(n) == IF FromTemp(n) # {} THEN FromTemp(n) ELSE FromDB(n)

\* ListTokens.
Listed == {tokens[i].token : i \in Live} \union temp

DepositEventType(c) == <<c.address, c.name, IF c.type = "FT" THEN "TokensDeposited" ELSE "Deposit">>

\* getTypes: the events that are listened to.
EventTypes == {DepositEventType(c) : c \in Listed}

\* The token of an event which contract c emitted, unless the name leads to another address.
TokenFromEvent(c) == {t \in GetByName(c.name) : t.address = c.address}

-----------------------------------------------------------------------------
RegistryInit ==
    /\ tokens = [i \in DOMAIN InitTokens |-> [token |-> InitTokens[i], live |-> TRUE]]
    /\ temp = {t \in Enabled : FromDB(t.name) = {}}

\* NewService: a token in the table has precedence over its configuration.
Boot ==
    /\ temp' = {t \in Enabled : FromDB(t.name) = {}}
    /\ UNCHANGED tokens

\* The name is unique in the table, case included.
AddToken(t) ==
    /\ Len(tokens) < MaxTokens
    /\ \A i \in Live : tokens[i].token.name # t.name
    /\ tokens' = Append(tokens, [token |-> t, live |-> TRUE])
    /\ UNCHANGED temp

RemoveToken(i) ==
    /\ i \in Live
    /\ tokens' = [tokens EXCEPT ![i].live = FALSE]
    /\ UNCHANGED temp

RegistryStep == (\E t \in Added : AddToken(t)) \/ (\E i \in DOMAIN tokens : RemoveToken(i))

-----------------------------------------------------------------------------
RegistryTypeOK ==
    /\ tokens \in Seq(Token)
    /\ temp \subseteq Enabled
    /\ \A i, j \in Live : tokens[i].token.name = tokens[j].token.name => i = j
=============================================================================
