------------------------------ MODULE ClientStore ------------------------------
(***************************************************************************)
(* The client's database with what works on it: the local cards              *)
(* (LocalCards) and the certificate toolbox (PkiToolbox).  They have tables   *)
(* of their own and share the program: when it starts again, both lose the    *)
(* requests they were at.                                                   *)
(***************************************************************************)
EXTENDS LocalCards

CONSTANTS Csrs, CAs, Ids, Keys, MaxIssued, NoKey, NoCsr, NoCA, NoId
VARIABLES csr, ca, cert, work

ASSUME ToolboxAssumption ==
    /\ MaxIssued \in Nat
    /\ NoKey \notin Keys /\ NoCsr \notin Csrs /\ NoCA \notin CAs /\ NoId \notin Ids

Toolbox == INSTANCE PkiToolbox

allVars == <<vars, csr, ca, cert, work>>

StoreInit == Init /\ Toolbox!Init

StartAgain == Restart /\ Toolbox!Restart

CardsStep == /\ \/ Administer
                \/ \E c \in Cards : (\E s \in Secrets : Login(c, s)) \/ Logout(c)
                \/ \E r \in Requests : Request(r) \/ Sign(r)
             /\ UNCHANGED <<csr, ca, cert, work>>

ToolboxStep == /\ Toolbox!Administer \/ \E r \in Requests : Toolbox!Handler(r)
               /\ UNCHANGED vars

StoreNext == StartAgain \/ CardsStep \/ ToolboxStep

StoreSpec == StoreInit /\ [][StoreNext]_allVars

ToolboxTypeOK == Toolbox!TypeOK

\* Types of both parts.
StoreTypeOK == TypeOK /\ ToolboxTypeOK

\* A private key is exported with its own certificate (PkiToolbox).
ExportsItsKey == Toolbox!ExportsItsKey

\* A private key leaves the database only where someone means it to (PkiToolbox).
KeysKept == Toolbox!KeysKept

\* Keys fit: a credential that is right opens the keys it stands for (LocalCards), and
\* a key that is handed out is its certificate's (PkiToolbox).
KeysFit == KeysOpen /\ ExportsItsKey

\* Secrets are changed and dropped only by whoever may: the credentials of the cards
\* (LocalCards) and the private keys of the toolbox (PkiToolbox).
SecretsKept == [][CredentialRules /\ KeysKept]_allVars

=============================================================================
