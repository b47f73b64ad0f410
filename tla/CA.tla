---------------------------------- MODULE CA ----------------------------------
(***************************************************************************)
(* The certificate authority of the proxy (certutil/ca.go, install.go) and *)
(* the other files of the data directory (Config) over several runs of the *)
(* program.  Init looks for a CA in the directory, writes one if there is  *)
(* none, and the proxy signs with what the file then holds; --install-ca   *)
(* gives the certificate file to the system's trust store.                 *)
(***************************************************************************)
EXTENDS Config

VARIABLES
  combo,     \* mitmproxy-ca.pem: the CA of its key and of its certificate, None if missing
  certFile,  \* mitmproxy-ca-cert.pem: its CA, None if it is missing or has no certificate yet
  ca,        \* process -> the CA it generated
  signed,    \* the CAs a proxy has run with
  trusted,   \* the CAs in the system's trust store
  madeCAs    \* number of CAs generated

caVars == <<combo, certFile, ca, signed, trusted, madeCAs>>
ddVars == <<cfVars, caVars>>

None == 0
\* The CA go-mitmproxy once made itself, whose name is another.
OtherName == -1

HasOther == [key |-> OtherName, cert |-> OtherName]
NoCombo == [key |-> None, cert |-> None]

DdInit ==
  /\ CfInit
  /\ \/ combo = NoCombo /\ certFile = None
     \/ combo = HasOther /\ certFile = OtherName
  /\ ca = [a \in Procs |-> None]
  /\ signed = {} /\ trusted = {} /\ madeCAs = 0

\* A step of Init, which leaves the configuration's files alone.
InitStep(a, from, to) ==
  /\ Moves(a, from, to)
  /\ UNCHANGED <<file, legacy, first, job, cfg, settings, edited, history, saw, made, runs>>

-----------------------------------------------------------------------------

\* The file is there.
hasCorrectCNExists == combo # NoCombo

hasCorrectCN == combo.cert \notin {None, OtherName}

\* EnsureCA's early return, or generateCA.
LookForCA(a) ==
  /\ InitStep(a, "init", IF hasCorrectCN THEN "load" ELSE "create")
  /\ madeCAs' = IF hasCorrectCN THEN madeCAs ELSE madeCAs + 1
  /\ ca' = [ca EXCEPT ![a] = IF hasCorrectCN THEN @ ELSE madeCAs']
  /\ UNCHANGED <<combo, certFile, signed, trusted>>

\* os.Create truncates what was there; the key's block and then the certificate's.
WriteCombo(a) ==
  /\ \/ InitStep(a, "create", "key") /\ combo' = NoCombo
     \/ InitStep(a, "key", "cert") /\ combo' = [combo EXCEPT !.key = ca[a]]
     \/ InitStep(a, "cert", "pem") /\ combo' = [combo EXCEPT !.cert = ca[a]]
  /\ UNCHANGED <<certFile, ca, signed, trusted, madeCAs>>

\* The certificate alone, for the user (the .cer file after it is not read by the code).
WriteCertFile(a) ==
  /\ \/ InitStep(a, "pem", "writePem") /\ certFile' = None
     \/ InitStep(a, "writePem", "load") /\ certFile' = ca[a]
  /\ UNCHANGED <<combo, ca, signed, trusted, madeCAs>>

\* mp.NewProxy reads the key and the certificate; a file without both ends the process.
LoadCA(a) ==
  LET whole == combo.key # None /\ combo.cert # None
      next == CASE job[a] = "install" -> "install"
                [] job[a] = "serve" -> "token"
                [] OTHER -> "tui"
  IN  /\ InitStep(a, "load", IF whole THEN next ELSE "off")
      /\ signed' = IF whole /\ job[a] # "install" THEN signed \cup {combo.cert} ELSE signed
      /\ UNCHANGED <<combo, certFile, ca, trusted, madeCAs>>

\* Install takes what the certificate file holds, if anything.
Install(a) ==
  /\ InitStep(a, "install", "off")
  /\ trusted' = IF certFile = None THEN trusted ELSE trusted \cup {certFile}
  /\ UNCHANGED <<combo, certFile, ca, signed, madeCAs>>

CaNext == \E a \in Procs :
  LookForCA(a) \/ WriteCombo(a) \/ WriteCertFile(a) \/ LoadCA(a) \/ Install(a)

DdNext == CaNext \/ (CfNext /\ UNCHANGED caVars)

DdSpec == DdInit /\ [][DdNext]_ddVars

-----------------------------------------------------------------------------
(* Properties *)

\* Over all runs, whatever is interrupted, clients see one CA: a half-written one is never
\* used and never keeps a later run from making a whole one, a whole one is never
\* replaced, and one that the user has trusted is the one that signs (a trusted CA of
\* another name is the matter of CertFileIsCA).  Init takes no lock, so it holds as long
\* as no process starts while another one is between its start and its TUI.
OneCA ==
  ~raced =>
    /\ \A c, d \in signed : c = d
    /\ OtherName \notin signed
    /\ \A c \in trusted \ {OtherName} : signed \subseteq {c}
    /\ \A a \in Procs : ppc[a] = "load" => combo.key = combo.cert /\ combo.cert > None

-----------------------------------------------------------------------------
(* What the documentation says and the code does not do: TLC refutes this  *)
(* (README, "Divergences").                                                *)

\* "EnsureCA creates the CA key+cert files in dir if they don't already exist with the
\* correct CN.  Returns the path to the PEM cert file": the file Install and the user are
\* given holds the certificate of the CA that signs.
CertFileIsCA == \A a \in Procs : ppc[a] = "install" => certFile = combo.cert
=============================================================================
