---------------------------- MODULE MCNtnStartup ----------------------------
(* Configuration files for NtnStartup: variants of one deployable file,     *)
(* each changing the field a startup step reads.                           *)
EXTENDS NtnStartup

CONSTANTS Tables   \* the QoS, Slice, Classifiers and SliceAware tables

MCParsableLevels == {"trace", "debug", "info", "warn", "error"}

\* Only NTN_IP is set in the environment.
MCEnv == [n \in {"NTN_IP", "10.2.2.2", ""} |-> IF n = "NTN_IP" THEN "10.1.1.1" ELSE ""]

NoSections == [s \in {"SMF", "NAS", "NGAP", "Aper", "PathUtil", "OpenApi"} |-> Absent]

Sbi(scheme, port, bind) == [scheme |-> scheme, port |-> port, bindingIPv4 |-> bind]

\* http on the default port, bound to the address in $NTN_IP; the NTN's own
\* logger at debug, an empty NGAP level and an invalid Aper one.
Good == [info |-> [version |-> "1.0.0"],
         configuration |-> [tables |-> Tables, sbi |-> Sbi("http", 0, "NTN_IP")],
         logger |-> [NoSections EXCEPT !.SMF = "debug", !.NGAP = "", !.Aper = "bogus"]]

\* https on port 9000, a literal bind address, no Logger section.
Tls == [Good EXCEPT !.configuration.sbi = Sbi("https", 9000, "10.2.2.2"),
                    !.logger = NoLogger]

\* An empty bind address: all interfaces.
AnyAddr == [Good EXCEPT !.configuration.sbi = Sbi("http", 8080, "")]

OldVersion == [Good EXCEPT !.info = [version |-> "0.9"]]
NoInfoFile == [Good EXCEPT !.info = NoInfo]
NoConfigurationFile == [Good EXCEPT !.configuration = NoConfiguration]
NoSbiFile == [Good EXCEPT !.configuration.sbi = NoSbi]
FtpScheme == [Good EXCEPT !.configuration.sbi = Sbi("ftp", 0, "NTN_IP")]

\* Every combination of the SMF, NAS and NGAP sections: absent, empty, a
\* valid level, or one logrus cannot parse.
SectionValues == {Absent, "", "debug", "verbose"}
LoggerVariants ==
  {[NoSections EXCEPT !.SMF = a, !.NAS = b, !.NGAP = c] :
     a \in SectionValues, b \in SectionValues, c \in SectionValues}

MCFiles == {Good, Tls, AnyAddr, OldVersion, NoInfoFile, NoConfigurationFile,
            NoSbiFile, FtpScheme, Unreadable, BadYaml}
         \cup {[Good EXCEPT !.logger = l] : l \in LoggerVariants}
=============================================================================
