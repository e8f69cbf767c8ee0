----------------------------- MODULE MCComponents -----------------------------
(***************************************************************************)
(* The components of the program outside of a session, whose steps are     *)
(* handlers of the main loop, and what it stores: as in MCHandlers, a      *)
(* behaviour is about one of the parts, chosen in the initial state, and   *)
(* the variables s1, s2, ... are those of its module.                      *)
(***************************************************************************)
EXTENDS Integers, Sequences, FiniteSets, TLC

CONSTANTS
    Panels,                         \* MessagePanels: panels
    Profiles, GroupProfiles,        \* MainWindow: profiles, those in the group ...
    LockedProfiles,                 \* ... and those with a lock of their own
    Windows, MaxLoops,              \* AppLife: windows, bound of the nested questions
    Places, MaxMessages,            \* ServiceDiscovery: places, bound of the messages
    Natives, Pythons, MaxRequests,  \* PluginManager: plugins offered, bound of the requests
    SavedPasswords, Copies,         \* ProfileStore: passwords, copies of a profile in memory
    Searched,                       \* MultiPassword: profiles
    Servers,                        \* Preferences: servers
    Texts, MaxRows,                 \* StringList: texts a user enters, bound of the list
    Groups,                         \* FileManager: the groups of the profiles
    Names, CopyName, MaxIds,        \* FileEditor: names, the name of a copy, bound of the profiles
    ImportFiles                     \* QuickConnect: files to import

VARIABLES
    component,  \* which of the parts this behaviour is about
    s1, s2, s3, s4, s5, s6, s7, s8, s9, s10, s11, s12, s13, s14, s15

ComponentVars == <<component, s1, s2, s3, s4, s5, s6, s7, s8, s9, s10, s11, s12, s13, s14, s15>>

MessagePanels == INSTANCE MessagePanels WITH
    page <- s1, box <- s2, visible <- s3, auth <- s4, loop <- s5, response <- s6,
    thread <- s7, setup <- s8, button <- s9, crashed <- s10, Panels <- Panels

MainWindow == INSTANCE MainWindow WITH
    pref <- s1, disk <- s2, view <- s3, selected <- s4, lit <- s5, op <- s6,
    unasked <- s7, wrong <- s8, hist <- s9, fault <- s10, Files <- Profiles,
    Grouped <- GroupProfiles, Locked <- LockedProfiles

AppLife == INSTANCE AppLife WITH
    main <- s1, pool <- s2, conn <- s3, idles <- s4, tray <- s5, kiosk <- s6,
    asks <- s7, noask <- s8, loops <- s9, quit <- s10, hist <- s11, fault <- s12,
    Windows <- Windows, MaxLoops <- MaxLoops

TrayIcon == INSTANCE TrayIcon WITH
    disabled <- s1, dark <- s2, icon <- s3, autostart_file <- s4, file <- s5,
    wanted <- s6, hist <- s7

Discovery == INSTANCE ServiceDiscovery WITH
    known <- s1, up <- s2, enabled <- s3, ga <- s4, queue <- s5, resolvers <- s6,
    discovered <- s7, missed <- s8, Places <- Places, MaxMessages <- MaxMessages

Plugins == INSTANCE PluginManager WITH
    dir <- s1, imode <- s2, works <- s3, table <- s4, loaded <- s5, secret <- s6,
    available <- s7, window <- s8, listed <- s9, downloading <- s10, result <- s11,
    asked <- s12, idles <- s13, hist <- s14, fault <- s15, Natives <- Natives,
    Pythons <- Pythons, MaxRequests <- MaxRequests

Store == INSTANCE ProfileStore WITH
    world <- s1, disk <- s2, keyring <- s3, copy <- s4, saved <- s5, hist <- s6,
    fault <- s7, Passwords <- SavedPasswords, Copies <- Copies

MultiPassword == INSTANCE MultiPassword WITH
    dialog <- s1, typed <- s2, searched <- s3, timer <- s4, list <- s5, iter <- s6,
    stale <- s7, changed <- s8, count <- s9, Files <- Searched

Preferences == INSTANCE Preferences WITH
    run <- s1, mem <- s2, disk <- s3, scheme <- s4, dialog <- s5, meant <- s6,
    hist <- s7, Servers <- Servers

StringList == INSTANCE StringList WITH
    two_columns <- s1, stored <- s2, rows <- s3, open <- s4, selected <- s5, left <- s6,
    fresh <- s7, divided <- s8, Texts <- Texts, MaxRows <- MaxRows

FileManager == INSTANCE FileManager WITH
    run <- s1, chosen <- s2, there <- s3, file <- s4, saved <- s5, moved <- s6,
    read <- s7, list <- s8, tree <- s9, Groups <- Groups

FileEditor == INSTANCE FileEditor WITH
    disk <- s1, editor <- s2, conn <- s3, kept <- s4, hist <- s5, fault <- s6,
    Names <- Names, CopyName <- CopyName, MaxIds <- MaxIds

QuickConnect == INSTANCE QuickConnect WITH
    meant <- s1, opened <- s2, typed <- s3, protocol <- s4, import <- s5,
    Files <- ImportFiles

ASSUME ComponentBounds ==
    /\ "none" \notin Panels
    /\ MaxLoops \in Nat \ {0} /\ {"", "quit", "main", "dialog"} \cap Windows = {}
    /\ IsFiniteSet(Places) /\ MaxMessages \in Nat /\ Cardinality(Places) <= MaxMessages
    /\ IsFiniteSet(Natives) /\ IsFiniteSet(Pythons) /\ Natives \cap Pythons = {}
    /\ "freed" \notin Natives /\ MaxRequests \in Nat \ {0}
    /\ "none" \notin SavedPasswords /\ IsFiniteSet(Searched)
    /\ Texts \subseteq Seq(StringList!Tokens) /\ MaxRows \in Nat
    /\ Groups \subseteq Seq(Nat) \ {<<>>}
    /\ "none" \notin Names /\ CopyName \in [Names -> Names] /\ MaxIds \in Nat

ComponentInit ==
    \/ /\ component = "MessagePanels" /\ MessagePanels!Init
       /\ s11 = 0 /\ s12 = 0 /\ s13 = 0 /\ s14 = 0 /\ s15 = 0
    \/ /\ component = "MainWindow" /\ MainWindow!Init
       /\ s11 = 0 /\ s12 = 0 /\ s13 = 0 /\ s14 = 0 /\ s15 = 0
    \/ /\ component = "AppLife" /\ AppLife!Init
       /\ s13 = 0 /\ s14 = 0 /\ s15 = 0
    \/ /\ component = "TrayIcon" /\ TrayIcon!Init
       /\ s8 = 0 /\ s9 = 0 /\ s10 = 0 /\ s11 = 0 /\ s12 = 0 /\ s13 = 0 /\ s14 = 0 /\ s15 = 0
    \/ /\ component = "Discovery" /\ Discovery!Init
       /\ s9 = 0 /\ s10 = 0 /\ s11 = 0 /\ s12 = 0 /\ s13 = 0 /\ s14 = 0 /\ s15 = 0
    \/ /\ component = "Plugins" /\ Plugins!Init
    \/ /\ component = "Store" /\ Store!Init
       /\ s8 = 0 /\ s9 = 0 /\ s10 = 0 /\ s11 = 0 /\ s12 = 0 /\ s13 = 0 /\ s14 = 0 /\ s15 = 0
    \/ /\ component = "MultiPassword" /\ MultiPassword!Init
       /\ s10 = 0 /\ s11 = 0 /\ s12 = 0 /\ s13 = 0 /\ s14 = 0 /\ s15 = 0
    \/ /\ component = "Preferences" /\ Preferences!Init
       /\ s8 = 0 /\ s9 = 0 /\ s10 = 0 /\ s11 = 0 /\ s12 = 0 /\ s13 = 0 /\ s14 = 0 /\ s15 = 0
    \/ /\ component = "StringList" /\ StringList!Init
       /\ s9 = 0 /\ s10 = 0 /\ s11 = 0 /\ s12 = 0 /\ s13 = 0 /\ s14 = 0 /\ s15 = 0
    \/ /\ component = "FileManager" /\ FileManager!Init
       /\ s10 = 0 /\ s11 = 0 /\ s12 = 0 /\ s13 = 0 /\ s14 = 0 /\ s15 = 0
    \/ /\ component = "FileEditor" /\ FileEditor!Init
       /\ s7 = 0 /\ s8 = 0 /\ s9 = 0 /\ s10 = 0 /\ s11 = 0 /\ s12 = 0 /\ s13 = 0 /\ s14 = 0
       /\ s15 = 0
    \/ /\ component = "QuickConnect" /\ QuickConnect!Init
       /\ s6 = 0 /\ s7 = 0 /\ s8 = 0 /\ s9 = 0 /\ s10 = 0 /\ s11 = 0 /\ s12 = 0 /\ s13 = 0
       /\ s14 = 0 /\ s15 = 0

ComponentNext ==
    \/ /\ component = "MessagePanels" /\ MessagePanels!Next
       /\ UNCHANGED <<component, s11, s12, s13, s14, s15>>
    \/ /\ component = "MainWindow" /\ MainWindow!Next
       /\ UNCHANGED <<component, s11, s12, s13, s14, s15>>
    \/ component = "AppLife" /\ AppLife!Next /\ UNCHANGED <<component, s13, s14, s15>>
    \/ /\ component = "TrayIcon" /\ TrayIcon!Next
       /\ UNCHANGED <<component, s8, s9, s10, s11, s12, s13, s14, s15>>
    \/ /\ component = "Discovery" /\ Discovery!Next
       /\ UNCHANGED <<component, s9, s10, s11, s12, s13, s14, s15>>
    \/ component = "Plugins" /\ Plugins!Next /\ UNCHANGED <<component>>
    \/ /\ component = "Store" /\ Store!Next
       /\ UNCHANGED <<component, s8, s9, s10, s11, s12, s13, s14, s15>>
    \/ /\ component = "MultiPassword" /\ MultiPassword!Next
       /\ UNCHANGED <<component, s10, s11, s12, s13, s14, s15>>
    \/ /\ component = "Preferences" /\ Preferences!Next
       /\ UNCHANGED <<component, s8, s9, s10, s11, s12, s13, s14, s15>>
    \/ /\ component = "StringList" /\ StringList!Next
       /\ UNCHANGED <<component, s9, s10, s11, s12, s13, s14, s15>>
    \/ /\ component = "FileManager" /\ FileManager!Next
       /\ UNCHANGED <<component, s10, s11, s12, s13, s14, s15>>
    \/ /\ component = "FileEditor" /\ FileEditor!Next
       /\ UNCHANGED <<component, s7, s8, s9, s10, s11, s12, s13, s14, s15>>
    \/ /\ component = "QuickConnect" /\ QuickConnect!Next
       /\ UNCHANGED <<component, s6, s7, s8, s9, s10, s11, s12, s13, s14, s15>>

ComponentSpec == ComponentInit /\ [][ComponentNext]_ComponentVars

-----------------------------------------------------------------------------

(* Values of the constants.                                               *)

\* One service, found on two interfaces.
DiscoveryPlaces == {<<"s", 1>>, <<"s", 2>>}

\* No text, one, one with a comma and one with the sign that divides the columns.
ListTexts == {<<>>, <<"x">>, <<"x", ",", "x">>, <<"x", "sep", "x">>}

\* The names of the groups, as the numbers of their parts; 0 is an empty one.
TreeGroups == {<<0>>, <<1, 1>>, <<1, 3>>, <<2, 0, 1>>, <<3, 0>>}

\* The copy of a profile has the name of another.
NameOfCopy == [n \in {"name", "b"} |-> "b"]

\* Every component keeps its variables in their types.
ComponentsTyped ==
    /\ component = "MessagePanels" => MessagePanels!TypeOK
    /\ component = "MainWindow" => MainWindow!TypeOK
    /\ component = "AppLife" => AppLife!TypeOK
    /\ component = "TrayIcon" => TrayIcon!TypeOK
    /\ component = "Discovery" => Discovery!TypeOK
    /\ component = "Plugins" => Plugins!TypeOK
    /\ component = "Store" => Store!TypeOK
    /\ component = "MultiPassword" => MultiPassword!TypeOK
    /\ component = "Preferences" => Preferences!TypeOK
    /\ component = "StringList" => StringList!TypeOK
    /\ component = "FileManager" => FileManager!TypeOK
    /\ component = "FileEditor" => FileEditor!TypeOK
    /\ component = "QuickConnect" => QuickConnect!TypeOK

\* "Each cnnobj->page can have more than one RemminaMessagePanel, but 0 or 1 are visible"
\* (rcw.c), none only when there is no panel, no panel is twice on the page, and that of a
\* dialog stays there as long as the answer is awaited.
PanelsRight ==
    component = "MessagePanels" =>
       MessagePanels!OneVisible /\ MessagePanels!NoDuplicates /\ MessagePanels!DialogOnPage

\* What is stored is what was meant: the password that was saved is the one that is read,
\* what is deleted is forgotten, a password is changed in the profiles that are ticked, what
\* the user chose is there in the next run, a profile has one file and stays until it is
\* deleted, and what is typed or imported is what opens.
StoreSafe ==
    /\ component = "Store" => Store!PasswordKept /\ Store!SecretsForgotten /\ Store!StoreFaults
    /\ component = "MultiPassword" => MultiPassword!ChangesTicked /\ MultiPassword!ChangesCounted
    /\ component = "Preferences" =>
          /\ Preferences!ChoicesKept /\ Preferences!PluginValuesKept
          /\ Preferences!ColorsThere /\ Preferences!RecentsOnce
    /\ component = "FileManager" => FileManager!ProfilesKept
    /\ component = "FileEditor" =>
          FileEditor!ProfilesStay /\ FileEditor!OneFile /\ FileEditor!NoStaleWidget
    /\ component = "QuickConnect" =>
          /\ QuickConnect!UriKept /\ QuickConnect!FileOpened
          /\ QuickConnect!QuickIsSaved /\ QuickConnect!ImportTold

\* The rows of a list come back as they were left, as long as nobody enters the sign that
\* divides its columns, and the tree has the groups that the profiles are in, each once and in
\* the order of their names.
ListsReturn ==
    /\ component = "StringList" => StringList!RowsReturn
    /\ component = "FileManager" => FileManager!TreeRight

\* The windows, the plugins and the end of the program agree on what is there: the program
\* can be reached or ends, closes what is open, the icon and the discovered services are as
\* they were asked for, an action of the list is about the row it names and goes to a profile
\* that is locked only with its password, a plugin is there once, and nothing that was freed
\* is used.
AppSound ==
    /\ component = "AppLife" => AppLife!Reachable /\ AppLife!AskedToClose /\ AppLife!ExitFaults
    /\ component = "TrayIcon" => TrayIcon!IconShown /\ TrayIcon!AutostartMeant
    /\ component = "Discovery" => Discovery!TableTrue /\ Discovery!OffShowsNothing
    /\ component = "Plugins" =>
          /\ Plugins!RegisteredOnce /\ Plugins!SecretFirst
          /\ Plugins!PluginFaults /\ Plugins!DownloadTold
    /\ component = "MainWindow" =>
          /\ MainWindow!DeletesNamed /\ MainWindow!RowsMeant
          /\ MainWindow!LoadFaults /\ MainWindow!AsksFirst
===============================================================================
