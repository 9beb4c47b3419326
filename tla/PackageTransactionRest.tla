------------------------- MODULE PackageTransactionRest -------------------------
(***************************************************************************)
(* What a request, its rollback or its recovery has left once it is over,  *)
(* proved for packages with any entries and applications and for any       *)
(* number of failures and crashes: nothing lies around, and the files, the *)
(* database, the installed manifest, the security context, the icons and   *)
(* the file of the user are those of the version committed last.           *)
(*                                                                         *)
(* Each property follows from an invariant that says of one part of the    *)
(* device at which positions of the step loop it may differ from the       *)
(* committed version.  A step keeps it for one of two reasons: either it   *)
(* does not touch that part, and then only the steps whose undo() or       *)
(* recovery is done may not leave a difference; or it is one of the few    *)
(* handlers that write it.                                                 *)
(***************************************************************************)
EXTENDS PackageTransactionFiles

-------------------------------------------------------------------------------
(* Where each handler stands *)

At(p, r, i, q) == phase = p /\ req = r /\ it = i /\ part = q
In(p, i, q) == phase = p /\ req # "Recovery" /\ it = i /\ part = q

LEMMA CommonStands ==
  ASSUME TypeInv
  PROVE  /\ Configure => phase = "process" /\ it = 1 /\ part = "start"
         /\ ConfigureWrite => In("process", 1, "write")
         /\ ConfigureClean => phase = "clean" /\ it = 1
         /\ Unzip => In("process", 2, "start")
         /\ UnzipCreateDir => In("process", 2, "mkdir")
         /\ UnzipExtract => In("process", 2, "extract")
         /\ UnzipUndo => In("undo", 2, "start")
         /\ ParseManifest => In("process", 3, "start")
         /\ ParseInstalled => At("process", "Update", 5, "start")
         /\ \A d : ParseWrite(d) => In("process", 3, "rec") \/ At("process", "Update", 5, "rec")
         /\ CreateIcons => At("process", "Install", 7, "start") \/ At("process", "Update", 10, "start")
         /\ CreateIconsCopy => At("process", "Install", 7, "copy") \/ At("process", "Update", 10, "copy")
         /\ CreateIconsUndo => At("undo", "Install", 7, "start") \/ At("undo", "Update", 10, "start")
         /\ CreateManifest => At("process", "Install", 8, "start") \/ At("process", "Update", 11, "start")
         /\ CreateManifestUndo => At("undo", "Install", 8, "start") \/ At("undo", "Update", 11, "start")
         /\ NothingToUndo =>
              /\ phase = "undo"
              /\ req = "Install" => it \in {1, 3, 6, 10}
              /\ req = "Update" => it \in {1, 3, 4, 5}
              /\ req = "Recovery" => it # 2
         /\ NothingToClean => phase = "clean" /\ it > 1 /\ (req = "Update" => it \notin {6, 7, 8})
<1>. USE Positions DEF TypeInv, RunnerOK, Process, Undo, Clean, At, In, Requests
<1>1. /\ Configure => phase = "process" /\ it = 1 /\ part = "start"
      /\ ConfigureClean => phase = "clean" /\ it = 1
  BY DEF Configure, ConfigureClean
<1>2. ConfigureWrite => In("process", 1, "write")
  BY DEF ConfigureWrite, LoopsOK, Loops
<1>3. /\ Unzip => In("process", 2, "start")
      /\ UnzipCreateDir => In("process", 2, "mkdir")
      /\ UnzipExtract => In("process", 2, "extract")
      /\ UnzipUndo => In("undo", 2, "start")
  BY DEF Unzip, UnzipCreateDir, UnzipExtract, UnzipUndo
<1>4. /\ ParseManifest => In("process", 3, "start")
      /\ ParseInstalled => At("process", "Update", 5, "start")
      /\ \A d : ParseWrite(d) => In("process", 3, "rec") \/ At("process", "Update", 5, "rec")
  BY DEF ParseManifest, ParseInstalled, ParseWrite
<1>5. /\ CreateIcons => At("process", "Install", 7, "start") \/ At("process", "Update", 10, "start")
      /\ CreateIconsCopy => At("process", "Install", 7, "copy") \/ At("process", "Update", 10, "copy")
      /\ CreateIconsUndo => At("undo", "Install", 7, "start") \/ At("undo", "Update", 10, "start")
  BY DEF CreateIcons, CreateIconsCopy, CreateIconsUndo
<1>6. /\ CreateManifest => At("process", "Install", 8, "start") \/ At("process", "Update", 11, "start")
      /\ CreateManifestUndo => At("undo", "Install", 8, "start") \/ At("undo", "Update", 11, "start")
  BY DEF CreateManifest, CreateManifestUndo
<1>7. ASSUME NothingToUndo
      PROVE  /\ phase = "undo"
             /\ req = "Install" => it \in {1, 3, 6, 10}
             /\ req = "Update" => it \in {1, 3, 4, 5}
             /\ req = "Recovery" => it # 2
  BY <1>7 DEF NothingToUndo, HasUndo, Last
<1>8. NothingToClean => phase = "clean" /\ it > 1 /\ (req = "Update" => it \notin {6, 7, 8})
  BY DEF NothingToClean, HasClean, Last
<1>. QED  BY <1>1, <1>2, <1>3, <1>4, <1>5, <1>6, <1>7, <1>8

LEMMA InstallStands ==
  ASSUME TypeInv
  PROVE  /\ RollbackInstallationSecurity => At("process", "Install", 4, "start")
         /\ RollbackInstallationSecurityUndo => At("undo", "Install", 4, "start")
         /\ Copy => At("process", "Install", 5, "start")
         /\ CopyUndo => At("undo", "Install", 5, "start")
         /\ CreateStorageDirectories => At("process", "Install", 6, "start")
         /\ RegisterApplication => At("process", "Install", 9, "start")
         /\ RegisterApplicationCerts => At("process", "Install", 9, "certs")
         /\ RegisterApplicationUndo => At("undo", "Install", 9, "start")
         /\ RegisterSecurity => At("process", "Install", 10, "start")
BY Positions
   DEF TypeInv, RunnerOK, Process, Undo, At, RollbackInstallationSecurity,
       RollbackInstallationSecurityUndo, Copy, CopyUndo, CreateStorageDirectories,
       RegisterApplication, RegisterApplicationCerts, RegisterApplicationUndo, RegisterSecurity

LEMMA UpdateStands ==
  ASSUME TypeInv
  PROVE  /\ CheckOldCertificate => At("process", "Update", 4, "start")
         /\ BackupManifest => At("process", "Update", 6, "start")
         /\ BackupManifestUndo => At("undo", "Update", 6, "start")
         /\ BackupManifestClean => phase = "clean" /\ req = "Update" /\ it = 6
         /\ BackupIcons => At("process", "Update", 7, "start")
         /\ BackupIconsMove => At("process", "Update", 7, "move")
         /\ BackupIconsUndo => At("undo", "Update", 7, "start")
         /\ BackupIconsClean => phase = "clean" /\ req = "Update" /\ it = 7
         /\ CopyBackup => At("process", "Update", 8, "start")
         /\ CopyBackupEntry => At("process", "Update", 8, "backup")
         /\ CopyBackupNewContent => At("process", "Update", 8, "content")
         /\ CopyBackupUndo => At("undo", "Update", 8, "start")
         /\ CopyBackupRestore => At("undo", "Update", 8, "restore")
         /\ CopyBackupClean => phase = "clean" /\ req = "Update" /\ it = 8
         /\ CopyStorageDirectories => At("process", "Update", 9, "start")
         /\ \A key \in StorageKeys :
              /\ CopyStorageMove(key) => At("process", "Update", 9, key)
              /\ CopyStorageRemove(key) => At("process", "Update", 9, Cleanup(key))
              /\ CopyStorageUndo(key) => At("undo", "Update", 9, UndoPart(key))
         /\ CopyStorageCache => At("process", "Update", 9, "cache")
         /\ UpdateApplication => At("process", "Update", 12, "start")
         /\ UpdateApplicationCerts => At("process", "Update", 12, "certs")
         /\ UpdateApplicationUndo => At("undo", "Update", 12, "start")
         /\ UpdateApplicationUndoCerts => At("undo", "Update", 12, "certs")
         /\ UpdateSecurity => At("process", "Update", 13, "start")
         /\ UpdateSecurityUndo => At("undo", "Update", 13, "start")
<1>. USE Positions DEF TypeInv, RunnerOK, Process, Undo, Clean, At
<1>1. /\ CheckOldCertificate => At("process", "Update", 4, "start")
      /\ BackupManifest => At("process", "Update", 6, "start")
      /\ BackupManifestUndo => At("undo", "Update", 6, "start")
      /\ BackupManifestClean => phase = "clean" /\ req = "Update" /\ it = 6
      /\ BackupIcons => At("process", "Update", 7, "start")
      /\ BackupIconsMove => At("process", "Update", 7, "move")
      /\ BackupIconsUndo => At("undo", "Update", 7, "start")
      /\ BackupIconsClean => phase = "clean" /\ req = "Update" /\ it = 7
  BY DEF CheckOldCertificate, BackupManifest, BackupManifestUndo, BackupManifestClean,
         BackupIcons, BackupIconsMove, BackupIconsUndo, BackupIconsClean
<1>2. /\ CopyBackup => At("process", "Update", 8, "start")
      /\ CopyBackupEntry => At("process", "Update", 8, "backup")
      /\ CopyBackupNewContent => At("process", "Update", 8, "content")
      /\ CopyBackupUndo => At("undo", "Update", 8, "start")
      /\ CopyBackupRestore => At("undo", "Update", 8, "restore")
      /\ CopyBackupClean => phase = "clean" /\ req = "Update" /\ it = 8
  BY DEF CopyBackup, CopyBackupEntry, CopyBackupNewContent, CopyBackupUndo, CopyBackupRestore,
         CopyBackupClean
<1>3. /\ CopyStorageDirectories => At("process", "Update", 9, "start")
      /\ \A key \in StorageKeys :
           /\ CopyStorageMove(key) => At("process", "Update", 9, key)
           /\ CopyStorageRemove(key) => At("process", "Update", 9, Cleanup(key))
           /\ CopyStorageUndo(key) => At("undo", "Update", 9, UndoPart(key))
      /\ CopyStorageCache => At("process", "Update", 9, "cache")
  BY DEF CopyStorageDirectories, CopyStorageMove, CopyStorageRemove, CopyStorageUndo,
         CopyStorageCache
<1>4. /\ UpdateApplication => At("process", "Update", 12, "start")
      /\ UpdateApplicationCerts => At("process", "Update", 12, "certs")
      /\ UpdateApplicationUndo => At("undo", "Update", 12, "start")
      /\ UpdateApplicationUndoCerts => At("undo", "Update", 12, "certs")
      /\ UpdateSecurity => At("process", "Update", 13, "start")
      /\ UpdateSecurityUndo => At("undo", "Update", 13, "start")
  BY DEF UpdateApplication, UpdateApplicationCerts, UpdateApplicationUndo,
         UpdateApplicationUndoCerts, UpdateSecurity, UpdateSecurityUndo
<1>. QED  BY <1>1, <1>2, <1>3, <1>4

LEMMA RecoveryStands ==
  ASSUME TypeInv
  PROVE  /\ OpenRecoveryFile \/ Abort => At("process", "Recovery", 2, "start")
         /\ OpenRecoveryFileUndo => At("undo", "Recovery", 2, "start")
         /\ ParseRecovery => At("process", "Recovery", 3, "start")
         /\ \A d : ParseRecoveryWrite(d) => At("process", "Recovery", 3, "rec")
         /\ RecoverApplication => At("process", "Recovery", 4, "start")
         /\ RecoverApplicationRegister => At("process", "Recovery", 4, "register")
         /\ RecoverApplicationCerts => At("process", "Recovery", 4, "certs")
         /\ RemoveTemporaryDirectory => At("process", "Recovery", 5, "start")
         /\ RecoverIcons => At("process", "Recovery", 6, "start")
         /\ RecoverIconsMove => At("process", "Recovery", 6, "move")
         /\ RecoverManifest => At("process", "Recovery", 7, "start")
         /\ RecoverStorageDirectories => At("process", "Recovery", 8, "start")
         /\ RecoverStorageShared => At("process", "Recovery", 8, "shared")
         /\ RecoverFiles => At("process", "Recovery", 9, "start")
         /\ RecoverFilesMove => At("process", "Recovery", 9, "move")
         /\ RecoverSecurity => At("process", "Recovery", 10, "start")
<1>. USE Positions DEF TypeInv, RunnerOK, Process, Undo, At
<1>1. /\ OpenRecoveryFile \/ Abort => At("process", "Recovery", 2, "start")
      /\ OpenRecoveryFileUndo => At("undo", "Recovery", 2, "start")
      /\ ParseRecovery => At("process", "Recovery", 3, "start")
      /\ \A d : ParseRecoveryWrite(d) => At("process", "Recovery", 3, "rec")
  BY DEF OpenRecoveryFile, Abort, OpenRecoveryFileUndo, ParseRecovery, ParseRecoveryWrite
<1>2. /\ RecoverApplication => At("process", "Recovery", 4, "start")
      /\ RecoverApplicationRegister => At("process", "Recovery", 4, "register")
      /\ RecoverApplicationCerts => At("process", "Recovery", 4, "certs")
      /\ RemoveTemporaryDirectory => At("process", "Recovery", 5, "start")
      /\ RecoverIcons => At("process", "Recovery", 6, "start")
      /\ RecoverIconsMove => At("process", "Recovery", 6, "move")
  BY DEF RecoverApplication, RecoverApplicationRegister, RecoverApplicationCerts,
         RemoveTemporaryDirectory, RecoverIcons, RecoverIconsMove
<1>3. /\ RecoverManifest => At("process", "Recovery", 7, "start")
      /\ RecoverStorageDirectories => At("process", "Recovery", 8, "start")
      /\ RecoverStorageShared => At("process", "Recovery", 8, "shared")
      /\ RecoverFiles => At("process", "Recovery", 9, "start")
      /\ RecoverFilesMove => At("process", "Recovery", 9, "move")
      /\ RecoverSecurity => At("process", "Recovery", 10, "start")
  BY DEF RecoverManifest, RecoverStorageDirectories, RecoverStorageShared, RecoverFiles,
         RecoverFilesMove, RecoverSecurity
<1>. QED  BY <1>1, <1>2, <1>3

-------------------------------------------------------------------------------
(* What each handler touches: the parts of the device it may write, and those *)
(* of the memory of its process.                                              *)

DeviceParts == {"pkg", "bck", "tmp", "xml", "xmlBck", "icon", "iconBck", "db", "sec", "rec"}
MemoryParts == {"pkgid", "unpacked", "man", "old", "bxml", "gathered", "made", "todo", "file"}

Touches(parts) == \A f \in DeviceParts \ parts : device'[f] = device[f]
Learns(parts) == \A f \in MemoryParts \ parts : ctx'[f] = ctx[f]

LEMMA CommonTouches ==
  ASSUME TypeInv
  PROVE  /\ Configure \/ ConfigureWrite \/ ConfigureClean => Touches({"rec"}) /\ Learns({"file"})
         /\ Unzip => Touches({"rec"}) /\ Learns({"file"})
         /\ UnzipCreateDir \/ UnzipUndo => Touches({"tmp"}) /\ Learns({})
         /\ UnzipExtract => Touches({"tmp"}) /\ Learns({"unpacked"})
         /\ ParseManifest => Touches({}) /\ Learns({"pkgid"})
         /\ ParseInstalled => Touches({}) /\ Learns({})
         /\ \A d \in WriteResults([ctx.file EXCEPT !.pkgid = TRUE]) :
              ParseWrite(d) => Touches({"rec"}) /\ Learns({"file", "man", "old"})
         /\ CreateIcons => Touches({}) /\ Learns({"todo"})
         /\ CreateIconsCopy => Touches({"icon"}) /\ Learns({"todo", "made"})
         /\ CreateIconsUndo => Touches({"icon"}) /\ Learns({})
         /\ CreateManifest \/ CreateManifestUndo => Touches({"xml"}) /\ Learns({})
         /\ NothingToUndo \/ NothingToClean => Touches({}) /\ Learns({})
<1>. /\ device \in Devices /\ ctx \in Contexts
  BY DEF TypeInv, StateOK
<1>. USE DEF Touches, Learns, DeviceParts, MemoryParts, Devices, Contexts, FailsHere, Leave,
             GoOn, Done, Failed, Undone, Cleaned
<1>1. Configure \/ ConfigureWrite \/ ConfigureClean => Touches({"rec"}) /\ Learns({"file"})
  BY DEF Configure, ConfigureWrite, ConfigureClean
<1>2. Unzip => Touches({"rec"}) /\ Learns({"file"})
  BY DEF Unzip, WriteResults
<1>3. UnzipCreateDir \/ UnzipUndo => Touches({"tmp"}) /\ Learns({})
  BY DEF UnzipCreateDir, UnzipUndo
<1>4. UnzipExtract => Touches({"tmp"}) /\ Learns({"unpacked"})
  BY DEF UnzipExtract
<1>5. ParseManifest => Touches({}) /\ Learns({"pkgid"})
  BY DEF ParseManifest
<1>6. ParseInstalled => Touches({}) /\ Learns({})
  BY DEF ParseInstalled
<1>7. ASSUME NEW d \in WriteResults([ctx.file EXCEPT !.pkgid = TRUE]), ParseWrite(d)
      PROVE  Touches({"rec"}) /\ Learns({"file", "man", "old"})
  BY <1>7, ZenonT(40) DEF ParseWrite, WriteResults
<1>8. CreateIcons => Touches({}) /\ Learns({"todo"})
  BY DEF CreateIcons
<1>9. CreateIconsCopy => Touches({"icon"}) /\ Learns({"todo", "made"})
  BY DEF CreateIconsCopy
<1>10. CreateIconsUndo => Touches({"icon"}) /\ Learns({})
  BY DEF CreateIconsUndo
<1>11. CreateManifest \/ CreateManifestUndo => Touches({"xml"}) /\ Learns({})
  BY DEF CreateManifest, CreateManifestUndo
<1>12. NothingToUndo \/ NothingToClean => Touches({}) /\ Learns({})
  BY DEF NothingToUndo, NothingToClean
<1>. HIDE DEF Touches, Learns
<1>. QED  BY <1>1, <1>2, <1>3, <1>4, <1>5, <1>6, <1>7, <1>8, <1>9, <1>10, <1>11, <1>12

LEMMA InstallTouches ==
  ASSUME TypeInv
  PROVE  /\ RollbackInstallationSecurity => Touches({}) /\ Learns({})
         /\ RollbackInstallationSecurityUndo \/ RegisterSecurity => Touches({"sec"}) /\ Learns({})
         /\ Copy => Touches({"pkg", "tmp"}) /\ Learns({})
         /\ CopyUndo \/ CreateStorageDirectories => Touches({"pkg"}) /\ Learns({})
         /\ RegisterApplication \/ RegisterApplicationUndo => Touches({"db"}) /\ Learns({})
         /\ RegisterApplicationCerts => Touches({}) /\ Learns({})
<1>. /\ device \in Devices /\ ctx \in Contexts
  BY DEF TypeInv, StateOK
<1>. USE DEF Touches, Learns, DeviceParts, MemoryParts, Devices, Contexts, FailsHere, Leave,
             GoOn, Done, Failed, Undone
<1>1. RollbackInstallationSecurity => Touches({}) /\ Learns({})
  BY DEF RollbackInstallationSecurity
<1>2. RollbackInstallationSecurityUndo \/ RegisterSecurity => Touches({"sec"}) /\ Learns({})
  BY DEF RollbackInstallationSecurityUndo, RegisterSecurity
<1>3. Copy => Touches({"pkg", "tmp"}) /\ Learns({})
  BY DEF Copy
<1>4. CopyUndo \/ CreateStorageDirectories => Touches({"pkg"}) /\ Learns({})
  BY DEF CopyUndo, CreateStorageDirectories
<1>5. RegisterApplication \/ RegisterApplicationUndo => Touches({"db"}) /\ Learns({})
  BY DEF RegisterApplication, RegisterApplicationUndo
<1>6. RegisterApplicationCerts => Touches({}) /\ Learns({})
  BY DEF RegisterApplicationCerts
<1>. HIDE DEF Touches, Learns
<1>. QED  BY <1>1, <1>2, <1>3, <1>4, <1>5, <1>6

LEMMA UpdateTouches ==
  ASSUME TypeInv
  PROVE  /\ CheckOldCertificate => Touches({}) /\ Learns({})
         /\ BackupManifest => Touches({"xmlBck"}) /\ Learns({"bxml"})
         /\ BackupManifestUndo => Touches({"xml", "xmlBck"}) /\ Learns({})
         /\ BackupManifestClean => Touches({"xmlBck"}) /\ Learns({})
         /\ BackupIcons => Touches({}) /\ Learns({"gathered", "todo"})
         /\ BackupIconsMove => Touches({"icon", "iconBck"}) /\ Learns({"todo"})
         /\ BackupIconsUndo => Touches({"icon", "iconBck"}) /\ Learns({})
         /\ BackupIconsClean => Touches({"iconBck"}) /\ Learns({})
         /\ CopyBackup => Touches({"bck"}) /\ Learns({"todo"})
         /\ CopyBackupEntry => Touches({"pkg", "bck"}) /\ Learns({"todo"})
         /\ CopyBackupNewContent \/ CopyBackupUndo => Touches({"pkg", "tmp"}) /\ Learns({})
         /\ CopyBackupRestore => Touches({"pkg", "bck"}) /\ Learns({})
         /\ CopyBackupClean => Touches({"bck"}) /\ Learns({})
         /\ CopyStorageDirectories \/ CopyStorageCache => Touches({}) /\ Learns({})
         /\ \A key \in StorageKeys :
              /\ CopyStorageMove(key) \/ CopyStorageUndo(key) => Touches({"pkg", "bck"}) /\ Learns({})
              /\ CopyStorageRemove(key) => Touches({"bck"}) /\ Learns({})
         /\ UpdateApplication \/ UpdateApplicationUndo => Touches({"db"}) /\ Learns({})
         /\ UpdateApplicationCerts \/ UpdateApplicationUndoCerts => Touches({}) /\ Learns({})
         /\ UpdateSecurity \/ UpdateSecurityUndo => Touches({"sec"}) /\ Learns({})
<1>. /\ device \in Devices /\ ctx \in Contexts
  BY DEF TypeInv, StateOK
<1>. USE DEF Touches, Learns, DeviceParts, MemoryParts, Devices, Contexts, FailsHere, Leave,
             GoOn, Done, Failed, Undone, Cleaned, NotCleaned
<1>1. CheckOldCertificate => Touches({}) /\ Learns({})
  BY DEF CheckOldCertificate
<1>2. BackupManifest => Touches({"xmlBck"}) /\ Learns({"bxml"})
  BY DEF BackupManifest
<1>3. BackupManifestUndo => Touches({"xml", "xmlBck"}) /\ Learns({})
  BY DEF BackupManifestUndo
<1>4. BackupManifestClean => Touches({"xmlBck"}) /\ Learns({})
  BY DEF BackupManifestClean
<1>5. BackupIcons => Touches({}) /\ Learns({"gathered", "todo"})
  BY DEF BackupIcons
<1>6. BackupIconsMove => Touches({"icon", "iconBck"}) /\ Learns({"todo"})
  BY ZenonT(40) DEF BackupIconsMove
<1>7. BackupIconsUndo => Touches({"icon", "iconBck"}) /\ Learns({})
  BY DEF BackupIconsUndo
<1>8. BackupIconsClean => Touches({"iconBck"}) /\ Learns({})
  BY DEF BackupIconsClean
<1>9. CopyBackup => Touches({"bck"}) /\ Learns({"todo"})
  BY DEF CopyBackup
<1>10. CopyBackupEntry => Touches({"pkg", "bck"}) /\ Learns({"todo"})
  BY ZenonT(40) DEF CopyBackupEntry
<1>11. CopyBackupNewContent \/ CopyBackupUndo => Touches({"pkg", "tmp"}) /\ Learns({})
  BY ZenonT(40) DEF CopyBackupNewContent, CopyBackupUndo
<1>12. CopyBackupRestore => Touches({"pkg", "bck"}) /\ Learns({})
  BY DEF CopyBackupRestore
<1>13. CopyBackupClean => Touches({"bck"}) /\ Learns({})
  BY DEF CopyBackupClean
<1>14. CopyStorageDirectories \/ CopyStorageCache => Touches({}) /\ Learns({})
  BY DEF CopyStorageDirectories, CopyStorageCache
<1>15. \A key \in StorageKeys : CopyStorageMove(key) => Touches({"pkg", "bck"}) /\ Learns({})
  BY DEF CopyStorageMove
<1>16. \A key \in StorageKeys : CopyStorageRemove(key) => Touches({"bck"}) /\ Learns({})
  BY DEF CopyStorageRemove
<1>17. \A key \in StorageKeys : CopyStorageUndo(key) => Touches({"pkg", "bck"}) /\ Learns({})
  BY ZenonT(40) DEF CopyStorageUndo
<1>18. UpdateApplication \/ UpdateApplicationUndo => Touches({"db"}) /\ Learns({})
  BY DEF UpdateApplication, UpdateApplicationUndo
<1>19. UpdateApplicationCerts \/ UpdateApplicationUndoCerts => Touches({}) /\ Learns({})
  BY DEF UpdateApplicationCerts, UpdateApplicationUndoCerts
<1>20. UpdateSecurity \/ UpdateSecurityUndo => Touches({"sec"}) /\ Learns({})
  BY DEF UpdateSecurity, UpdateSecurityUndo
<1>. HIDE DEF Touches, Learns
<1>. QED  BY <1>1, <1>2, <1>3, <1>4, <1>5, <1>6, <1>7, <1>8, <1>9, <1>10, <1>11, <1>12,
               <1>13, <1>14, <1>15, <1>16, <1>17, <1>18, <1>19, <1>20

LEMMA RecoveryTouches ==
  ASSUME TypeInv
  PROVE  /\ OpenRecoveryFile => Touches({}) /\ Learns({"file", "unpacked", "pkgid"})
         /\ OpenRecoveryFileUndo => Touches({}) /\ Learns({"file"})
         /\ ParseRecovery => Touches({}) /\ Learns({})
         /\ \A d \in WriteResults(ctx.file) :
              ParseRecoveryWrite(d) => Touches({"rec"}) /\ Learns({"man"})
         /\ RecoverApplication \/ RecoverApplicationRegister => Touches({"db"}) /\ Learns({})
         /\ RecoverApplicationCerts => Touches({}) /\ Learns({})
         /\ RemoveTemporaryDirectory => Touches({"tmp"}) /\ Learns({})
         /\ RecoverIcons => Touches({}) /\ Learns({"todo"})
         /\ RecoverIconsMove => Touches({"icon", "iconBck"}) /\ Learns({"todo"})
         /\ RecoverManifest => Touches({"xml", "xmlBck"}) /\ Learns({})
         /\ RecoverStorageDirectories \/ RecoverStorageShared => Touches({"pkg", "bck"}) /\ Learns({})
         /\ RecoverFiles => Touches({"pkg"}) /\ Learns({})
         /\ RecoverFilesMove => Touches({"pkg", "bck"}) /\ Learns({})
         /\ RecoverSecurity => Touches({"sec"}) /\ Learns({})
<1>. /\ device \in Devices /\ ctx \in Contexts
  BY DEF TypeInv, StateOK
<1>. USE DEF Touches, Learns, DeviceParts, MemoryParts, Devices, Contexts, FailsHere, Leave,
             GoOn, Done, Failed
<1>1. OpenRecoveryFile => Touches({}) /\ Learns({"file", "unpacked", "pkgid"})
  BY DEF OpenRecoveryFile
<1>2. OpenRecoveryFileUndo => Touches({}) /\ Learns({"file"})
  BY DEF OpenRecoveryFileUndo
<1>3. ParseRecovery => Touches({}) /\ Learns({})
  BY DEF ParseRecovery
<1>4. ASSUME NEW d \in WriteResults(ctx.file), ParseRecoveryWrite(d)
      PROVE  Touches({"rec"}) /\ Learns({"man"})
  BY <1>4 DEF ParseRecoveryWrite, WriteResults
<1>5. RecoverApplication \/ RecoverApplicationRegister => Touches({"db"}) /\ Learns({})
  BY DEF RecoverApplication, RecoverApplicationRegister
<1>6. RecoverApplicationCerts => Touches({}) /\ Learns({})
  BY DEF RecoverApplicationCerts
<1>7. RemoveTemporaryDirectory => Touches({"tmp"}) /\ Learns({})
  BY DEF RemoveTemporaryDirectory
<1>8. RecoverIcons => Touches({}) /\ Learns({"todo"})
  BY DEF RecoverIcons
<1>9. RecoverIconsMove => Touches({"icon", "iconBck"}) /\ Learns({"todo"})
  BY ZenonT(40) DEF RecoverIconsMove
<1>10. RecoverManifest => Touches({"xml", "xmlBck"}) /\ Learns({})
  BY DEF RecoverManifest
<1>11. RecoverStorageDirectories \/ RecoverStorageShared => Touches({"pkg", "bck"}) /\ Learns({})
  BY DEF RecoverStorageDirectories, RecoverStorageShared, StorageRecovered
<1>12. RecoverFiles => Touches({"pkg"}) /\ Learns({})
  BY DEF RecoverFiles
<1>13. RecoverFilesMove => Touches({"pkg", "bck"}) /\ Learns({})
  BY DEF RecoverFilesMove
<1>14. RecoverSecurity => Touches({"sec"}) /\ Learns({})
  BY DEF RecoverSecurity
<1>. HIDE DEF Touches, Learns
<1>. QED  BY <1>1, <1>2, <1>3, <1>4, <1>5, <1>6, <1>7, <1>8, <1>9, <1>10, <1>11, <1>12,
               <1>13, <1>14

-------------------------------------------------------------------------------
(* How each handler moves the step loop *)

Handler == CommonStep \/ InstallStep \/ UpdateStep \/ RecoveryStep

Proceeds == phase = "process" /\ part' = "start" /\
  \/ it < Last /\ phase' = "process" /\ it' = it + 1
  \/ it = Last /\ phase' = "clean" /\ it' = 1
Breaks == phase = "process" /\ part' = "start" /\ phase' = "undo" /\ it' = it
Stays == phase' = phase /\ it' = it
Retreats == phase = "undo" /\ part' = "start" /\
  \/ it > 1 /\ phase' = "undo" /\ it' = it - 1
  \/ it = 1 /\ phase' = "end" /\ it' = it
Tidies == phase = "clean" /\ part' = "start" /\
  \/ it < Last /\ phase' = "clean" /\ it' = it + 1
  \/ it = Last /\ phase' = "end" /\ it' = it
Moves == Proceeds \/ Breaks \/ Stays \/ Retreats \/ Tidies
SameRequest == req' = req /\ global' = global /\ written' = written

\* The histories without a rollback, a recovery or a clean-up that fails itself, and
\* what may still happen in them.
Mended == ~CleanCutShort /\ ~NotReverted
Mendable(kind, where) ==
  /\ kind \in {"fail", "crash", "crashInUndo", "crashAtEnd"}
  /\ kind = "fail" => where \notin {"RecoverFiles", "RecoverApplication", "RecoverManifest",
                                    "ManifestRemoval", "RecoverIcons", "RecoverStorage"}

LEMMA MendedBefore ==
  ASSUME Mended'
  PROVE  /\ NoFault => Mended
         /\ \A kind, where : Fault(kind, where) => Mended /\ Mendable(kind, where)
<1>1. ASSUME NoFault
      PROVE  Mended
  BY <1>1 DEF NoFault, Mended, CleanCutShort, NotReverted, Only, Happened
<1>2. ASSUME NEW kind, NEW where, Fault(kind, where)
      PROVE  Mended /\ Mendable(kind, where)
  <2>. DEFINE f == <<kind, where>>
  <2>1. faults \subseteq faults' /\ f \in faults' /\ f[1] = kind /\ f[2] = where
    BY <1>2 DEF Fault
  <2>2. Mended
    BY <2>1 DEF Mended, CleanCutShort, NotReverted, Only, Happened
  <2>3. f[1] \in {"fail", "undo", "crash", "crashInUndo", "crashAtEnd"}
    BY <2>1 DEF Mended, CleanCutShort, Only
  <2>4. f[1] \in {"fail", "clean", "crash", "crashInUndo", "crashInClean", "crashAtEnd"}
    BY <2>1 DEF Mended, NotReverted, Only
  <2>5. f[1] = "fail" => f[2] \notin {"RecoverFiles", "RecoverApplication", "RecoverManifest",
                                      "ManifestRemoval", "RecoverIcons", "RecoverStorage"}
    BY <2>1 DEF Mended, NotReverted, Happened
  <2>. QED  BY <2>1, <2>2, <2>3, <2>4, <2>5 DEF Mendable
<1>. QED  BY <1>1, <1>2

\* What is moved is the step loop and nothing of the request, until it is committed.
Moved ==
  /\ phase \in {"process", "undo", "clean"} /\ SameRequest
  /\ ConfigureClean \/ stable' = stable
  /\ Moves \/ (Fault("clean", Step) /\ phase = "clean" /\ phase' = "end")

\* The loops over icons and entries go on, end or fail.
LEMMA LoopMoves ==
  ASSUME TypeInv, phase \in {"process", "undo"}, NEW p, NEW d, NEW c, NEW ok,
         GoOn(p, d, c) \/ Done(d, c) \/ Failed(d, c) \/ Undone(ok, d)
  PROVE  Moved
BY Places
   DEF Moved, Moves, Proceeds, Breaks, Stays, Retreats, SameRequest, Leave, envVars, runnerVars,
       GoOn, StepOk, Done, StepFails, Failed, StepUndone, Undone

LEMMA CommonMoves ==
  ASSUME TypeInv, CommonStep
  PROVE  Moved
<1>. /\ NumSteps = Last /\ it \in Nat /\ it >= 1 /\ it <= Last /\ Last \in Nat
  BY Places
<1>. USE DEF Moved, Moves, Proceeds, Breaks, Stays, Retreats, Tidies, SameRequest, Leave,
             envVars, runnerVars, GoOn, StepOk, Done, StepFails, Failed, StepUndone, Undone,
             StepCleaned, Cleaned, Process, Undo, Clean, FailsHere
<1>1. CASE Configure \/ ConfigureWrite \/ ConfigureClean
  BY <1>1 DEF Configure, ConfigureWrite, ConfigureClean
<1>2. CASE Unzip \/ UnzipCreateDir \/ UnzipExtract \/ UnzipUndo
  BY <1>2 DEF Unzip, UnzipCreateDir, UnzipExtract, UnzipUndo
<1>3. CASE \/ ParseManifest \/ ParseInstalled
           \/ \E d \in WriteResults([ctx.file EXCEPT !.pkgid = TRUE]) : ParseWrite(d)
  BY <1>3 DEF ParseManifest, ParseInstalled, ParseWrite
<1>4. CASE CreateIcons \/ CreateManifest \/ CreateManifestUndo
  BY <1>4 DEF CreateIcons, CreateManifest, CreateManifestUndo
<1>5. CASE CreateIconsCopy
  <2>. HIDE DEF Moved, GoOn, Done, Failed
  <2>1. phase = "process" /\ \E p, d, c : GoOn(p, d, c) \/ Done(d, c) \/ Failed(d, c)
    BY <1>5, Zenon DEF CreateIconsCopy
  <2>. QED  BY <2>1, LoopMoves
<1>6. CASE CreateIconsUndo
  BY <1>6 DEF CreateIconsUndo
<1>7. CASE NothingToUndo \/ NothingToClean
  BY <1>7 DEF NothingToUndo, NothingToClean
<1>. QED  BY <1>1, <1>2, <1>3, <1>4, <1>5, <1>6, <1>7 DEF CommonStep

LEMMA InstallMoves ==
  ASSUME TypeInv, InstallStep
  PROVE  Moved
<1>. /\ NumSteps = Last /\ it \in Nat /\ it >= 1 /\ it <= Last /\ Last \in Nat
  BY Places
<1>. USE DEF Moved, Moves, Proceeds, Breaks, Stays, Retreats, SameRequest, Leave, envVars,
             runnerVars, GoOn, StepOk, Done, StepFails, Failed, StepUndone, Undone, Process,
             Undo, FailsHere
<1>1. CASE RollbackInstallationSecurity \/ RollbackInstallationSecurityUndo \/ RegisterSecurity
  BY <1>1 DEF RollbackInstallationSecurity, RollbackInstallationSecurityUndo, RegisterSecurity
<1>2. CASE Copy \/ CopyUndo \/ CreateStorageDirectories
  BY <1>2 DEF Copy, CopyUndo, CreateStorageDirectories
<1>3. CASE RegisterApplication \/ RegisterApplicationCerts \/ RegisterApplicationUndo
  BY <1>3 DEF RegisterApplication, RegisterApplicationCerts, RegisterApplicationUndo
<1>. QED  BY <1>1, <1>2, <1>3 DEF InstallStep

LEMMA UpdateMoves ==
  ASSUME TypeInv, UpdateStep
  PROVE  Moved
<1>. /\ NumSteps = Last /\ it \in Nat /\ it >= 1 /\ it <= Last /\ Last \in Nat
  BY Places
<1>. USE DEF Moved, Moves, Proceeds, Breaks, Stays, Retreats, Tidies, SameRequest, Leave,
             envVars, runnerVars, GoOn, StepOk, Done, StepFails, Failed, StepUndone, Undone,
             StepCleaned, Cleaned, StepCleanFails, NotCleaned, Process, Undo, Clean, FailsHere
<1>1. CASE CheckOldCertificate \/ BackupManifest \/ BackupManifestUndo \/ BackupManifestClean
  BY <1>1 DEF CheckOldCertificate, BackupManifest, BackupManifestUndo, BackupManifestClean
<1>2. CASE BackupIcons \/ BackupIconsClean
  BY <1>2 DEF BackupIcons, BackupIconsClean
<1>3. CASE BackupIconsMove
  <2>. HIDE DEF Moved, GoOn, Done, Failed
  <2>1. phase = "process" /\ \E p, d, c : GoOn(p, d, c) \/ Done(d, c) \/ Failed(d, c)
    BY <1>3, Zenon DEF BackupIconsMove
  <2>. QED  BY <2>1, LoopMoves
<1>4. CASE BackupIconsUndo
  BY <1>4 DEF BackupIconsUndo
<1>5. CASE CopyBackup \/ CopyBackupNewContent \/ CopyBackupRestore \/ CopyBackupClean
  BY <1>5 DEF CopyBackup, CopyBackupNewContent, CopyBackupRestore, CopyBackupClean
<1>6. CASE CopyBackupEntry
  <2>. HIDE DEF Moved, GoOn, Done, Failed
  <2>1. phase = "process" /\ \E p, d, c : GoOn(p, d, c) \/ Done(d, c) \/ Failed(d, c)
    BY <1>6, Zenon DEF CopyBackupEntry
  <2>. QED  BY <2>1, LoopMoves
<1>7. CASE CopyBackupUndo
  <2>. HIDE DEF Moved, GoOn, Undone
  <2>1. phase = "undo" /\ \E p, d, c, ok : GoOn(p, d, c) \/ Undone(ok, d)
    BY <1>7, Zenon DEF CopyBackupUndo
  <2>. QED  BY <2>1, LoopMoves
<1>8. CASE CopyStorageDirectories \/ CopyStorageCache
  BY <1>8 DEF CopyStorageDirectories, CopyStorageCache
<1>9. ASSUME NEW key \in StorageKeys, CopyStorageMove(key)
       PROVE  Moved
  BY <1>9 DEF CopyStorageMove
<1>10. ASSUME NEW key \in StorageKeys, CopyStorageRemove(key)
       PROVE  Moved
  BY <1>10 DEF CopyStorageRemove
<1>11. CASE \E key \in StorageKeys : CopyStorageUndo(key)
  BY <1>11 DEF CopyStorageUndo
<1>12. CASE UpdateApplication \/ UpdateApplicationCerts \/ UpdateApplicationUndo
           \/ UpdateApplicationUndoCerts \/ UpdateSecurity \/ UpdateSecurityUndo
  BY <1>12
     DEF UpdateApplication, UpdateApplicationCerts, UpdateApplicationUndo,
         UpdateApplicationUndoCerts, UpdateSecurity, UpdateSecurityUndo
<1>. QED  BY <1>1, <1>2, <1>3, <1>4, <1>5, <1>6, <1>7, <1>8, <1>9, <1>10, <1>11, <1>12
          DEF UpdateStep

LEMMA RecoveryMoves ==
  ASSUME TypeInv, RecoveryStep
  PROVE  Moved
<1>. /\ NumSteps = Last /\ it \in Nat /\ it >= 1 /\ it <= Last /\ Last \in Nat
  BY Places
<1>. USE DEF Moved, Moves, Proceeds, Breaks, Stays, Retreats, SameRequest, Leave, envVars,
             runnerVars, GoOn, StepOk, Done, StepFails, Failed, StepUndone, Process, Undo, FailsHere
<1>1. CASE \/ OpenRecoveryFile \/ OpenRecoveryFileUndo \/ ParseRecovery
           \/ \E d \in WriteResults(ctx.file) : ParseRecoveryWrite(d)
  BY <1>1 DEF OpenRecoveryFile, OpenRecoveryFileUndo, ParseRecovery, ParseRecoveryWrite
<1>2. CASE RecoverApplication \/ RecoverApplicationRegister \/ RecoverApplicationCerts
           \/ RemoveTemporaryDirectory
  BY <1>2
     DEF RecoverApplication, RecoverApplicationRegister, RecoverApplicationCerts,
         RemoveTemporaryDirectory
<1>3. CASE RecoverIcons \/ RecoverManifest
  BY <1>3 DEF RecoverIcons, RecoverManifest
<1>4. CASE RecoverIconsMove
  <2>. HIDE DEF Moved, GoOn, Done, Failed
  <2>1. phase = "process" /\ \E p, d, c : GoOn(p, d, c) \/ Done(d, c) \/ Failed(d, c)
    BY <1>4, Zenon DEF RecoverIconsMove
  <2>. QED  BY <2>1, LoopMoves
<1>5. CASE RecoverStorageDirectories \/ RecoverStorageShared
  BY <1>5 DEF RecoverStorageDirectories, RecoverStorageShared
<1>6. CASE RecoverFiles \/ RecoverFilesMove \/ RecoverSecurity
  BY <1>6 DEF RecoverFiles, RecoverFilesMove, RecoverSecurity
<1>. QED  BY <1>1, <1>2, <1>3, <1>4, <1>5, <1>6 DEF RecoveryStep

\* In a history without failing clean-ups, every handler but the commit moves the
\* step loop and keeps the committed version.
LEMMA HandlersMove ==
  ASSUME TypeInv, Mended', Handler
  PROVE  /\ phase \in {"process", "undo", "clean"} /\ SameRequest /\ Moves
         /\ ConfigureClean \/ stable' = stable
<1>1. Moved
  BY CommonMoves, InstallMoves, UpdateMoves, RecoveryMoves DEF Handler
<1>2. ~Fault("clean", Step)
  BY MendedBefore DEF Mendable
<1>. QED  BY <1>1, <1>2 DEF Moved

\* What the world outside the handlers does.
LEMMA WorldMoves ==
  ASSUME TypeInv
  PROVE  /\ Begin =>
              /\ phase = "idle" /\ phase' = "process" /\ it' = 1 /\ part' = "start"
              /\ device' = device /\ ctx' = ctx /\ stable' = stable
              /\ global' = global /\ written' = written
              /\ \/ RecoveryWaits /\ req' = "Recovery"
                 \/ ~RecoveryWaits /\ req' = IF device.db = None THEN "Install" ELSE "Update"
         /\ Exit \/ Abort \/ Crash =>
              /\ phase # "idle" /\ phase' = "idle" /\ it' = 1 /\ part' = "start"
              /\ ctx' = FreshContext /\ stable' = stable /\ SameRequest
         /\ Exit => /\ phase = "end" /\ Touches({"rec"})
                    /\ device'.rec = IF ctx.file.kind = "none" THEN device.rec ELSE NoRecovery
         /\ Abort => device' = device /\ device.rec.kind = "torn"
         /\ StoreUserFile =>
              /\ phase = "idle" /\ device.rec.kind = "none" /\ ~written /\ ~global /\ device.db # None
              /\ phase' = phase /\ it' = it /\ part' = part /\ ctx' = ctx /\ stable' = stable
              /\ req' = req /\ global' = global /\ written' = TRUE
              /\ Touches({"pkg"})
              /\ Has(device.pkg, "data")
              /\ device'.pkg = Put(device.pkg, "data", device.pkg["data"] \cup {UserFile})
<1>1. device \in Devices /\ (phase = "idle" => part = "start")
  BY DEF TypeInv, StateOK, RunnerOK
<1>2. Begin =>
        /\ phase = "idle" /\ phase' = "process" /\ it' = 1 /\ part' = "start"
        /\ device' = device /\ ctx' = ctx /\ stable' = stable
        /\ global' = global /\ written' = written
        /\ \/ RecoveryWaits /\ req' = "Recovery"
           \/ ~RecoveryWaits /\ req' = IF device.db = None THEN "Install" ELSE "Update"
  BY <1>1 DEF Begin, BeginRun
<1>3. Exit \/ Abort \/ Crash =>
        /\ phase # "idle" /\ phase' = "idle" /\ it' = 1 /\ part' = "start"
        /\ ctx' = FreshContext /\ stable' = stable /\ SameRequest
  BY DEF Exit, Abort, Crash, Gone, Idle, envVars, SameRequest, Process
<1>4. Exit => /\ phase = "end" /\ Touches({"rec"})
              /\ device'.rec = IF ctx.file.kind = "none" THEN device.rec ELSE NoRecovery
  BY <1>1 DEF Exit, Touches, DeviceParts, Devices
<1>5. Abort => device' = device /\ device.rec.kind = "torn"
  BY DEF Abort
<1>6. StoreUserFile =>
        /\ phase = "idle" /\ device.rec.kind = "none" /\ ~written /\ ~global /\ device.db # None
        /\ phase' = phase /\ it' = it /\ part' = part /\ ctx' = ctx /\ stable' = stable
        /\ req' = req /\ global' = global /\ written' = TRUE
        /\ Touches({"pkg"})
        /\ Has(device.pkg, "data")
        /\ device'.pkg = Put(device.pkg, "data", device.pkg["data"] \cup {UserFile})
  BY <1>1 DEF StoreUserFile, Idle, RecoveryWaits, runnerVars, Touches, DeviceParts, Devices
<1>. QED  BY <1>2, <1>3, <1>4, <1>5, <1>6

\* What a crash leaves half done, and where.
TearsRecovery ==
  /\ In("process", 2, "start") \/ (phase = "process" /\ part = "rec")
  /\ Touches({"rec"}) /\ device'.rec = TornRecovery
TearsManifest == Touches({"xmlBck"}) /\ device'.xmlBck = Torn /\ At("process", "Update", 6, "start")
CopiesStorage(key) ==
  /\ At("process", "Update", 9, key) /\ Touches({"pkg"})
  /\ Has(device.bck, key) /\ ~(device.pkg[key] \subseteq {Dot})
  /\ \E files \in CopyCut(device.pkg[key], device.bck[key]) : device'.pkg = Put(device.pkg, key, files)
RemovesStorage(key) ==
  /\ At("process", "Update", 9, Cleanup(key)) /\ Touches({"bck"})
  /\ \E left \in SUBSET (device.bck[key] \ {Dot}) : device'.bck = Put(device.bck, key, left \cup {Dot})
RemovesFiles ==
  /\ \/ At("undo", "Install", 5, "start")
     \/ At("undo", "Update", 8, "start") /\ Exists(device.bck)
     \/ At("process", "Recovery", 9, "start") /\ (New \/ Exists(device.bck))
  /\ Touches({"pkg"}) /\ device'.pkg \in RemoveCut(device.pkg)
TearsRules ==
  /\ Touches({"sec"}) /\ device'.sec = Torn /\ phase \in {"process", "undo"}
  /\ (req = "Install" /\ it = 10) \/ (req = "Update" /\ it = 13)

LEMMA Crashes ==
  ASSUME TypeInv, Crash, Mended'
  PROVE  /\ phase \in {"process", "undo", "end"} /\ Fault(CrashKind, Where)
         /\ \/ device' = device
            \/ TearsRecovery \/ TearsManifest \/ RemovesFiles \/ TearsRules
            \/ \E key \in StorageKeys : CopiesStorage(key) \/ RemovesStorage(key)
<1>1. device \in Devices /\ phase \in Phases
  BY DEF TypeInv, StateOK, RunnerOK
<1>2. Fault(CrashKind, Where)
  BY DEF Crash
<1>3. phase \in {"process", "undo", "end"}
  <2>1. CrashKind # "crashInClean"
    BY <1>2, MendedBefore DEF Mendable
  <2>. QED  BY <1>1, <2>1 DEF Crash, Idle, CrashKind, Phases
<1>. USE <1>1 DEF Touches, DeviceParts, Devices
<1>4. CASE WritesRecovery /\ device' = [device EXCEPT !.rec = TornRecovery]
  <2>1. WritesRecovery => In("process", 2, "start") \/ (phase = "process" /\ part = "rec")
    BY Positions DEF TypeInv, RunnerOK, WritesRecovery, Process, In
  <2>. QED  BY <1>2, <1>3, <1>4, <2>1 DEF TearsRecovery
<1>5. CASE Process("BackupManifest", "start") /\ device' = [device EXCEPT !.xmlBck = Torn]
  <2>1. At("process", "Update", 6, "start")
    BY <1>5, Positions DEF TypeInv, RunnerOK, Process, At
  <2>. QED  BY <1>2, <1>3, <1>5, <2>1 DEF TearsManifest
<1>6. ASSUME NEW key \in StorageKeys, Process("CopyStorageDirectories", key),
             Has(device.bck, key), ~(device.pkg[key] \subseteq {Dot}),
             NEW files \in CopyCut(device.pkg[key], device.bck[key]),
             device' = [device EXCEPT !.pkg = Put(@, key, files)]
      PROVE  CopiesStorage(key)
  <2>1. At("process", "Update", 9, key)
    BY <1>6, Positions DEF TypeInv, RunnerOK, Process, At
  <2>2. Touches({"pkg"}) /\ device'.pkg = Put(device.pkg, key, files)
    BY <1>6
  <2>. QED  BY <1>6, <2>1, <2>2 DEF CopiesStorage
<1>7. ASSUME NEW key \in StorageKeys, Process("CopyStorageDirectories", Cleanup(key)),
             NEW left \in SUBSET (device.bck[key] \ {Dot}),
             device' = [device EXCEPT !.bck = Put(@, key, left \cup {Dot})]
      PROVE  RemovesStorage(key)
  <2>1. At("process", "Update", 9, Cleanup(key))
    BY <1>7, Positions DEF TypeInv, RunnerOK, Process, At
  <2>2. Touches({"bck"}) /\ device'.bck = Put(device.bck, key, left \cup {Dot})
    BY <1>7
  <2>. QED  BY <1>7, <2>1, <2>2 DEF RemovesStorage
<1>8. ASSUME RemovesPackage, NEW t \in RemoveCut(device.pkg), device' = [device EXCEPT !.pkg = t]
      PROVE  RemovesFiles
  <2>1. \/ At("undo", "Install", 5, "start")
        \/ At("undo", "Update", 8, "start") /\ Exists(device.bck)
        \/ At("process", "Recovery", 9, "start") /\ (New \/ Exists(device.bck))
    BY <1>8, Positions DEF TypeInv, RunnerOK, RemovesPackage, Process, Undo, At
  <2>. QED  BY <1>8, <2>1 DEF RemovesFiles
<1>9. CASE RegistersRules /\ device' = [device EXCEPT !.sec = Torn]
  <2>1. (req = "Install" /\ it = 10) \/ (req = "Update" /\ it = 13)
    BY <1>9, Positions DEF TypeInv, RunnerOK, RegistersRules
  <2>. QED  BY <1>2, <1>3, <1>9, <2>1 DEF RegistersRules, TearsRules
<1>10. ~Clean("CopyBackup")
  BY <1>3 DEF Clean
<1>. QED  BY <1>2, <1>3, <1>4, <1>5, <1>6, <1>7, <1>8, <1>9, <1>10, Zenon DEF Crash, HalfDone

-------------------------------------------------------------------------------
(* Who writes a part of the device, or of the memory *)

WritesPackage == \E d \in WriteResults([ctx.file EXCEPT !.pkgid = TRUE]) : ParseWrite(d)
RewritesPackage == \E d \in WriteResults(ctx.file) : ParseRecoveryWrite(d)
CopiesOrRestores == \E key \in StorageKeys : CopyStorageMove(key) \/ CopyStorageUndo(key)
Discards == \E key \in StorageKeys : CopyStorageRemove(key)

LEMMA WritersOfRecord ==
  ASSUME TypeInv, Handler
  PROVE  /\ \/ device'.rec = device.rec
            \/ Configure \/ ConfigureWrite \/ ConfigureClean \/ Unzip
            \/ WritesPackage \/ RewritesPackage
         /\ \/ ctx'.file = ctx.file
            \/ Configure \/ ConfigureWrite \/ ConfigureClean \/ Unzip
            \/ WritesPackage \/ OpenRecoveryFile \/ OpenRecoveryFileUndo
<1>. USE DEF Touches, Learns, DeviceParts, MemoryParts, WritesPackage, RewritesPackage
<1>1. CASE CommonStep
  BY <1>1, CommonTouches DEF CommonStep
<1>2. CASE InstallStep
  BY <1>2, InstallTouches DEF InstallStep
<1>3. CASE UpdateStep
  BY <1>3, UpdateTouches DEF UpdateStep
<1>4. CASE RecoveryStep
  BY <1>4, RecoveryTouches DEF RecoveryStep
<1>. QED  BY <1>1, <1>2, <1>3, <1>4 DEF Handler

LEMMA WritersOfFiles ==
  ASSUME TypeInv, Handler
  PROVE  /\ \/ device'.bck = device.bck
            \/ CopyBackup \/ CopyBackupEntry \/ CopyBackupRestore \/ CopyBackupClean
            \/ CopiesOrRestores \/ Discards
            \/ RecoverStorageDirectories \/ RecoverStorageShared \/ RecoverFilesMove
         /\ \/ device'.pkg = device.pkg
            \/ Copy \/ CopyUndo \/ CreateStorageDirectories
            \/ CopyBackupEntry \/ CopyBackupNewContent \/ CopyBackupUndo \/ CopyBackupRestore
            \/ CopiesOrRestores
            \/ RecoverStorageDirectories \/ RecoverStorageShared \/ RecoverFiles \/ RecoverFilesMove
         /\ \/ device'.tmp = device.tmp
            \/ UnzipCreateDir \/ UnzipExtract \/ UnzipUndo \/ Copy
            \/ CopyBackupNewContent \/ CopyBackupUndo \/ RemoveTemporaryDirectory
<1>. USE DEF Touches, DeviceParts, CopiesOrRestores, Discards
<1>1. CASE CommonStep
  BY <1>1, CommonTouches DEF CommonStep
<1>2. CASE InstallStep
  BY <1>2, InstallTouches DEF InstallStep
<1>3. CASE UpdateStep
  BY <1>3, UpdateTouches DEF UpdateStep
<1>4. CASE RecoveryStep
  BY <1>4, RecoveryTouches DEF RecoveryStep
<1>. QED  BY <1>1, <1>2, <1>3, <1>4 DEF Handler

LEMMA WritersOfMarks ==
  ASSUME TypeInv, Handler
  PROVE  /\ \/ device'.xml = device.xml
            \/ CreateManifest \/ CreateManifestUndo \/ BackupManifestUndo \/ RecoverManifest
         /\ \/ device'.xmlBck = device.xmlBck
            \/ BackupManifest \/ BackupManifestUndo \/ BackupManifestClean \/ RecoverManifest
         /\ \/ device'.icon = device.icon
            \/ CreateIconsCopy \/ CreateIconsUndo \/ BackupIconsMove \/ BackupIconsUndo
            \/ RecoverIconsMove
         /\ \/ device'.iconBck = device.iconBck
            \/ BackupIconsMove \/ BackupIconsUndo \/ BackupIconsClean \/ RecoverIconsMove
         /\ \/ device'.db = device.db
            \/ RegisterApplication \/ RegisterApplicationUndo
            \/ UpdateApplication \/ UpdateApplicationUndo
            \/ RecoverApplication \/ RecoverApplicationRegister
         /\ \/ device'.sec = device.sec
            \/ RollbackInstallationSecurityUndo \/ RegisterSecurity
            \/ UpdateSecurity \/ UpdateSecurityUndo \/ RecoverSecurity
<1>. USE DEF Touches, DeviceParts
<1>1. CASE CommonStep
  BY <1>1, CommonTouches DEF CommonStep
<1>2. CASE InstallStep
  BY <1>2, InstallTouches DEF InstallStep
<1>3. CASE UpdateStep
  BY <1>3, UpdateTouches DEF UpdateStep
<1>4. CASE RecoveryStep
  BY <1>4, RecoveryTouches DEF RecoveryStep
<1>. QED  BY <1>1, <1>2, <1>3, <1>4 DEF Handler

LEMMA WritersOfMemory ==
  ASSUME TypeInv, Handler
  PROVE  /\ ctx'.man = ctx.man \/ WritesPackage \/ RewritesPackage
         /\ ctx'.old = ctx.old \/ WritesPackage
         /\ ctx'.bxml = ctx.bxml \/ BackupManifest
         /\ ctx'.gathered = ctx.gathered \/ BackupIcons
         /\ ctx'.made = ctx.made \/ CreateIconsCopy
         /\ \/ ctx'.todo = ctx.todo
            \/ CreateIcons \/ CreateIconsCopy \/ BackupIcons \/ BackupIconsMove
            \/ CopyBackup \/ CopyBackupEntry \/ RecoverIcons \/ RecoverIconsMove
         /\ ctx'.unpacked = ctx.unpacked \/ UnzipExtract \/ OpenRecoveryFile
         /\ ctx'.pkgid = ctx.pkgid \/ ParseManifest \/ OpenRecoveryFile
<1>. USE DEF Learns, MemoryParts, WritesPackage, RewritesPackage
<1>1. CASE CommonStep
  BY <1>1, CommonTouches DEF CommonStep
<1>2. CASE InstallStep
  BY <1>2, InstallTouches DEF InstallStep
<1>3. CASE UpdateStep
  BY <1>3, UpdateTouches DEF UpdateStep
<1>4. CASE RecoveryStep
  BY <1>4, RecoveryTouches DEF RecoveryStep
<1>. QED  BY <1>1, <1>2, <1>3, <1>4 DEF Handler

-------------------------------------------------------------------------------
(* The recovery file *)

\* A handler that keeps the type of the recovery file, or rewrites it.
KeepsRecord ==
  /\ ctx'.file.kind = ctx.file.kind
  /\ \/ device'.rec.kind = device.rec.kind
     \/ /\ phase = "process" /\ it # 1 /\ (req = "Recovery" => it # 2)
        /\ device'.rec.kind \in {ctx.file.kind, "torn"}

LEMMA RecordKept ==
  ASSUME TypeInv, Handler,
         ~(Configure \/ ConfigureWrite \/ ConfigureClean \/ OpenRecoveryFile \/ OpenRecoveryFileUndo)
  PROVE  KeepsRecord
<1>. /\ device \in Devices /\ ctx \in Contexts
  BY Places
<1>1. ASSUME NEW file \in RecoveryFiles, file.kind = ctx.file.kind,
             NEW d \in WriteResults(file), device' = d
      PROVE  device'.rec.kind \in {device.rec.kind, ctx.file.kind, "torn"}
  BY <1>1 DEF WriteResults, Devices, TornRecovery, NoRecovery
<1>2. CASE Unzip
  <2>. DEFINE file == [ctx.file EXCEPT !.dir = TRUE]
  <2>1. PICK d \in WriteResults(file) : GoOn("mkdir", d, [ctx EXCEPT !.file = file])
    BY <1>2 DEF Unzip
  <2>2. file \in RecoveryFiles /\ file.kind = ctx.file.kind
    BY DEF Contexts, RecoveryFiles
  <2>3. device' = d /\ ctx' = [ctx EXCEPT !.file = file]
    BY <2>1 DEF GoOn, Leave
  <2>4. ctx'.file = file
    BY <2>3 DEF Contexts
  <2>. HIDE DEF file
  <2>. QED  BY <1>1, <1>2, <2>1, <2>2, <2>3, <2>4, CommonStands DEF KeepsRecord, In
<1>3. CASE WritesPackage
  <2>. DEFINE file == [ctx.file EXCEPT !.pkgid = TRUE]
  <2>1. PICK d \in WriteResults(file) : ParseWrite(d)
    BY <1>3 DEF WritesPackage
  <2>2. file \in RecoveryFiles /\ file.kind = ctx.file.kind
    BY DEF Contexts, RecoveryFiles
  <2>3. device' = d /\ ctx'.file = file
    BY <2>1 DEF ParseWrite, Done, Leave, Contexts
  <2>. HIDE DEF file
  <2>. QED  BY <1>1, <2>1, <2>2, <2>3, CommonStands DEF KeepsRecord, In, At
<1>4. CASE RewritesPackage
  <2>1. PICK d \in WriteResults(ctx.file) : ParseRecoveryWrite(d)
    BY <1>4 DEF RewritesPackage
  <2>2. device' = d /\ ctx'.file = ctx.file /\ ctx.file \in RecoveryFiles
    BY <2>1 DEF ParseRecoveryWrite, Done, Leave, Contexts
  <2>. QED  BY <1>1, <2>1, <2>2, RecoveryStands DEF KeepsRecord, At
<1>. QED  BY <1>2, <1>3, <1>4, WritersOfRecord DEF KeepsRecord

\* The handlers that stand where only they may move the step loop.
LEMMA FirstHandlers ==
  ASSUME TypeInv, Mended', Handler
  PROVE  /\ phase = "process" /\ it = 1 => Configure \/ ConfigureWrite
         /\ phase = "clean" /\ it = 1 => ConfigureClean
         /\ req = "Recovery" /\ it = 2 /\ phase = "undo" => OpenRecoveryFileUndo
         /\ req = "Recovery" /\ it = 2 /\ phase = "process" => OpenRecoveryFile
<1>. USE DEF At, In
<1>1. CASE CommonStep
  BY <1>1, CommonStands DEF CommonStep
<1>2. CASE InstallStep
  BY <1>2, InstallStands DEF InstallStep
<1>3. CASE UpdateStep
  BY <1>3, UpdateStands DEF UpdateStep
<1>4. CASE RecoveryStep
  BY <1>4, RecoveryStands DEF RecoveryStep
<1>. QED  BY <1>1, <1>2, <1>3, <1>4 DEF Handler

LEMMA FileMoves ==
  ASSUME TypeInv, FileOK, KeepsRecord, Moves, req' = req, phase \in {"process", "undo", "clean"},
         ~(phase = "process" /\ it = 1), ~(phase = "clean" /\ it = 1),
         ~(req = "Recovery" /\ it = 2 /\ phase = "undo"),
         ~(req = "Recovery" /\ it = 2 /\ Proceeds)
  PROVE  FileOK'
<1>. USE Places DEF FileOK, KeepsRecord
<1>1. CASE Proceeds
  BY <1>1 DEF Proceeds
<1>2. CASE Breaks
  BY <1>2 DEF Breaks
<1>3. CASE Stays
  BY <1>3 DEF Stays
<1>4. CASE Retreats
  BY <1>4 DEF Retreats
<1>5. CASE Tidies
  BY <1>5 DEF Tidies
<1>. QED  BY <1>1, <1>2, <1>3, <1>4, <1>5 DEF Moves

LEMMA FileStep ==
  ASSUME TypeInv, FileOK, Mended', Next
  PROVE  FileOK'
<1>. /\ device \in Devices /\ ctx \in Contexts
  BY Places
<1>1. CASE Handler /\ ~(Configure \/ ConfigureWrite \/ ConfigureClean \/ OpenRecoveryFile \/ OpenRecoveryFileUndo)
  <2>1. KeepsRecord /\ Moves /\ req' = req /\ phase \in {"process", "undo", "clean"}
    BY <1>1, RecordKept, HandlersMove DEF SameRequest
  <2>. QED  BY <1>1, <2>1, FileMoves, FirstHandlers DEF Proceeds
<1>2. CASE Configure
  <2>1. phase = "process" /\ it = 1 /\ part = "start" /\ 1 < NumSteps
    BY <1>2, CommonStands, Places
  <2>2. CASE FailsHere("Configure")
    BY <2>1, <2>2 DEF FailsHere, Failed, Leave, StepFails, envVars, FileOK
  <2>3. CASE req = "Recovery" /\ Done(device, ctx)
    BY <2>1, <2>3 DEF Done, Leave, StepOk, envVars, FileOK
  <2>4. CASE req # "Recovery" /\ GoOn("write", [device EXCEPT !.rec = TornRecovery], ctx)
    <3>1. device'.rec.kind = "torn"
      BY <2>4 DEF GoOn, Leave, Devices, TornRecovery, NoRecovery
    <3>. QED  BY <2>1, <2>4, <3>1 DEF GoOn, Leave, runnerVars, envVars, FileOK
  <2>. QED  BY <1>2, <2>2, <2>3, <2>4 DEF Configure
<1>3. CASE ConfigureWrite
  <2>. DEFINE file == [NoRecovery EXCEPT !.kind = req]
  <2>1. phase = "process" /\ it = 1 /\ req # "Recovery" /\ 1 < NumSteps
    BY <1>3, CommonStands, Places DEF In
  <2>2. file.kind = req
    BY DEF NoRecovery
  <2>3. CASE Done([device EXCEPT !.rec = file], [ctx EXCEPT !.file = file])
    <3>1. device'.rec = file /\ ctx'.file = file
      BY <2>3 DEF Done, Leave, Devices, Contexts
    <3>2. phase' = "process" /\ it' = 2 /\ req' = req
      BY <2>1, <2>3 DEF Done, Leave, StepOk, envVars
    <3>. QED  BY <2>1, <2>2, <3>1, <3>2 DEF FileOK
  <2>4. CASE Failed([device EXCEPT !.rec = NoRecovery], ctx)
    <3>1. device'.rec.kind = "none" /\ ctx' = ctx
      BY <2>4 DEF Failed, Leave, Devices, NoRecovery
    <3>2. phase' = "undo" /\ it' = 1 /\ req' = req
      BY <2>1, <2>4 DEF Failed, Leave, StepFails, envVars
    <3>. QED  BY <2>1, <3>1, <3>2 DEF FileOK
  <2>. QED  BY <1>3, <2>3, <2>4 DEF ConfigureWrite
<1>4. CASE ConfigureClean
  <2>1. /\ phase = "clean" /\ it = 1 /\ 1 < NumSteps
    BY <1>4, CommonStands, Places
  <2>2. device'.rec.kind = "none" /\ ctx'.file.kind = "none"
    BY <1>4 DEF ConfigureClean, Devices, Contexts, NoRecovery
  <2>. QED  BY <1>4, <2>1, <2>2 DEF ConfigureClean, StepCleaned, FileOK
<1>5. CASE OpenRecoveryFile
  <2>1. At("process", "Recovery", 2, "start") /\ 2 < NumSteps
    BY <1>5, RecoveryStands, Places DEF At
  <2>2. CASE FailsHere("OpenRecoveryFile")
    BY <2>1, <2>2 DEF At, FailsHere, Failed, Leave, StepFails, envVars, FileOK
  <2>3. CASE ~FailsHere("OpenRecoveryFile")
    <3>. DEFINE c == [ctx EXCEPT !.file = device.rec, !.unpacked = device.rec.dir,
                                 !.pkgid = device.rec.pkgid]
    <3>1. Done(device, c) /\ device.rec.kind \in {"Install", "Update"} /\ c.file = device.rec
      BY <1>5, <2>3 DEF OpenRecoveryFile, Contexts
    <3>. HIDE DEF c
    <3>2. /\ device' = device /\ ctx' = c /\ phase' = "process" /\ it' = 3 /\ req' = req
      BY <2>1, <3>1 DEF At, Done, Leave, StepOk, envVars
    <3>3. ctx'.file.kind = device'.rec.kind /\ device'.rec.kind \in {"Install", "Update"} /\ req' = "Recovery"
      BY <2>1, <3>1, <3>2 DEF At
    <3>. QED  BY <3>2, <3>3 DEF FileOK
  <2>. QED  BY <2>2, <2>3
<1>6. CASE OpenRecoveryFileUndo
  <2>1. At("undo", "Recovery", 2, "start")
    BY <1>6, RecoveryStands
  <2>2. /\ device' = device /\ ctx'.file.kind = "none" /\ phase' = "undo" /\ it' = 1 /\ req' = req
    BY <1>6, <2>1 DEF At, OpenRecoveryFileUndo, StepUndone, envVars, Contexts, NoRecovery
  <2>. QED  BY <2>1, <2>2 DEF At, FileOK
<1>7. CASE Begin
  <2>1. ~RecoveryWaits => req' \in {"Install", "Update"}
    BY <1>7, WorldMoves
  <2>. QED  BY <1>7, <2>1, WorldMoves DEF FileOK, RecoveryWaits
<1>8. CASE Exit \/ Abort \/ Crash
  BY <1>8, WorldMoves DEF FileOK, FreshContext, NoRecovery
<1>9. CASE StoreUserFile
  BY <1>9, WorldMoves DEF FileOK, Touches, DeviceParts
<1>. QED  BY <1>1, <1>2, <1>3, <1>4, <1>5, <1>6, <1>7, <1>8, <1>9 DEF Next, Handler

-------------------------------------------------------------------------------
(* What is under way *)

\* The recovery file is all that tells of a request: nothing runs, or a recovery has
\* not read the file yet, or it leaves the rest to a later recovery.
Waits == phase = "idle" \/ (req = "Recovery" /\ (phase \in {"undo", "end"}
                                                 \/ (phase = "process" /\ it <= 2)))

\* A request of the kind has done its step k and has neither undone it nor committed,
\* and a recovery of it has not done its step r: what k leaves and r mends may be there.
Underway(kind, k, r) ==
  \/ Waits /\ device.rec.kind \in {kind, "torn"}
  \/ req = "Recovery" /\ phase = "process" /\ it >= 3 /\ it <= r /\ ctx.file.kind = kind
  \/ req = kind /\ phase \in {"process", "undo"} /\ it >= k
  \/ req = kind /\ phase = "clean" /\ it = 1

Running(kind) == req = kind /\ phase \in {"process", "undo"}
Recovering(kind, k) == req = "Recovery" /\ phase = "process" /\ it >= k /\ ctx.file.kind = kind

LEMMA RecoveryRecord ==
  ASSUME TypeInv, FileOK, Mended', Handler, req = "Recovery"
  PROVE  /\ phase = "undo" => device'.rec.kind = device.rec.kind
         /\ phase = "process" /\ it <= 2 => device'.rec.kind = device.rec.kind
         /\ phase = "process" /\ it = 2 /\ Proceeds =>
              device.rec.kind # "torn" /\ ctx'.file.kind = device.rec.kind
<1>. ctx \in Contexts /\ it \in Nat /\ it >= 1
  BY Places
<1>1. phase = "undo" => device'.rec.kind = device.rec.kind
  BY RecordKept, RecoveryTouches, CommonStands, RecoveryStands
     DEF KeepsRecord, Touches, DeviceParts, At, In
<1>2. CASE phase = "process" /\ it = 1
  <2>1. Configure
    BY <1>2, FirstHandlers, CommonStands DEF In
  <2>. QED  BY <1>2, <2>1 DEF Configure, Done, Leave, FailsHere, Failed
<1>3. CASE phase = "process" /\ it = 2
  <2>1. OpenRecoveryFile
    BY <1>3, FirstHandlers
  <2>2. device'.rec = device.rec
    BY <2>1, RecoveryTouches DEF Touches, DeviceParts
  <2>3. ASSUME Proceeds
        PROVE  device.rec.kind # "torn" /\ ctx'.file.kind = device.rec.kind
    <3>1. ~FailsHere("OpenRecoveryFile")
      BY <2>3 DEF FailsHere, Failed, StepFails, Proceeds
    <3>. DEFINE c == [ctx EXCEPT !.file = device.rec, !.unpacked = device.rec.dir,
                                 !.pkgid = device.rec.pkgid]
    <3>2. Done(device, c) /\ device.rec.kind \in {"Install", "Update"} /\ c.file = device.rec
      BY <2>1, <3>1 DEF OpenRecoveryFile, Contexts
    <3>. HIDE DEF c
    <3>. QED  BY <3>2 DEF Done, Leave
  <2>. QED  BY <1>3, <2>2, <2>3
<1>. QED  BY <1>1, <1>2, <1>3

\* What is under way stays under way, unless the rollback undoes its first step, the
\* recovery has done its last one, or the request commits.
LEMMA UnderwayStays ==
  ASSUME TypeInv, FileOK, FileOK', Mended', Next,
         NEW kind \in {"Install", "Update"}, NEW k \in 2..13, NEW r \in 3..10,
         Underway(kind, k, r)
  PROVE  \/ Underway(kind, k, r)'
         \/ req = kind /\ phase = "undo" /\ it = k /\ Retreats
         \/ req = "Recovery" /\ phase = "process" /\ it = r /\ Proceeds /\ ctx.file.kind = kind
         \/ req = kind /\ ConfigureClean
<1>. /\ it \in Nat /\ it >= 1 /\ it <= Last /\ Last \in Nat /\ Last >= 10
     /\ req \in {"Install", "Update", "Recovery"} /\ k \in Nat /\ r \in Nat
     /\ Last = 10 \/ Last = 13
  BY Places
<1>1. CASE Handler
  <2>1. phase \in {"process", "undo", "clean"} /\ req' = req /\ Moves
    BY <1>1, HandlersMove DEF SameRequest
  <2>2. CASE req # "Recovery" /\ phase = "clean"
    <3>1. it = 1 /\ req = kind
      BY <2>2 DEF Underway, Waits
    <3>. QED  BY <1>1, <2>2, <3>1, FirstHandlers
  <2>3. CASE req # "Recovery" /\ phase # "clean"
    <3>1. req = kind /\ it >= k
      BY <2>1, <2>3 DEF Underway, Waits
    <3>2. \/ phase' \in {"process", "undo"} /\ it' >= k
          \/ phase' = "clean" /\ it' = 1
          \/ phase = "undo" /\ it = k /\ Retreats
      BY <2>1, <2>3, <3>1 DEF Moves, Proceeds, Breaks, Stays, Retreats, Tidies
    <3>. QED  BY <2>1, <2>3, <3>1, <3>2 DEF Underway, Waits
  <2>4. CASE req = "Recovery" /\ phase = "undo"
    <3>1. device'.rec.kind = device.rec.kind /\ phase' \in {"undo", "end"}
      BY <1>1, <2>1, <2>4, RecoveryRecord DEF Moves, Proceeds, Breaks, Stays, Retreats, Tidies
    <3>. QED  BY <2>1, <2>4, <3>1 DEF Underway, Waits
  <2>5. CASE req = "Recovery" /\ phase = "process" /\ it <= 2
    <3>1. device'.rec.kind = device.rec.kind
      BY <1>1, <2>5, RecoveryRecord
    <3>2. device.rec.kind \in {kind, "torn"}
      BY <2>5 DEF Underway, Waits
    <3>3. \/ phase' = "undo"
          \/ phase' = "process" /\ it' <= 2
          \/ phase' = "process" /\ it' = 3 /\ it = 2 /\ Proceeds
      BY <2>1, <2>5 DEF Moves, Proceeds, Breaks, Stays, Retreats, Tidies, Last
    <3>4. CASE phase' = "process" /\ it' = 3 /\ it = 2 /\ Proceeds
      BY <1>1, <2>1, <2>5, <3>2, <3>4, RecoveryRecord DEF Underway, Waits
    <3>. QED  BY <2>1, <2>5, <3>1, <3>2, <3>3, <3>4 DEF Underway, Waits
  <2>6. CASE req = "Recovery" /\ phase = "process" /\ it >= 3
    <3>1. ctx.file.kind = kind /\ it <= r
      BY <2>6 DEF Underway, Waits, FileOK
    <3>2. ctx'.file.kind = kind
      BY <1>1, <2>6, <3>1, RecordKept, CommonStands, RecoveryStands DEF KeepsRecord, At, In
    <3>3. \/ phase' = "undo" /\ it' = it
          \/ phase' = "process" /\ it' >= 3 /\ it' <= r
          \/ it = r /\ Proceeds
      BY <2>1, <2>6, <3>1 DEF Moves, Proceeds, Breaks, Stays, Retreats, Tidies, Last
    <3>4. CASE phase' = "undo" /\ it' = it
      <4>1. req' = "Recovery" /\ it' >= 2 /\ kind # "none"
        BY <2>1, <2>6, <3>4
      <4>2. ctx'.file.kind = "none" \/ device'.rec.kind \in {ctx'.file.kind, "torn"}
        BY <3>4, <4>1, Z3 DEF FileOK
      <4>3. device'.rec.kind \in {kind, "torn"}
        BY <3>2, <4>1, <4>2
      <4>. QED  BY <3>4, <4>1, <4>3 DEF Underway, Waits
    <3>. QED  BY <2>1, <2>6, <3>1, <3>2, <3>3, <3>4 DEF Underway, Waits
  <2>7. ~(req = "Recovery" /\ phase = "clean")
    BY DEF Underway, Waits
  <2>. QED  BY <2>1, <2>2, <2>3, <2>4, <2>5, <2>6, <2>7
<1>2. CASE Begin
  <2>1. device.rec.kind \in {kind, "torn"} /\ RecoveryWaits
    BY <1>2, WorldMoves DEF Underway, Waits, RecoveryWaits
  <2>. QED  BY <1>2, <2>1, WorldMoves DEF Underway, Waits
<1>3. CASE Exit \/ Abort \/ Crash
  <2>1. device'.rec.kind \in {kind, "torn"}
    <3>1. CASE Exit
      <4>1. phase = "end" /\ req = "Recovery" /\ device.rec.kind \in {kind, "torn"}
        BY <3>1, WorldMoves DEF Underway, Waits
      <4>2. ctx.file.kind = "none"
        BY <4>1 DEF FileOK
      <4>. QED  BY <3>1, <4>1, <4>2, WorldMoves
    <3>2. CASE Abort
      BY <3>2, WorldMoves
    <3>3. CASE Crash
      <4>1. device'.rec.kind \in {device.rec.kind, "torn"}
        BY <3>3, Crashes
           DEF Touches, DeviceParts, TearsRecovery, TearsManifest, RemovesFiles, TearsRules,
               CopiesStorage, RemovesStorage, TornRecovery, NoRecovery
      <4>2. phase \in {"process", "undo", "end"}
        BY <3>3, Crashes
      <4>3. device.rec.kind \in {kind, "torn"}
        <5>1. CASE req # "Recovery"
          BY <4>2, <5>1 DEF Underway, Waits, FileOK
        <5>2. CASE req = "Recovery"
          BY <4>2, <5>2 DEF Underway, Waits, FileOK
        <5>. QED  BY <5>1, <5>2
      <4>. QED  BY <4>1, <4>3
    <3>. QED  BY <1>3, <3>1, <3>2, <3>3
  <2>. QED  BY <1>3, <2>1, WorldMoves DEF Underway, Waits
<1>4. CASE StoreUserFile
  BY <1>4, WorldMoves DEF Underway, Waits
<1>. QED  BY <1>1, <1>2, <1>3, <1>4 DEF Next, Handler

\* What the world outside the handlers leaves alone.
LEMMA WorldKeeps ==
  ASSUME TypeInv, Mended', Begin \/ Exit \/ Abort \/ Crash \/ StoreUserFile
  PROVE  /\ device'.db = device.db /\ device'.xml = device.xml /\ device'.tmp = device.tmp
         /\ device'.icon = device.icon /\ device'.iconBck = device.iconBck
         /\ device'.bck = device.bck \/ \E key \in StorageKeys : RemovesStorage(key)
         /\ device'.xmlBck = device.xmlBck \/ TearsManifest
         /\ device'.sec = device.sec \/ TearsRules
         /\ \/ device'.pkg = device.pkg \/ StoreUserFile \/ RemovesFiles
            \/ \E key \in StorageKeys : CopiesStorage(key)
<1>. USE DEF Touches, DeviceParts
<1>1. CASE Begin \/ Exit \/ Abort \/ StoreUserFile
  BY <1>1, WorldMoves
<1>2. CASE Crash
  <2>1. CASE TearsRecovery
    BY <2>1 DEF TearsRecovery
  <2>2. CASE TearsManifest
    BY <2>2 DEF TearsManifest
  <2>3. CASE RemovesFiles
    BY <2>3 DEF RemovesFiles
  <2>4. CASE TearsRules
    BY <2>4 DEF TearsRules
  <2>5. ASSUME NEW key \in StorageKeys, CopiesStorage(key)
        PROVE  /\ \A f \in DeviceParts \ {"pkg"} : device'[f] = device[f]
               /\ \E k \in StorageKeys : CopiesStorage(k)
    BY <2>5 DEF CopiesStorage
  <2>6. ASSUME NEW key \in StorageKeys, RemovesStorage(key)
        PROVE  /\ \A f \in DeviceParts \ {"bck"} : device'[f] = device[f]
               /\ \E k \in StorageKeys : RemovesStorage(k)
    BY <2>6 DEF RemovesStorage
  <2>. QED  BY <1>2, <2>1, <2>2, <2>3, <2>4, <2>5, <2>6, Crashes
<1>. QED  BY <1>1, <1>2

\* The handlers that revert, recover or tidy up a step.
LEMMA Reverting ==
  ASSUME TypeInv, Handler
  PROVE  /\ phase = "undo" /\ req = "Install" =>
              /\ it = 2 => UnzipUndo
              /\ it = 4 => RollbackInstallationSecurityUndo
              /\ it = 5 => CopyUndo
              /\ it = 7 => CreateIconsUndo
              /\ it = 8 => CreateManifestUndo
              /\ it = 9 => RegisterApplicationUndo
         /\ phase = "undo" /\ req = "Update" =>
              /\ it = 2 => UnzipUndo
              /\ it = 6 => BackupManifestUndo
              /\ it = 7 => BackupIconsUndo
              /\ it = 8 => CopyBackupUndo \/ CopyBackupRestore
              /\ it = 9 => \E key \in StorageKeys : CopyStorageUndo(key)
              /\ it = 10 => CreateIconsUndo
              /\ it = 11 => CreateManifestUndo
              /\ it = 12 => UpdateApplicationUndo \/ UpdateApplicationUndoCerts
              /\ it = 13 => UpdateSecurityUndo
<1>. USE DEF At, In
<1>1. CASE CommonStep
  BY <1>1, CommonStands DEF CommonStep
<1>2. CASE InstallStep
  BY <1>2, InstallStands DEF InstallStep
<1>3. CASE UpdateStep
  BY <1>3, UpdateStands DEF UpdateStep
<1>4. CASE RecoveryStep
  BY <1>4, RecoveryStands DEF RecoveryStep
<1>. QED  BY <1>1, <1>2, <1>3, <1>4 DEF Handler

LEMMA Mending ==
  ASSUME TypeInv, Handler
  PROVE  /\ phase = "process" /\ req = "Recovery" =>
              /\ it = 3 => ParseRecovery \/ RewritesPackage
              /\ it = 4 => RecoverApplication \/ RecoverApplicationRegister \/ RecoverApplicationCerts
              /\ it = 5 => RemoveTemporaryDirectory
              /\ it = 6 => RecoverIcons \/ RecoverIconsMove
              /\ it = 7 => RecoverManifest
              /\ it = 8 => RecoverStorageDirectories \/ RecoverStorageShared
              /\ it = 9 => RecoverFiles \/ RecoverFilesMove
              /\ it = 10 => RecoverSecurity
         /\ phase = "clean" /\ req = "Update" =>
              /\ it = 6 => BackupManifestClean
              /\ it = 7 => BackupIconsClean
              /\ it = 8 => CopyBackupClean
<1>. USE DEF At, In
<1>1. CASE CommonStep
  BY <1>1, CommonStands DEF CommonStep
<1>2. CASE InstallStep
  BY <1>2, InstallStands DEF InstallStep
<1>3. CASE UpdateStep
  BY <1>3, UpdateStands DEF UpdateStep
<1>4. CASE RecoveryStep
  BY <1>4, RecoveryStands DEF RecoveryStep, RewritesPackage
<1>. QED  BY <1>1, <1>2, <1>3, <1>4 DEF Handler

-------------------------------------------------------------------------------
(* Nothing is left behind *)

\* What step k of an update sets aside may be there until the step is undone, its
\* clean() has run, or step r of a recovery is done.
Pending(k, r) == Underway("Update", k, r) \/ (req = "Update" /\ phase = "clean" /\ it <= k)

LEMMA OnlyHandlers ==
  ASSUME TypeInv, Mended', Next, Retreats \/ Proceeds \/ phase = "clean"
  PROVE  Handler
BY WorldMoves, Crashes, RecoveryStands DEF At, Retreats, Proceeds, Next, Handler

LEMMA PendingStays ==
  ASSUME TypeInv, FileOK, FileOK', Mended', Next, NEW k \in 6..8, NEW r \in 6..9, Pending(k, r)
  PROVE  \/ Pending(k, r)'
         \/ req = "Update" /\ phase = "undo" /\ it = k /\ Retreats
         \/ req = "Recovery" /\ phase = "process" /\ it = r /\ Proceeds /\ ctx.file.kind = "Update"
         \/ req = "Update" /\ phase = "clean" /\ it = k
<1>. /\ it \in Nat /\ it >= 1 /\ it <= Last /\ Last \in Nat /\ Last >= 10 /\ k \in Nat /\ r \in Nat
  BY Places
<1>1. CASE Underway("Update", k, r)
  <2>1. CASE req = "Update" /\ ConfigureClean
    <3>1. phase = "clean" /\ it = 1 /\ it < NumSteps
      BY <2>1, CommonStands, Places
    <3>2. req' = "Update" /\ phase' = "clean" /\ it' = 2
      BY <2>1, <3>1 DEF ConfigureClean, StepCleaned
    <3>. QED  BY <3>2 DEF Pending
  <2>. QED  BY <1>1, <2>1, UnderwayStays DEF Pending
<1>2. CASE req = "Update" /\ phase = "clean" /\ it <= k
  <2>1. ~(Begin \/ Exit \/ Abort \/ Crash \/ StoreUserFile)
    BY <1>2, WorldMoves, Crashes, RecoveryStands DEF At
  <2>2. Handler
    BY <2>1 DEF Next, Handler
  <2>3. Moves /\ req' = req
    BY <2>2, HandlersMove DEF SameRequest
  <2>4. it < k => phase' = "clean" /\ it' <= k
    BY <1>2, <2>3 DEF Moves, Proceeds, Breaks, Stays, Retreats, Tidies
  <2>. QED  BY <1>2, <2>3, <2>4 DEF Pending
<1>. QED  BY <1>1, <1>2 DEF Pending

\* The backup of the files.
LeftBackup == Exists(device.bck) => Pending(8, 9)

LEMMA BackupAppears ==
  ASSUME TypeInv, Mended', Next, Exists(device'.bck)
  PROVE  \/ Exists(device.bck)
         \/ Handler /\ req = "Update" /\ ((phase = "process" /\ it \in {8, 9}) \/ (phase = "undo" /\ it = 9))
<1>. /\ device \in Devices
  BY Places
<1>. USE DEF Exists, Missing, Nodes
<1>1. CASE Handler
  <2>1. CASE CopyBackup \/ CopyBackupEntry
    BY <1>1, <2>1, UpdateStands DEF At
  <2>2. CASE CopiesOrRestores \/ Discards
    BY <1>1, <2>2, UpdateStands DEF At, CopiesOrRestores, Discards
  <2>3. CASE CopyBackupRestore \/ CopyBackupClean \/ RecoverFilesMove
    <3>. ~Fault("clean", "CopyBackup")
      BY MendedBefore DEF Mendable
    <3>1. device'.bck = Missing \/ device'.bck = device.bck
      <4>. HIDE DEF Missing
      <4>. USE DEF Undone, Cleaned, Done, Leave, Devices
      <4>1. CASE CopyBackupRestore
        BY <4>1 DEF CopyBackupRestore
      <4>2. CASE CopyBackupClean
        BY <4>2 DEF CopyBackupClean
      <4>3. CASE RecoverFilesMove
        BY <4>3 DEF RecoverFilesMove
      <4>. QED  BY <2>3, <4>1, <4>2, <4>3
    <3>. QED  BY <3>1
  <2>4. CASE RecoverStorageDirectories \/ RecoverStorageShared
    <3>1. device'.bck = device.bck \/ Exists(device.bck)
      BY <2>4 DEF RecoverStorageDirectories, RecoverStorageShared, StorageRecovered, GoOn, Done, Leave
    <3>. QED  BY <3>1
  <2>. QED  BY <1>1, <2>1, <2>2, <2>3, <2>4, WritersOfFiles
<1>2. CASE Begin \/ Exit \/ Abort \/ Crash \/ StoreUserFile
  <2>1. ASSUME NEW key \in StorageKeys, RemovesStorage(key)
        PROVE  device'.bck["."] = device.bck["."]
    BY <2>1 DEF RemovesStorage, Put, StorageKeys, Devices, Trees
  <2>. QED  BY <1>2, <2>1, WorldKeeps
<1>. QED  BY <1>1, <1>2 DEF Next, Handler

LEMMA LeftBackupStep ==
  ASSUME TypeInv, FileOK, FileOK', Mended', Next, LeftBackup
  PROVE  LeftBackup'
<1>. SUFFICES ASSUME Exists(device'.bck), ~Pending(8, 9)'
              PROVE  FALSE
  BY DEF LeftBackup
<1>. /\ device \in Devices /\ it \in Nat /\ it <= Last /\ Last = IF req = "Update" THEN 13 ELSE 10
  BY Places
<1>1. ~(Handler /\ req = "Update" /\ ((phase = "process" /\ it \in {8, 9}) \/ (phase = "undo" /\ it = 9)))
  <2>. SUFFICES ASSUME Handler, req = "Update",
                       (phase = "process" /\ it \in {8, 9}) \/ (phase = "undo" /\ it = 9)
                PROVE  Underway("Update", 8, 9)'
    BY DEF Pending
  <2>1. Moves /\ req' = req
    BY HandlersMove DEF SameRequest
  <2>. QED  BY <2>1 DEF Underway, Moves, Proceeds, Breaks, Stays, Retreats, Tidies
<1>2. Exists(device.bck) /\ Pending(8, 9)
  BY <1>1, BackupAppears DEF LeftBackup
<1>3. Handler
  BY <1>2, PendingStays, OnlyHandlers
<1>. /\ ~Fault("undo", "CopyBackup") /\ ~Fault("fail", "RecoverFiles") /\ ~Fault("clean", "CopyBackup")
  BY MendedBefore DEF Mendable
<1>. USE DEF Undone, Cleaned, Done, Leave, Devices, Exists, Missing, Nodes
<1>4. CASE req = "Update" /\ phase = "undo" /\ it = 8 /\ Retreats
  <2>1. CopyBackupUndo \/ CopyBackupRestore
    BY <1>3, <1>4, Reverting
  <2>2. it' # it \/ phase' # phase
    BY <1>4 DEF Retreats
  <2>. QED  BY <1>2, <2>1, <2>2 DEF CopyBackupUndo, CopyBackupRestore, GoOn, runnerVars
<1>5. CASE req = "Recovery" /\ phase = "process" /\ it = 9 /\ Proceeds /\ ctx.file.kind = "Update"
  <2>1. RecoverFiles \/ RecoverFilesMove
    BY <1>3, <1>5, Mending
  <2>2. it' # it
    BY <1>5 DEF Proceeds
  <2>3. CASE RecoverFiles
    BY <1>2, <1>5, <2>2, <2>3 DEF RecoverFiles, New, GoOn, runnerVars
  <2>4. CASE RecoverFilesMove
    <3>1. device'.bck = Missing
      BY <2>4 DEF RecoverFilesMove
    <3>. QED  BY <3>1
  <2>. QED  BY <2>1, <2>3, <2>4
<1>6. CASE req = "Update" /\ phase = "clean" /\ it = 8
  <2>1. CopyBackupClean
    BY <1>3, <1>6, Mending
  <2>. QED  BY <2>1 DEF CopyBackupClean
<1>. QED  BY <1>2, <1>4, <1>5, <1>6, PendingStays

\* The backup of the installed manifest, which an update knows of.
LeftManifest ==
  device.xmlBck # None => Pending(6, 7) /\ (Running("Update") => ctx.bxml)

\* A step of a process finds what the process had when the step began, and a process
\* that begins an update finds nothing that waits for a recovery.
LEMMA RunsOn ==
  ASSUME TypeInv, Mended', Next, NEW k \in 6..8, NEW r \in 6..9, Pending(k, r), Running("Update")'
  PROVE  Handler /\ Running("Update")
<1>1. CASE Handler
  BY <1>1, HandlersMove DEF Running, SameRequest, Moves, Proceeds, Breaks, Stays, Retreats, Tidies
<1>2. ~Begin
  BY WorldMoves DEF Pending, Underway, Waits, Running, RecoveryWaits
<1>. QED  BY <1>1, <1>2, WorldMoves DEF Next, Handler, Running

LEMMA LeftManifestStep ==
  ASSUME TypeInv, FileOK, FileOK', Mended', Next, LeftManifest
  PROVE  LeftManifest'
<1>. SUFFICES ASSUME device'.xmlBck # None
              PROVE  Pending(6, 7)' /\ (Running("Update")' => ctx'.bxml)
  BY DEF LeftManifest
<1>. /\ device \in Devices /\ ctx \in Contexts /\ it <= Last /\ Last = IF req = "Update" THEN 13 ELSE 10
  BY Places
<1>. /\ ~Fault("undo", "BackupManifest") /\ ~Fault("fail", "RecoverManifest")
     /\ ~Fault("clean", "BackupManifest")
  BY MendedBefore DEF Mendable
<1>1. CASE BackupManifest
  <2>1. At("process", "Update", 6, "start") /\ Moves /\ req' = req
    BY <1>1, UpdateStands, HandlersMove DEF Handler, UpdateStep, SameRequest
  <2>2. Pending(6, 7)'
    BY <2>1 DEF At, Pending, Underway, Moves, Proceeds, Breaks, Stays, Retreats, Tidies
  <2>3. CASE device.xml = None
    BY <1>1, <2>1, <2>2, <2>3 DEF BackupManifest, Failed, Leave, LeftManifest, At, Running
  <2>4. CASE device.xml # None
    <3>. DEFINE c == [ctx EXCEPT !.bxml = TRUE]
    <3>1. ctx' = c
      BY <1>1, <2>4 DEF BackupManifest, Failed, Done, Leave
    <3>. QED  BY <2>2, <3>1 DEF Contexts
  <2>. QED  BY <2>2, <2>3, <2>4
<1>2. CASE TearsManifest /\ ~Handler
  <2>1. Exit \/ Abort \/ Crash
    BY <1>2, WorldMoves DEF TearsManifest, At, Next, Handler
  <2>2. device'.rec.kind \in {"Update", "torn"}
    BY <1>2 DEF TearsManifest, At, FileOK, Touches, DeviceParts
  <2>. QED  BY <2>1, <2>2, WorldMoves DEF Pending, Underway, Waits, Running
<1>3. CASE ~BackupManifest /\ ~(TearsManifest /\ ~Handler)
  <2>1. device'.xmlBck = device.xmlBck
    <3>1. CASE Handler
      <4>1. CASE BackupManifestUndo
        BY <4>1 DEF BackupManifestUndo, Undone, Leave, Devices
      <4>2. CASE BackupManifestClean
        BY <4>2 DEF BackupManifestClean, Cleaned, Leave, Devices
      <4>3. CASE RecoverManifest
        BY <4>3 DEF RecoverManifest, Done, Leave, Devices, FailsHere, Failed
      <4>. QED  BY <1>3, <3>1, <4>1, <4>2, <4>3, WritersOfMarks
    <3>. QED  BY <1>3, <3>1, WorldKeeps DEF Next, Handler
  <2>2. device.xmlBck # None /\ Pending(6, 7) /\ (Running("Update") => ctx.bxml)
    BY <2>1 DEF LeftManifest
  <2>3. Running("Update")' => ctx'.bxml
    BY <1>3, <2>2, RunsOn, WritersOfMemory
  <2>4. ASSUME req = "Update" /\ phase = "undo" /\ it = 6 /\ Retreats
        PROVE  FALSE
    <3>1. BackupManifestUndo
      BY <2>4, OnlyHandlers, Reverting
    <3>. QED  BY <2>1, <2>2, <2>4, <3>1 DEF Running, BackupManifestUndo, Undone, Leave, Devices
  <2>5. ASSUME req = "Recovery" /\ phase = "process" /\ it = 7 /\ Proceeds /\ ctx.file.kind = "Update"
        PROVE  FALSE
    <3>1. RecoverManifest
      BY <2>5, OnlyHandlers, Mending
    <3>. QED  BY <2>1, <2>2, <2>5, <3>1 DEF RecoverManifest, New, Done, Leave, Devices, FailsHere
  <2>6. ASSUME req = "Update" /\ phase = "clean" /\ it = 6
        PROVE  FALSE
    <3>1. BackupManifestClean
      BY <2>6, OnlyHandlers, Mending
    <3>. QED  BY <2>1, <2>2, <3>1 DEF BackupManifestClean, Cleaned, Leave, Devices
  <2>. QED  BY <2>2, <2>3, <2>4, <2>5, <2>6, PendingStays
<1>. QED  BY <1>1, <1>2, <1>3

\* Whoever knows the package from the recovery file knows its unpacked archive too.
NamesArchive ==
  /\ device.rec.pkgid => device.rec.dir
  /\ ctx.file.pkgid => ctx.file.dir
  /\ phase = "idle" => ~ctx.pkgid
  /\ req # "Recovery" /\ phase = "process" /\ (it >= 3 \/ (it = 2 /\ part # "start")) => ctx.file.dir
  /\ req = "Recovery" /\ phase = "process" =>
       /\ ctx.pkgid => ctx.unpacked
       /\ it >= 4 \/ (it = 3 /\ part = "rec") => ctx.unpacked

LEMMA Unpacking ==
  ASSUME TypeInv, Handler, phase = "process", req # "Recovery", it = 2
  PROVE  Unzip \/ UnzipCreateDir \/ UnzipExtract
<1>. USE DEF At, In
<1>1. CASE CommonStep
  BY <1>1, CommonStands DEF CommonStep
<1>2. CASE InstallStep
  BY <1>2, InstallStands DEF InstallStep
<1>3. CASE UpdateStep
  BY <1>3, UpdateStands DEF UpdateStep
<1>4. CASE RecoveryStep
  BY <1>4, RecoveryStands DEF RecoveryStep
<1>. QED  BY <1>1, <1>2, <1>3, <1>4 DEF Handler

\* The recovery files a step writes, and what the process keeps of them.
Linked(file) == file.pkgid => file.dir

LEMMA FilesName ==
  ASSUME TypeInv, NamesArchive, Handler
  PROVE  Linked(device'.rec) /\ Linked(ctx'.file)
<1>. /\ device \in Devices /\ ctx \in Contexts
  BY Places
<1>. USE DEF Linked
<1>1. ASSUME NEW file \in RecoveryFiles, Linked(file), NEW d \in WriteResults(file), device' = d
      PROVE  Linked(device'.rec)
  BY <1>1 DEF NamesArchive, WriteResults, Devices, TornRecovery, NoRecovery
<1>2. CASE Configure
  <2>1. ctx' = ctx /\ device'.rec \in {device.rec, TornRecovery}
    BY <1>2 DEF Configure, Done, GoOn, Leave, FailsHere, Failed, Devices
  <2>. QED  BY <2>1 DEF NamesArchive, TornRecovery, NoRecovery
<1>3. CASE ConfigureWrite
  <2>. DEFINE file == [NoRecovery EXCEPT !.kind = req]
  <2>1. Linked(file) /\ Linked(NoRecovery)
    BY DEF NoRecovery
  <2>2. device'.rec \in {file, NoRecovery} /\ ctx'.file \in {file, ctx.file}
    <3>. HIDE DEF file
    <3>. QED  BY <1>3 DEF ConfigureWrite, Done, Leave, Failed, Devices, Contexts, file
  <2>. QED  BY <2>1, <2>2 DEF NamesArchive
<1>4. CASE ConfigureClean
  BY <1>4 DEF ConfigureClean, Devices, Contexts, NoRecovery
<1>5. CASE Unzip
  <2>. DEFINE file == [ctx.file EXCEPT !.dir = TRUE]
  <2>1. PICK d \in WriteResults(file) : GoOn("mkdir", d, [ctx EXCEPT !.file = file])
    BY <1>5 DEF Unzip
  <2>2. file \in RecoveryFiles /\ Linked(file)
    BY DEF Contexts, RecoveryFiles
  <2>3. device' = d /\ ctx' = [ctx EXCEPT !.file = file]
    BY <2>1 DEF GoOn, Leave
  <2>4. ctx'.file = file
    BY <2>3 DEF Contexts
  <2>. HIDE DEF file
  <2>. QED  BY <1>1, <2>1, <2>2, <2>3, <2>4
<1>6. CASE WritesPackage
  <2>. DEFINE file == [ctx.file EXCEPT !.pkgid = TRUE]
  <2>1. PICK d \in WriteResults(file) : ParseWrite(d)
    BY <1>6 DEF WritesPackage
  <2>2. ctx.file.dir
    BY <2>1, CommonStands DEF NamesArchive, In, At
  <2>3. file \in RecoveryFiles /\ Linked(file)
    BY <2>2 DEF Contexts, RecoveryFiles
  <2>4. device' = d /\ ctx'.file = file
    BY <2>1 DEF ParseWrite, Done, Leave, Contexts
  <2>. HIDE DEF file
  <2>. QED  BY <1>1, <2>1, <2>3, <2>4
<1>7. CASE RewritesPackage
  <2>1. PICK d \in WriteResults(ctx.file) : ParseRecoveryWrite(d)
    BY <1>7 DEF RewritesPackage
  <2>2. device' = d /\ ctx'.file = ctx.file /\ ctx.file \in RecoveryFiles
    BY <2>1 DEF ParseRecoveryWrite, Done, Leave, Contexts
  <2>. QED  BY <1>1, <2>1, <2>2 DEF NamesArchive
<1>8. CASE OpenRecoveryFile
  <2>1. device' = device /\ ctx'.file \in {ctx.file, device.rec}
    BY <1>8 DEF OpenRecoveryFile, FailsHere, Failed, Done, Leave, Contexts
  <2>. QED  BY <2>1 DEF NamesArchive
<1>9. CASE OpenRecoveryFileUndo
  BY <1>9 DEF OpenRecoveryFileUndo, NamesArchive, Contexts, NoRecovery
<1>. QED  BY <1>2, <1>3, <1>4, <1>5, <1>6, <1>7, <1>8, <1>9, WritersOfRecord DEF NamesArchive

LEMMA NamesArchiveStep ==
  ASSUME TypeInv, NamesArchive, Mended', Next
  PROVE  NamesArchive'
<1>. /\ device \in Devices /\ ctx \in Contexts /\ it \in Nat /\ it >= 1
     /\ req \in {"Install", "Update", "Recovery"}
  BY Places
<1>1. CASE Handler
  <2>1. Linked(device'.rec) /\ Linked(ctx'.file)
    BY <1>1, FilesName
  <2>2. Moves /\ req' = req /\ phase \in {"process", "undo", "clean"}
    BY <1>1, HandlersMove DEF SameRequest
  <2>3. phase' # "idle"
    BY <2>2 DEF Moves, Proceeds, Breaks, Stays, Retreats, Tidies
  <2>4. ASSUME req # "Recovery", phase' = "process", it' >= 3 \/ (it' = 2 /\ part' # "start")
        PROVE  ctx'.file.dir
    <3>1. CASE phase = "process" /\ it = 2
      <4>1. CASE Unzip
        BY <4>1 DEF Unzip, GoOn, Leave, Contexts, RecoveryFiles
      <4>2. CASE UnzipCreateDir \/ UnzipExtract
        <5>1. part # "start" /\ ctx'.file = ctx.file
          BY <4>2, CommonStands, CommonTouches DEF Learns, MemoryParts, In
        <5>. QED  BY <2>4, <3>1, <5>1 DEF NamesArchive
      <4>. QED  BY <1>1, <2>4, <3>1, <4>1, <4>2, Unpacking
    <3>2. CASE ~(phase = "process" /\ it = 2)
      <4>1. phase = "process" /\ it >= 3
        BY <2>2, <2>4, <3>2 DEF Moves, Proceeds, Breaks, Stays, Retreats, Tidies
      <4>2. ctx.file.dir
        BY <2>4, <4>1 DEF NamesArchive
      <4>3. ctx'.file = ctx.file \/ WritesPackage
        BY <1>1, <2>4, <4>1, WritersOfRecord, CommonStands, RecoveryStands DEF At, In
      <4>4. CASE WritesPackage
        <5>1. ctx'.file = [ctx.file EXCEPT !.pkgid = TRUE]
          BY <4>4 DEF WritesPackage, ParseWrite, Done, Leave, Contexts
        <5>. QED  BY <4>2, <5>1 DEF Contexts, RecoveryFiles
      <4>. QED  BY <4>2, <4>3, <4>4
    <3>. QED  BY <3>1, <3>2
  <2>5. ASSUME req = "Recovery", phase' = "process"
        PROVE  /\ ctx'.pkgid => ctx'.unpacked
               /\ it' >= 4 \/ (it' = 3 /\ part' = "rec") => ctx'.unpacked
    <3>1. phase = "process"
      BY <2>2, <2>5 DEF Moves, Proceeds, Breaks, Stays, Retreats, Tidies
    <3>2. CASE OpenRecoveryFile
      <4>1. \/ ctx' = ctx /\ phase' # "process"
            \/ (device.rec.dir => ctx'.unpacked) /\ (ctx'.pkgid => device.rec.pkgid) /\ part' = "start"
        <5>. DEFINE c == [ctx EXCEPT !.file = device.rec, !.unpacked = device.rec.dir,
                                     !.pkgid = device.rec.pkgid]
        <5>1. FailsHere("OpenRecoveryFile") \/ Done(device, c)
          BY <3>2 DEF OpenRecoveryFile
        <5>2. (device.rec.dir => c.unpacked) /\ (c.pkgid => device.rec.pkgid)
          BY DEF Contexts
        <5>. HIDE DEF c
        <5>. QED  BY <5>1, <5>2 DEF FailsHere, Failed, StepFails, Done, Leave
      <4>2. it = 2
        BY <3>2, RecoveryStands DEF At
      <4>3. it' = 3 \/ it' = 2
        BY <2>2, <2>5, <3>1, <4>2 DEF Moves, Proceeds, Breaks, Stays, Retreats, Tidies
      <4>. QED  BY <2>5, <4>1, <4>3 DEF NamesArchive
    <3>3. CASE ~OpenRecoveryFile
      <4>1. ctx'.pkgid = ctx.pkgid /\ ctx'.unpacked = ctx.unpacked
        BY <1>1, <2>5, <3>3, WritersOfMemory, CommonStands DEF In
      <4>2. ASSUME it' >= 4 \/ (it' = 3 /\ part' = "rec"), ~(it >= 4 \/ (it = 3 /\ part = "rec"))
            PROVE  ctx.unpacked
        <5>1. it = 3
          BY <2>2, <3>1, <3>3, <4>2, <1>1, <2>5, FirstHandlers
             DEF Moves, Proceeds, Breaks, Stays, Retreats, Tidies
        <5>2. ParseRecovery
          BY <1>1, <2>5, <3>1, <4>2, <5>1, Mending, RecoveryStands DEF RewritesPackage, At
        <5>3. ctx.pkgid
          BY <2>5, <5>2 DEF ParseRecovery, FailsHere, Failed, StepFails
        <5>. QED  BY <2>5, <3>1, <5>3 DEF NamesArchive
      <4>. QED  BY <2>5, <3>1, <4>1, <4>2 DEF NamesArchive
    <3>. QED  BY <3>2, <3>3
  <2>. QED  BY <2>1, <2>2, <2>3, <2>4, <2>5 DEF NamesArchive, Linked
<1>2. CASE Begin
  BY <1>2, WorldMoves DEF NamesArchive
<1>3. CASE Exit \/ Abort \/ Crash
  <2>1. Linked(device'.rec)
    <3>1. CASE Exit \/ Abort
      BY <3>1, WorldMoves DEF Linked, NamesArchive, NoRecovery
    <3>2. CASE Crash
      BY <3>2, Crashes
         DEF Touches, DeviceParts, TearsRecovery, TearsManifest, RemovesFiles, TearsRules,
             CopiesStorage, RemovesStorage, TornRecovery, NoRecovery, Linked, NamesArchive
    <3>. QED  BY <1>3, <3>1, <3>2
  <2>. QED  BY <1>3, <2>1, WorldMoves DEF NamesArchive, Linked, FreshContext, NoRecovery
<1>4. CASE StoreUserFile
  BY <1>4, WorldMoves DEF NamesArchive, Touches, DeviceParts
<1>. QED  BY <1>1, <1>2, <1>3, <1>4 DEF Next, Handler

\* The unpacked archive: the process of an installation or update has it until its
\* files are in place, and removes it when it is undone; else there is a recovery file.
LeftArchive ==
  device.tmp # Missing =>
    \/ Waits /\ device.rec.kind # "none"
    \/ req = "Recovery" /\ phase = "process" /\ it >= 3 /\ it <= 5
    \/ /\ req # "Recovery" /\ phase = "process"
       /\ \/ it = 2 /\ part = "extract"
          \/ ctx.unpacked /\ it >= 3 /\ (req = "Install" => it <= 5) /\ (req = "Update" => it <= 8)
    \/ req # "Recovery" /\ phase = "undo" /\ ctx.unpacked /\ it >= 2

LEMMA Placing ==
  ASSUME TypeInv, Handler, phase = "process"
  PROVE  /\ req # "Recovery" /\ it = 3 => ParseManifest \/ WritesPackage
         /\ req = "Install" =>
              /\ it = 5 => Copy
              /\ it = 7 => CreateIcons \/ CreateIconsCopy
              /\ it = 8 => CreateManifest
              /\ it = 9 => RegisterApplication \/ RegisterApplicationCerts
              /\ it = 10 => RegisterSecurity
         /\ req = "Update" =>
              /\ it = 5 => ParseInstalled \/ WritesPackage
              /\ it = 6 => BackupManifest
              /\ it = 7 => BackupIcons \/ BackupIconsMove
              /\ it = 8 => CopyBackup \/ CopyBackupEntry \/ CopyBackupNewContent
              /\ it = 10 => CreateIcons \/ CreateIconsCopy
              /\ it = 11 => CreateManifest
              /\ it = 12 => UpdateApplication \/ UpdateApplicationCerts
              /\ it = 13 => UpdateSecurity
<1>. USE DEF At, In
<1>1. CASE CommonStep /\ ~WritesPackage
  <2>1. CASE Configure \/ ConfigureWrite \/ Unzip \/ UnzipCreateDir \/ UnzipExtract
    <3>1. it \in {1, 2}
      BY <2>1, CommonStands
    <3>. QED  BY <3>1
  <2>2. CASE ParseManifest \/ ParseInstalled
    BY <2>2, CommonStands
  <2>3. CASE CreateIcons \/ CreateIconsCopy
    BY <2>3, CommonStands
  <2>4. CASE CreateManifest
    BY <2>4, CommonStands
  <2>5. ~(ConfigureClean \/ UnzipUndo \/ CreateIconsUndo \/ CreateManifestUndo
          \/ NothingToUndo \/ NothingToClean)
    BY CommonStands
  <2>. QED  BY <1>1, <2>1, <2>2, <2>3, <2>4, <2>5 DEF CommonStep, WritesPackage
<1>2. CASE InstallStep
  BY <1>2, InstallStands DEF InstallStep
<1>3. CASE UpdateStep
  BY <1>3, UpdateStands DEF UpdateStep
<1>4. CASE RecoveryStep
  BY <1>4, RecoveryStands DEF RecoveryStep
<1>5. CASE WritesPackage
  <2>1. In("process", 3, "rec") \/ At("process", "Update", 5, "rec")
    BY <1>5, CommonStands DEF WritesPackage
  <2>. QED  BY <1>5, <2>1
<1>. QED  BY <1>1, <1>2, <1>3, <1>4, <1>5 DEF Handler

\* The recovery file after a crash.
LEMMA RecordAfterCrash ==
  ASSUME TypeInv, Mended', Crash
  PROVE  device'.rec = device.rec \/ device'.rec.kind = "torn"
BY Crashes
   DEF Touches, DeviceParts, TearsRecovery, TearsManifest, RemovesFiles, TearsRules,
       CopiesStorage, RemovesStorage, TornRecovery, NoRecovery

LEMMA LeftArchiveStep ==
  ASSUME TypeInv, FileOK, FileOK', NamesArchive, Mended', Next, LeftArchive
  PROVE  LeftArchive'
<1>. SUFFICES ASSUME device'.tmp # Missing
              PROVE  LeftArchive'
  BY DEF LeftArchive
<1>. /\ device \in Devices /\ ctx \in Contexts /\ it \in Nat /\ it >= 1 /\ it <= Last
     /\ Last = (IF req = "Update" THEN 13 ELSE 10) /\ NumSteps = Last
     /\ req \in {"Install", "Update", "Recovery"}
  BY Places
<1>1. CASE Handler
  <2>. Moves /\ req' = req /\ phase \in {"process", "undo", "clean"}
    BY <1>1, HandlersMove DEF SameRequest
  <2>. USE DEF GoOn, Done, Failed, Undone, Leave, FailsHere, Devices, Contexts
  <2>1. CASE UnzipCreateDir
    <3>1. In("process", 2, "mkdir")
      BY <2>1, CommonStands
    <3>2. device.tmp = Missing
      BY <3>1 DEF LeftArchive, In, Waits
    <3>3. part' = "extract" /\ phase' = phase /\ it' = it
      BY <2>1, <3>2 DEF UnzipCreateDir, runnerVars
    <3>. QED  BY <3>1, <3>3 DEF LeftArchive, In
  <2>2. CASE UnzipExtract
    <3>1. In("process", 2, "extract")
      BY <2>2, CommonStands
    <3>2. ctx'.unpacked /\ phase' = "process" /\ it' = 3
      BY <2>2, <3>1 DEF UnzipExtract, StepOk, In
    <3>. QED  BY <3>1, <3>2 DEF LeftArchive, In
  <2>3. CASE ~UnzipCreateDir /\ ~UnzipExtract
    <3>1. device'.tmp = device.tmp
      BY <1>1, <2>3, WritersOfFiles
         DEF UnzipUndo, Copy, CopyBackupNewContent, CopyBackupUndo, RemoveTemporaryDirectory
    <3>2. device.tmp # Missing
      BY <3>1
    <3>3. CASE Waits /\ device.rec.kind # "none"
      <4>1. CASE phase = "undo"
        BY <1>1, <3>3, <4>1, RecoveryRecord
           DEF LeftArchive, Waits, Moves, Proceeds, Breaks, Stays, Retreats, Tidies
      <4>2. CASE phase = "process" /\ it <= 2
        BY <1>1, <3>3, <4>2, RecoveryRecord
           DEF LeftArchive, Waits, Moves, Proceeds, Breaks, Stays, Retreats, Tidies
      <4>. QED  BY <3>3, <4>1, <4>2 DEF Waits
    <3>4. CASE req = "Recovery" /\ phase = "process" /\ it >= 3 /\ it <= 5
      <4>1. CASE it = 5
        <5>1. RemoveTemporaryDirectory /\ ctx.unpacked
          BY <1>1, <3>4, <4>1, Mending DEF NamesArchive
        <5>. QED  BY <5>1, <3>2, <3>1 DEF RemoveTemporaryDirectory
      <4>2. CASE it < 5
        <5>1. (phase' = "process" /\ it' >= 3 /\ it' <= 5) \/ phase' = "undo"
          BY <3>4, <4>2 DEF Moves, Proceeds, Breaks, Stays, Retreats, Tidies
        <5>. QED  BY <3>4, <5>1 DEF LeftArchive, Waits, FileOK
      <4>. QED  BY <3>4, <4>1, <4>2
    <3>5. CASE req # "Recovery" /\ phase = "process" /\ it = 2 /\ part = "extract"
      BY <1>1, <2>3, <3>5, Unpacking, CommonStands DEF In
    <3>6. req # "Recovery" /\ ctx.unpacked => ctx'.unpacked
      BY <1>1, <2>3, WritersOfMemory, RecoveryStands DEF At
    <3>7. CASE /\ req # "Recovery" /\ phase = "process" /\ ctx.unpacked /\ it >= 3
               /\ (req = "Install" => it <= 5) /\ (req = "Update" => it <= 8)
      <4>1. CASE req = "Install" /\ it = 5
        <5>1. Copy
          BY <1>1, <3>7, <4>1, Placing
        <5>2. phase' = "undo" /\ it' = it
          BY <3>1, <3>2, <5>1 DEF Copy, StepFails
        <5>. QED  BY <3>6, <3>7, <5>2 DEF LeftArchive
      <4>2. CASE req = "Update" /\ it = 8
        <5>1. CopyBackup \/ CopyBackupEntry \/ CopyBackupNewContent
          BY <1>1, <3>7, <4>2, Placing
        <5>2. phase' \in {"process", "undo"} /\ it' = it
          BY <3>1, <3>2, <3>7, <5>1
             DEF CopyBackup, CopyBackupEntry, CopyBackupNewContent, StepFails, runnerVars
        <5>. QED  BY <3>6, <3>7, <4>2, <5>2 DEF LeftArchive
      <4>3. CASE ~(req = "Install" /\ it = 5) /\ ~(req = "Update" /\ it = 8)
        BY <3>6, <3>7, <4>3 DEF LeftArchive, Moves, Proceeds, Breaks, Stays, Retreats, Tidies
      <4>. QED  BY <4>1, <4>2, <4>3
    <3>8. CASE req # "Recovery" /\ phase = "undo" /\ ctx.unpacked /\ it >= 2
      <4>1. CASE it = 2
        <5>1. UnzipUndo
          BY <1>1, <3>8, <4>1, Reverting
        <5>. QED  BY <3>1, <3>2, <3>8, <5>1 DEF UnzipUndo
      <4>2. CASE it > 2
        BY <3>6, <3>8, <4>2 DEF LeftArchive, Moves, Proceeds, Breaks, Stays, Retreats, Tidies
      <4>. QED  BY <3>8, <4>1, <4>2
    <3>. QED  BY <3>2, <3>3, <3>4, <3>5, <3>7, <3>8 DEF LeftArchive
  <2>. QED  BY <2>1, <2>2, <2>3
<1>2. CASE ~Handler
  <2>1. Begin \/ Exit \/ Abort \/ Crash \/ StoreUserFile
    BY <1>2 DEF Next, Handler
  <2>2. device.tmp # Missing
    BY <2>1, WorldKeeps
  <2>3. device.rec.kind # "none"
    <3>1. ~(req # "Recovery" /\ phase = "process" /\ it >= 2) \/ device.rec.kind # "none"
      BY DEF FileOK
    <3>2. ~(req = "Recovery" /\ phase = "process" /\ it >= 3) \/ device.rec.kind # "none"
      BY DEF FileOK
    <3>3. ~(req # "Recovery" /\ phase = "undo" /\ it >= 2) \/ device.rec.kind # "none"
      BY DEF FileOK
    <3>. QED  BY <2>2, <3>1, <3>2, <3>3 DEF LeftArchive
  <2>4. CASE Begin
    BY <2>3, <2>4, WorldMoves DEF LeftArchive, Waits, RecoveryWaits
  <2>5. CASE Exit \/ Abort \/ Crash
    <3>1. device'.rec.kind # "none"
      <4>1. CASE Exit
        <5>1. phase = "end" /\ Waits
          BY <2>2, <4>1, WorldMoves DEF LeftArchive
        <5>2. ctx.file.kind = "none"
          BY <5>1 DEF Waits, FileOK
        <5>. QED  BY <2>3, <4>1, <5>2, WorldMoves
      <4>2. CASE Abort
        BY <2>3, <4>2, WorldMoves
      <4>3. CASE Crash
        BY <2>3, <4>3, RecordAfterCrash
      <4>. QED  BY <2>5, <4>1, <4>2, <4>3
    <3>. QED  BY <2>5, <3>1, WorldMoves DEF LeftArchive, Waits
  <2>. QED  BY <2>1, <2>3, <2>4, <2>5, WorldMoves
<1>. QED  BY <1>1, <1>2

-------------------------------------------------------------------------------
(* The loops over the icons: an icon is handled, or the loop ends *)

IconSetAside(a) ==
  /\ a \in ctx.todo \cap Apps /\ device.iconBck[a] = None
  /\ device'.iconBck = [device.iconBck EXCEPT ![a] = device.icon[a]]
  /\ device'.icon = [device.icon EXCEPT ![a] = None]
  /\ ctx'.todo = ctx.todo \ {a}
IconMade(a) ==
  /\ a \in ctx.todo \cap Apps /\ device.icon[a] = None
  /\ device'.icon = [device.icon EXCEPT ![a] = ctx.man]
  /\ ctx'.todo = ctx.todo \ {a} /\ ctx'.made = ctx.made \cup {a}
IconRecovered(a) ==
  /\ a \in ctx.todo \cap Apps
  /\ device'.icon = [device.icon EXCEPT ![a] = IF New THEN None ELSE device.iconBck[a]]
  /\ device'.iconBck = IF New THEN device.iconBck ELSE [device.iconBck EXCEPT ![a] = None]
  /\ ctx'.todo = ctx.todo \ {a}

LEMMA IconsSetAside ==
  ASSUME TypeInv, BackupIconsMove
  PROVE  \/ device' = device /\ ctx' = ctx /\ (Breaks \/ (Proceeds /\ ctx.todo = {}))
         \/ Stays /\ part' = "move" /\ \E a \in Apps : IconSetAside(a)
<1>. /\ device \in Devices /\ ctx \in Contexts /\ NumSteps = Last /\ it \in Nat /\ it <= Last /\ Last \in Nat
  BY Places
<1>1. phase = "process" /\ ctx.todo \subseteq Apps
  BY Positions DEF BackupIconsMove, Process, TypeInv, RunnerOK, LoopsOK, Loops
<1>2. CASE Failed(device, ctx) \/ (ctx.todo = {} /\ Done(device, ctx))
  BY <1>1, <1>2 DEF Failed, Done, Leave, StepOk, StepFails, Breaks, Proceeds
<1>3. ASSUME NEW a \in ctx.todo, device.iconBck[a] = None,
             GoOn("move", [device EXCEPT !.iconBck[a] = device.icon[a], !.icon[a] = None],
                  [ctx EXCEPT !.todo = @ \ {a}])
      PROVE  Stays /\ part' = "move" /\ IconSetAside(a)
  <2>. DEFINE d == [device EXCEPT !.iconBck[a] = device.icon[a], !.icon[a] = None]
              c == [ctx EXCEPT !.todo = @ \ {a}]
  <2>1. d.iconBck = [device.iconBck EXCEPT ![a] = device.icon[a]]
    BY DEF Devices
  <2>2. d.icon = [device.icon EXCEPT ![a] = None]
    BY DEF Devices
  <2>3. c.todo = ctx.todo \ {a}
    BY DEF Contexts
  <2>4. device' = d /\ ctx' = c /\ Stays /\ part' = "move"
    BY <1>3 DEF GoOn, Leave, Stays, runnerVars
  <2>. HIDE DEF d, c
  <2>. QED  BY <1>1, <1>3, <2>1, <2>2, <2>3, <2>4 DEF IconSetAside
<1>. QED  BY <1>1, <1>2, <1>3, Zenon DEF BackupIconsMove, FailsHere

LEMMA IconsMade ==
  ASSUME TypeInv, CreateIconsCopy
  PROVE  \/ device' = device /\ ctx' = ctx /\ (Breaks \/ (Proceeds /\ ctx.todo = {}))
         \/ Stays /\ part' = "copy" /\ \E a \in Apps : IconMade(a)
<1>. /\ device \in Devices /\ ctx \in Contexts /\ NumSteps = Last /\ it \in Nat /\ it <= Last /\ Last \in Nat
  BY Places
<1>1. phase = "process" /\ ctx.todo \subseteq Apps
  BY Positions DEF CreateIconsCopy, Process, TypeInv, RunnerOK, LoopsOK, Loops
<1>2. CASE Failed(device, ctx) \/ (ctx.todo = {} /\ Done(device, ctx))
  BY <1>1, <1>2 DEF Failed, Done, Leave, StepOk, StepFails, Breaks, Proceeds
<1>3. ASSUME NEW a \in ctx.todo, device.icon[a] = None,
             GoOn("copy", [device EXCEPT !.icon[a] = ctx.man],
                  [ctx EXCEPT !.todo = @ \ {a}, !.made = @ \cup {a}])
      PROVE  Stays /\ part' = "copy" /\ IconMade(a)
  <2>. DEFINE d == [device EXCEPT !.icon[a] = ctx.man]
              c == [ctx EXCEPT !.todo = @ \ {a}, !.made = @ \cup {a}]
  <2>1. d.icon = [device.icon EXCEPT ![a] = ctx.man]
    BY DEF Devices
  <2>2. c.todo = ctx.todo \ {a} /\ c.made = ctx.made \cup {a}
    BY DEF Contexts
  <2>3. device' = d /\ ctx' = c /\ Stays /\ part' = "copy"
    BY <1>3 DEF GoOn, Leave, Stays, runnerVars
  <2>. HIDE DEF d, c
  <2>. QED  BY <1>1, <1>3, <2>1, <2>2, <2>3 DEF IconMade
<1>. QED  BY <1>1, <1>2, <1>3, Zenon DEF CreateIconsCopy, FailsHere

LEMMA RecoveryOfIcons ==
  ASSUME TypeInv, RecoverIconsMove
  PROVE  \/ Fault("fail", "RecoverIcons")
         \/ device' = device /\ ctx' = ctx /\ Proceeds /\ ctx.todo = {}
         \/ Stays /\ part' = "move" /\ \E a \in Apps : IconRecovered(a)
<1>. /\ device \in Devices /\ ctx \in Contexts /\ NumSteps = Last /\ it \in Nat /\ it <= Last /\ Last \in Nat
  BY Places
<1>1. phase = "process" /\ ctx.todo \subseteq Apps
  BY Positions DEF RecoverIconsMove, Process, TypeInv, RunnerOK, LoopsOK, Loops
<1>3. CASE ctx.todo = {} /\ Done(device, ctx)
  BY <1>1, <1>3 DEF Done, Leave, StepOk, Proceeds
<1>4. ASSUME NEW a \in ctx.todo, NEW d, GoOn("move", d, [ctx EXCEPT !.todo = @ \ {a}]),
             d = IF New THEN [device EXCEPT !.icon[a] = None]
                        ELSE [device EXCEPT !.icon[a] = device.iconBck[a], !.iconBck[a] = None]
      PROVE  Stays /\ part' = "move" /\ IconRecovered(a)
  <2>. DEFINE c == [ctx EXCEPT !.todo = @ \ {a}]
  <2>1. New => d.icon = [device.icon EXCEPT ![a] = None] /\ d.iconBck = device.iconBck
    BY <1>4 DEF Devices
  <2>2. ~New => d.icon = [device.icon EXCEPT ![a] = device.iconBck[a]]
    BY <1>4 DEF Devices
  <2>3. ~New => d.iconBck = [device.iconBck EXCEPT ![a] = None]
    BY <1>4 DEF Devices
  <2>4. c.todo = ctx.todo \ {a}
    BY DEF Contexts
  <2>5. device' = d /\ ctx' = c /\ Stays /\ part' = "move"
    BY <1>4 DEF GoOn, Leave, Stays, runnerVars
  <2>. HIDE DEF c
  <2>. QED  BY <1>1, <2>1, <2>2, <2>3, <2>4, <2>5 DEF IconRecovered
<1>5. \/ Fault("fail", "RecoverIcons") \/ (ctx.todo = {} /\ Done(device, ctx))
      \/ \E a \in ctx.todo : \E d :
           /\ GoOn("move", d, [ctx EXCEPT !.todo = @ \ {a}])
           /\ d = IF New THEN [device EXCEPT !.icon[a] = None]
                         ELSE [device EXCEPT !.icon[a] = device.iconBck[a], !.iconBck[a] = None]
  BY Zenon DEF RecoverIconsMove, FailsHere
<1>. QED  BY <1>1, <1>3, <1>4, <1>5

-------------------------------------------------------------------------------
(* Nothing is left behind: the backups of the icons *)

\* An icon that is set aside is one of those the update has gathered; as long as the
\* update runs only its new icon takes the place, and a recovery has it yet to move.
SetAsideIcon(a) ==
  /\ Pending(7, 6)
  /\ req = "Update" /\ phase \in {"process", "undo", "clean"} => a \in ctx.gathered
  /\ Running("Update") /\ device.icon[a] # None => it >= 10 /\ a \in ctx.made
  /\ req = "Update" /\ phase = "process" /\ it = 7 => part = "move"
  /\ req = "Recovery" /\ phase = "process" /\ it = 6 /\ part = "move" => a \in ctx.todo
LeftIcons == \A a \in Apps : device.iconBck[a] # None => SetAsideIcon(a)

\* The loop sets aside what was gathered, and a recovery that comes to the icons has
\* read a manifest.
IconLoops ==
  /\ req = "Update" /\ phase = "process" /\ it = 7 /\ part = "move" => ctx.todo \subseteq ctx.gathered
  /\ Recovering("Update", 5) \/ (Recovering("Update", 4) /\ part = "certs") => ctx.man # None

LEMMA IconLoopsStep ==
  ASSUME TypeInv, FileOK, IconLoops, Mended', Next
  PROVE  IconLoops'
<1>. /\ device \in Devices /\ ctx \in Contexts /\ it \in Nat /\ it >= 1 /\ NumSteps = Last
  BY Places
<1>1. CASE Handler
  <2>. Moves /\ req' = req /\ phase \in {"process", "undo", "clean"}
    BY <1>1, HandlersMove DEF SameRequest
  <2>. USE DEF Moves, Proceeds, Breaks, Stays, Retreats, Tidies
  <2>1. ASSUME req = "Update", phase' = "process", it' = 7, part' = "move"
        PROVE  ctx'.todo \subseteq ctx'.gathered
    <3>1. phase = "process" /\ it = 7
      BY <2>1
    <3>2. BackupIcons \/ BackupIconsMove
      BY <1>1, <2>1, <3>1, Placing
    <3>3. CASE BackupIcons
      <4>. DEFINE found == {a \in Apps : device.icon[a] # None}
                  c == [ctx EXCEPT !.gathered = found, !.todo = found]
      <4>1. ctx' = c
        BY <3>3 DEF BackupIcons, GoOn, Leave
      <4>2. c.gathered = found /\ c.todo = found
        BY DEF Contexts
      <4>. HIDE DEF c, found
      <4>. QED  BY <4>1, <4>2
    <3>4. CASE BackupIconsMove
      <4>1. ctx'.gathered = ctx.gathered /\ part = "move"
        BY <3>4, UpdateTouches, UpdateStands DEF Learns, MemoryParts, At
      <4>2. ctx'.todo = ctx.todo \/ \E a \in Apps : ctx'.todo = ctx.todo \ {a}
        BY <3>4, IconsSetAside DEF IconSetAside
      <4>. QED  BY <2>1, <3>1, <4>1, <4>2 DEF IconLoops
    <3>. QED  BY <3>2, <3>3, <3>4
  <2>2. ASSUME (Recovering("Update", 5) \/ (Recovering("Update", 4) /\ part = "certs"))'
        PROVE  ctx'.man # None
    <3>1. req = "Recovery" /\ phase = "process" /\ it >= 3 /\ ctx'.file.kind = "Update"
      BY <2>2 DEF Recovering
    <3>2. phase' = "process" /\ (it' >= 5 \/ (it' = 4 /\ part' = "certs"))
      BY <2>2 DEF Recovering
    <3>3. ctx.file.kind = "Update"
      <4>1. ctx'.file = ctx.file
        BY <1>1, <3>1, WritersOfRecord, CommonStands, RecoveryStands DEF In, At, WritesPackage
      <4>. QED  BY <3>1, <4>1
    <3>4. CASE it = 3 \/ (it = 4 /\ part # "certs")
      <4>1. it = 4
        BY <3>1, <3>2, <3>4
      <4>2. RecoverApplication \/ RecoverApplicationRegister
        BY <1>1, <3>1, <3>4, <4>1, Mending, RecoveryStands DEF At
      <4>3. ~RecoverApplication
        BY <2>2, <3>3, <4>1 DEF RecoverApplication, New, GoOn, runnerVars, Recovering
      <4>4. ctx' = ctx /\ ctx.man # None
        BY <2>2, <4>1, <4>2, <4>3
           DEF RecoverApplicationRegister, GoOn, Failed, FailsHere, Leave, StepFails, Recovering
      <4>. QED  BY <4>4
    <3>5. CASE it >= 5 \/ (it = 4 /\ part = "certs")
      <4>1. ctx.man # None
        BY <3>1, <3>3, <3>5 DEF IconLoops, Recovering
      <4>2. ctx'.man = ctx.man
        BY <1>1, <3>1, <3>5, WritersOfMemory, CommonStands, RecoveryStands
           DEF At, In, WritesPackage, RewritesPackage
      <4>. QED  BY <4>1, <4>2
    <3>. QED  BY <3>1, <3>4, <3>5
  <2>. QED  BY <2>1, <2>2 DEF IconLoops
<1>2. CASE Begin
  BY <1>2, WorldMoves DEF IconLoops, Recovering
<1>3. CASE Exit \/ Abort \/ Crash
  BY <1>3, WorldMoves DEF IconLoops, Recovering
<1>4. CASE StoreUserFile
  BY <1>4, WorldMoves DEF IconLoops, Recovering
<1>. QED  BY <1>1, <1>2, <1>3, <1>4 DEF Next, Handler

\* Who changes an icon, and how.
LEMMA IconChanges ==
  ASSUME TypeInv, Mended', Handler, NEW a \in Apps
  PROVE  \/ device'.icon[a] = device.icon[a] /\ device'.iconBck[a] = device.iconBck[a]
         \/ /\ At("process", "Update", 7, "move") /\ Stays /\ part' = "move"
            /\ device.iconBck[a] = None /\ device'.iconBck[a] = device.icon[a]
            /\ device'.icon[a] = None /\ a \in ctx.todo /\ ctx'.todo = ctx.todo \ {a}
         \/ /\ At("process", "Install", 7, "copy") \/ At("process", "Update", 10, "copy")
            /\ Stays /\ part' = "copy"
            /\ device.icon[a] = None /\ device'.icon[a] = ctx.man
            /\ device'.iconBck[a] = device.iconBck[a]
            /\ a \in ctx.todo /\ ctx'.todo = ctx.todo \ {a} /\ a \in ctx'.made
         \/ /\ At("undo", "Install", 7, "start") \/ At("undo", "Update", 10, "start")
            /\ device'.iconBck[a] = device.iconBck[a]
            /\ device'.icon[a] = None /\ a \in ctx.made
         \/ /\ At("undo", "Update", 7, "start") /\ a \in ctx.gathered
            /\ device.icon[a] = None /\ device'.icon[a] = device.iconBck[a]
            /\ device'.iconBck[a] = None
         \/ /\ phase = "clean" /\ req = "Update" /\ it = 7
            /\ device'.icon[a] = device.icon[a] /\ device'.iconBck[a] = None /\ a \in ctx.gathered
         \/ /\ At("process", "Recovery", 6, "move") /\ Stays /\ part' = "move" /\ a \in ctx.todo
            /\ ctx'.todo = ctx.todo \ {a}
            /\ IF New THEN device'.icon[a] = None /\ device'.iconBck[a] = device.iconBck[a]
                      ELSE device'.icon[a] = device.iconBck[a] /\ device'.iconBck[a] = None
<1>. /\ device \in Devices
  BY Places
<1>. USE DEF Devices
<1>1. CASE BackupIconsMove
  <2>1. At("process", "Update", 7, "move")
    BY <1>1, UpdateStands
  <2>. QED  BY <1>1, <2>1, IconsSetAside DEF IconSetAside
<1>2. CASE CreateIconsCopy
  <2>1. At("process", "Install", 7, "copy") \/ At("process", "Update", 10, "copy")
    BY <1>2, CommonStands
  <2>2. device'.iconBck = device.iconBck
    BY <1>2, CommonTouches DEF Touches, DeviceParts
  <2>. QED  BY <1>2, <2>1, <2>2, IconsMade DEF IconMade
<1>3. CASE CreateIconsUndo
  <2>1. At("undo", "Install", 7, "start") \/ At("undo", "Update", 10, "start")
    BY <1>3, CommonStands
  <2>2. device'.iconBck = device.iconBck
    BY <1>3, CommonTouches DEF Touches, DeviceParts
  <2>3. device'.icon[a] = IF a \in ctx.made THEN None ELSE device.icon[a]
    BY <1>3 DEF CreateIconsUndo, Undone, Leave
  <2>. QED  BY <2>1, <2>2, <2>3
<1>4. CASE BackupIconsUndo
  <2>1. At("undo", "Update", 7, "start")
    BY <1>4, UpdateStands
  <2>. DEFINE moved == {b \in ctx.gathered : device.iconBck[b] # None /\ device.icon[b] = None}
  <2>3. ~Fault("undo", "BackupIcons")
    BY MendedBefore DEF Mendable
  <2>2. /\ device'.icon[a] = IF a \in moved THEN device.iconBck[a] ELSE device.icon[a]
        /\ device'.iconBck[a] = IF a \in moved THEN None ELSE device.iconBck[a]
    BY <1>4, <2>3 DEF BackupIconsUndo, Undone, Leave
  <2>. QED  BY <2>1, <2>2
<1>5. CASE BackupIconsClean
  <2>1. phase = "clean" /\ req = "Update" /\ it = 7
    BY <1>5, UpdateStands
  <2>2. ~Fault("clean", "BackupIcons")
    BY MendedBefore DEF Mendable
  <2>3. device'.icon = device.icon
    BY <1>5, UpdateTouches DEF Touches, DeviceParts
  <2>4. device'.iconBck[a] = IF a \in ctx.gathered THEN None ELSE device.iconBck[a]
    BY <1>5, <2>2 DEF BackupIconsClean, Cleaned, Leave
  <2>. QED  BY <2>1, <2>3, <2>4
<1>6. CASE RecoverIconsMove
  <2>1. At("process", "Recovery", 6, "move")
    BY <1>6, RecoveryStands
  <2>2. ~Fault("fail", "RecoverIcons")
    BY MendedBefore DEF Mendable
  <2>. QED  BY <1>6, <2>1, <2>2, RecoveryOfIcons DEF IconRecovered
<1>. QED  BY <1>1, <1>2, <1>3, <1>4, <1>5, <1>6, WritersOfMarks

LEMMA SetAsideIconStep ==
  ASSUME TypeInv, FileOK, FileOK', IconLoops, Mended', Next, NEW a \in Apps,
         device.iconBck[a] # None => SetAsideIcon(a), device'.iconBck[a] # None
  PROVE  SetAsideIcon(a)'
<1>. /\ device \in Devices /\ ctx \in Contexts /\ it \in Nat /\ it >= 1 /\ it <= Last
     /\ Last = (IF req = "Update" THEN 13 ELSE 10) /\ NumSteps = Last
  BY Places
<1>1. CASE Handler /\ device.iconBck[a] = None
  <2>1. /\ At("process", "Update", 7, "move") /\ Stays /\ part' = "move"
        /\ device'.icon[a] = None /\ a \in ctx.todo /\ req' = req /\ ctx'.gathered = ctx.gathered
    <3>1. ~BackupIcons
      BY UpdateStands, <1>1, IconChanges DEF At
    <3>. QED  BY <1>1, <3>1, IconChanges, HandlersMove, WritersOfMemory DEF SameRequest
  <2>2. a \in ctx.gathered
    BY <2>1 DEF At, IconLoops
  <2>. QED  BY <2>1, <2>2 DEF At, Stays, SetAsideIcon, Pending, Underway, Running
<1>2. CASE device.iconBck[a] # None
  <2>1. SetAsideIcon(a)
    BY <1>2
  <2>2. Pending(7, 6)'
    <3>1. ASSUME req = "Update" /\ phase = "undo" /\ it = 7 /\ Retreats
          PROVE  FALSE
      <4>1. BackupIconsUndo
        BY <3>1, OnlyHandlers, Reverting
      <4>. DEFINE moved == {b \in ctx.gathered : device.iconBck[b] # None /\ device.icon[b] = None}
      <4>2. a \in moved
        BY <1>2, <2>1, <3>1 DEF SetAsideIcon, Running
      <4>3. ~Fault("undo", "BackupIcons")
        BY MendedBefore DEF Mendable
      <4>4. device'.iconBck[a] = IF a \in moved THEN None ELSE device.iconBck[a]
        BY <4>1, <4>3 DEF BackupIconsUndo, Undone, Leave, Devices
      <4>. QED  BY <4>2, <4>4
    <3>2. ASSUME req = "Recovery" /\ phase = "process" /\ it = 6 /\ Proceeds /\ ctx.file.kind = "Update"
          PROVE  FALSE
      <4>1. RecoverIcons \/ RecoverIconsMove
        BY <3>2, OnlyHandlers, Mending
      <4>2. ctx.man # None
        BY <3>2 DEF IconLoops, Recovering
      <4>3. ~RecoverIcons
        BY <3>2, <4>2 DEF RecoverIcons, GoOn, runnerVars, Proceeds
      <4>4. a \in ctx.todo
        BY <2>1, <3>2, <4>1, <4>3, RecoveryStands DEF SetAsideIcon, At
      <4>5. ~Fault("fail", "RecoverIcons")
        BY MendedBefore DEF Mendable
      <4>. QED  BY <3>2, <4>1, <4>3, <4>4, <4>5, RecoveryOfIcons DEF Breaks, Stays, Proceeds
    <3>3. ASSUME req = "Update" /\ phase = "clean" /\ it = 7
          PROVE  FALSE
      <4>1. BackupIconsClean /\ a \in ctx.gathered
        BY <2>1, <3>3, OnlyHandlers, Mending DEF SetAsideIcon
      <4>2. ~Fault("clean", "BackupIcons")
        BY MendedBefore DEF Mendable
      <4>. QED  BY <4>1, <4>2 DEF BackupIconsClean, Cleaned, Leave, Devices
    <3>. QED  BY <2>1, <3>1, <3>2, <3>3, PendingStays DEF SetAsideIcon
  <2>3. CASE ~Handler
    <3>1. device'.icon = device.icon /\ device'.iconBck = device.iconBck
      BY <2>3, WorldKeeps DEF Next, Handler
    <3>2. ~(req' = "Update" /\ phase' \in {"process", "undo", "clean"})
      <4>1. ~Begin \/ req' # "Update"
        BY <2>1, WorldMoves DEF SetAsideIcon, Pending, Underway, Waits, RecoveryWaits
      <4>. QED  BY <2>3, <4>1, WorldMoves DEF Next, Handler
    <3>3. ~(phase' = "process" /\ it' = 6)
      <4>1. ASSUME Begin
            PROVE  it' = 1
        BY <4>1, WorldMoves
      <4>2. ASSUME StoreUserFile
            PROVE  phase' = "idle"
        BY <4>2, WorldMoves
      <4>3. CASE Exit \/ Abort \/ Crash
        BY <4>3, WorldMoves
      <4>. QED  BY <2>3, <4>1, <4>3, <4>2 DEF Next, Handler
    <3>. QED  BY <2>2, <3>2, <3>3 DEF SetAsideIcon, Running
  <2>4. CASE Handler
    <3>. Moves /\ req' = req /\ phase \in {"process", "undo", "clean"}
      BY <2>4, HandlersMove DEF SameRequest
    <3>. USE DEF At, Moves, Proceeds, Breaks, Stays, Retreats, Tidies
    <3>1. req = "Update" => a \in ctx.gathered /\ a \in ctx'.gathered
      <4>1. ~BackupIcons
        BY <2>1, UpdateStands DEF SetAsideIcon
      <4>2. ctx'.gathered = ctx.gathered
        BY <2>4, <4>1, WritersOfMemory
      <4>. QED  BY <2>1, <4>2 DEF SetAsideIcon
    <3>2. Running("Update")' /\ device'.icon[a] # None => it' >= 10 /\ a \in ctx'.made
      <4>. SUFFICES ASSUME Running("Update")', device'.icon[a] # None
                    PROVE  it' >= 10 /\ a \in ctx'.made
        OBVIOUS
      <4>1. Running("Update")
        BY DEF Running
      <4>2. CASE device'.icon[a] = device.icon[a]
        <5>1. it >= 10 /\ a \in ctx.made
          BY <2>1, <4>1, <4>2 DEF SetAsideIcon
        <5>2. ctx.made \subseteq ctx'.made
          BY <2>4, WritersOfMemory, IconsMade DEF IconMade
        <5>3. ~(phase = "undo" /\ it = 10)
          <6>1. ASSUME CreateIconsUndo
                PROVE  device'.icon[a] = None
            BY <5>1, <6>1 DEF CreateIconsUndo, Undone, Leave, Devices
          <6>. QED  BY <2>4, <4>1, <6>1, Reverting DEF Running
        <5>. QED  BY <4>1, <5>1, <5>2, <5>3 DEF Running
      <4>3. CASE device'.icon[a] # device.icon[a]
        BY <2>4, <4>1, <4>3, IconChanges DEF Running
      <4>. QED  BY <4>2, <4>3
    <3>3. req' = "Update" /\ phase' = "process" /\ it' = 7 => part' = "move"
      <4>. SUFFICES ASSUME req' = "Update", phase' = "process", it' = 7
                    PROVE  part' = "move"
        OBVIOUS
      <4>1. phase = "process" /\ it = 7
        BY <2>1 DEF SetAsideIcon, Pending, Underway, Waits
      <4>2. BackupIconsMove
        BY <2>1, <2>4, <4>1, Placing, UpdateStands DEF SetAsideIcon
      <4>. QED  BY <4>1, <4>2, IconsSetAside
    <3>4. req' = "Recovery" /\ phase' = "process" /\ it' = 6 /\ part' = "move" => a \in ctx'.todo
      <4>. SUFFICES ASSUME req' = "Recovery", phase' = "process", it' = 6, part' = "move"
                    PROVE  a \in ctx'.todo
        OBVIOUS
      <4>1. phase = "process" /\ it = 6
        BY RecoveryStands
      <4>2. ctx.file.kind = "Update"
        BY <2>1, <4>1 DEF SetAsideIcon, Pending, Underway, Waits
      <4>3. CASE RecoverIcons
        <5>. DEFINE found == {b \in Apps : device.icon[b] # None \/ device.iconBck[b] # None}
                    c == [ctx EXCEPT !.todo = found]
        <5>1. a \in found /\ c.todo = found
          BY <1>2 DEF Contexts
        <5>2. ctx' = c
          BY <4>1, <4>3 DEF RecoverIcons, GoOn, Done, Leave
        <5>. HIDE DEF found, c
        <5>. QED  BY <5>1, <5>2
      <4>4. CASE RecoverIconsMove
        <5>1. a \in ctx.todo
          BY <2>1, <4>1, <4>4, RecoveryStands DEF SetAsideIcon
        <5>3. ~Fault("fail", "RecoverIcons")
          BY MendedBefore DEF Mendable
        <5>2. ctx'.todo = ctx.todo \ {a} \/ a \in ctx'.todo
          BY <4>1, <4>4, <5>1, <5>3, RecoveryOfIcons DEF IconRecovered
        <5>. QED  BY <4>1, <4>2, <4>4, <5>1, <5>2, <5>3, RecoveryOfIcons DEF IconRecovered, New, Devices
      <4>. QED  BY <2>4, <4>1, <4>3, <4>4, Mending
    <3>. QED  BY <2>2, <3>1, <3>2, <3>3, <3>4 DEF SetAsideIcon
  <2>. QED  BY <2>3, <2>4
<1>3. CASE ~Handler /\ device.iconBck[a] = None
  BY <1>3, WorldKeeps DEF Next, Handler
<1>. QED  BY <1>1, <1>2, <1>3

\* All that an interrupted or failing request leaves behind.
LeftBody ==
  /\ FileOK /\ LeftBackup /\ LeftManifest
  /\ NamesArchive /\ LeftArchive
  /\ IconLoops /\ LeftIcons
LeftInv == Mended => LeftBody

LEMMA LeftStep ==
  ASSUME TypeInv, LeftBody, Mended', Next
  PROVE  LeftBody'
<1>1. FileOK'
  BY FileStep DEF LeftBody
<1>2. LeftBackup' /\ LeftManifest'
  BY <1>1, LeftBackupStep, LeftManifestStep DEF LeftBody
<1>3. NamesArchive' /\ LeftArchive'
  BY <1>1, NamesArchiveStep, LeftArchiveStep DEF LeftBody
<1>4. IconLoops'
  BY IconLoopsStep DEF LeftBody
<1>5. LeftIcons'
  BY <1>1, SetAsideIconStep DEF LeftBody, LeftIcons
<1>. QED  BY <1>1, <1>2, <1>3, <1>4, <1>5 DEF LeftBody

LEMMA MendedOnce ==
  ASSUME TypeInv, [Next]_vars, Mended'
  PROVE  Mended
<1>1. CASE Next
  BY <1>1, StepsAndFaults, MendedBefore
<1>2. CASE UNCHANGED vars
  BY <1>2 DEF vars, Mended, CleanCutShort, NotReverted, Only, Happened
<1>. QED  BY <1>1, <1>2

THEOREM LeftInvariant == Spec => []LeftInv
<1>1. Init => LeftInv
  <2>1. ASSUME Init
        PROVE  LeftBody
    <3>1. /\ phase = "idle" /\ device = CleanDevice /\ ctx = FreshContext
      BY <2>1 DEF Init, RunnerInit
    <3>2. /\ device.rec = NoRecovery /\ device.bck = Missing /\ device.tmp = Missing
          /\ device.xmlBck = None /\ \A a \in Apps : device.iconBck[a] = None
      BY <3>1 DEF CleanDevice
    <3>3. ctx.file = NoRecovery /\ ~ctx.pkgid
      BY <3>1 DEF FreshContext
    <3>. QED  BY <3>1, <3>2, <3>3, EmptyTrees
              DEF NoRecovery, LeftBody, FileOK, LeftBackup, LeftManifest, NamesArchive, LeftArchive,
                  IconLoops, LeftIcons, Recovering
  <2>. QED  BY <2>1 DEF LeftInv
<1>2. TypeInv /\ LeftInv /\ [Next]_vars => LeftInv'
  <2>. SUFFICES ASSUME TypeInv, LeftInv, [Next]_vars, Mended'
                PROVE  LeftBody'
    BY DEF LeftInv
  <2>1. LeftBody
    BY MendedOnce DEF LeftInv
  <2>2. CASE UNCHANGED vars
    BY <2>1, <2>2
       DEF vars, runnerVars, envVars, LeftBody, FileOK, LeftBackup, LeftManifest, NamesArchive,
           LeftArchive, IconLoops, LeftIcons, SetAsideIcon, Recovering, Running, Pending, Underway,
           Waits
  <2>. QED  BY <2>1, <2>2, LeftStep
<1>. QED  BY <1>1, <1>2, TransactionTypeInvariant, PTL DEF Spec

\* When nothing is under way and nothing waits for a recovery, there is no unpacked
\* archive, no backup of files, manifest or icons, provided that no clean-up was cut
\* short and no rollback or recovery failed itself.
THEOREM NothingLeftBehindHolds == Spec => []NothingLeftBehind
<1>1. LeftInv => NothingLeftBehind
  <2>. SUFFICES ASSUME LeftInv, Settled, Idle, Mended
                PROVE  device.tmp = Missing /\ ~SetAside
    BY DEF NothingLeftBehind, Mended
  <2>1. LeftBody /\ phase = "idle" /\ device.rec.kind = "none"
    BY DEF LeftInv, Settled, Idle, RecoveryWaits
  <2>2. device.tmp = Missing
    BY <2>1 DEF LeftBody, LeftArchive
  <2>3. ~Pending(8, 9) /\ ~Pending(6, 7) /\ ~Pending(7, 6)
    BY <2>1 DEF Pending, Underway, Waits
  <2>. QED  BY <2>1, <2>2, <2>3
            DEF LeftBody, LeftBackup, LeftManifest, LeftIcons, SetAsideIcon, SetAside
<1>. QED  BY <1>1, LeftInvariant, PTL

-------------------------------------------------------------------------------
(* The files of the committed version are in place *)

LEMMA ExcusedNever ==
  ~Excused <=> Mended /\ Kept
BY DEF Excused, Mended, Kept, NotReverted, ManifestLeft, Happened

LEMMA KeptOnce ==
  ASSUME TypeInv, [Next]_vars, Kept'
  PROVE  Kept
<1>1. CASE Next
  BY <1>1, StepsAndFaults, KeptBefore
<1>2. CASE UNCHANGED vars
  BY <1>2 DEF vars, Kept, CleanCutShort, BackupCutShort, ManifestLeft, Only, Happened
<1>. QED  BY <1>1, <1>2

\* What the invariants of the two families say of both ends of a step.
Sound == TypeInv /\ KeptInv /\ LeftInv

LEMMA SoundSteps ==
  ASSUME Sound, Sound', [Next]_vars, ~Excused'
  PROVE  /\ ~Excused /\ Mended' /\ TypeInv
         /\ KeptBody /\ LeftBody /\ KeptBody' /\ LeftBody'
<1>1. Mended' /\ Kept'
  BY DEF Excused, Mended, Kept, NotReverted, ManifestLeft, Happened
<1>2. Mended /\ Kept
  BY <1>1, MendedOnce, KeptOnce DEF Sound
<1>. QED  BY <1>1, <1>2, ExcusedNever DEF Sound, KeptInv, LeftInv

THEOREM SoundInvariant == Spec => []Sound
<1>1. TypeInv /\ KeptInv /\ LeftInv => Sound
  BY DEF Sound
<1>. QED  BY <1>1, TransactionTypeInvariant, KeptInvariant, LeftInvariant, PTL

\* Once a request or a recovery is over, nothing of it is under way.
LEMMA SettledFree ==
  ASSUME TypeInv, FileOK, Settled
  PROVE  /\ phase = "clean" => it # 1
         /\ \A kind \in {"Install", "Update"} : \A k, r : ~Underway(kind, k, r)
         /\ \A k, r : Pending(k, r) => req = "Update" /\ phase = "clean" /\ it <= k
<1>1. device.rec.kind = "none" /\ phase \in {"idle", "clean"}
  BY DEF Settled, RecoveryWaits
<1>2. phase = "clean" => it # 1
  BY <1>1, Places DEF FileOK
<1>3. \A kind \in {"Install", "Update"} : \A k, r : ~Underway(kind, k, r)
  BY <1>1, <1>2 DEF Underway, Waits
<1>. QED  BY <1>2, <1>3 DEF Pending

\* The first version of a package is nowhere but in its directory, from the step that
\* copies it there until the installation is undone, recovered or committed.
NewFiles == stable = None /\ Exists(device.pkg) => Underway("Install", 5, 9)

LEMMA OnlyCommits ==
  ASSUME TypeInv, Mended', Next, stable' = None
  PROVE  stable = None /\ ~(req = "Install" /\ ConfigureClean)
<1>1. CASE ConfigureClean
  BY <1>1, Places DEF ConfigureClean
<1>2. CASE ~ConfigureClean /\ Handler
  BY <1>2, HandlersMove
<1>. QED  BY <1>1, <1>2, WorldMoves DEF Next, Handler

LEMMA PackageAppears ==
  ASSUME TypeInv, KeptBody, Mended', Next, stable = None, Exists(device'.pkg), ~Exists(device.pkg)
  PROVE  Copy
<1>. device \in Devices
  BY Places
<1>1. ~Exists(device.bck) /\ ~(req = "Update" /\ phase \in {"process", "undo"} /\ it > 5)
  BY Places DEF KeptBody, NothingOK
<1>. /\ ~Fault("undo", "Copy") /\ ~Fault("fail", "RecoverFiles") /\ ~Fault("undo", "CopyBackup")
  BY MendedBefore DEF Mendable
<1>2. \A t : \A key \in StorageKeys : \A files : t \in Trees => Put(t, key, files)["."] = t["."]
  BY DEF Put, Trees, StorageKeys, Nodes
<1>3. Missing["."] = {}
  BY DEF Missing, Nodes
<1>4. CASE Handler
  <2>. USE DEF Undone, Done, Leave, GoOn, FailsHere, Failed, Devices
  <2>1. CASE CopyUndo
    BY <1>3, <2>1 DEF CopyUndo, Exists
  <2>2. CASE CreateStorageDirectories
    <3>1. \/ device'.pkg = device.pkg \/ device'.pkg = Drop(device.pkg, "data")
          \/ \E f, g : device'.pkg = Put(Put(device.pkg, "data", f), "shared", g)
      BY <2>2 DEF CreateStorageDirectories
    <3>2. \A f, g : Put(Put(device.pkg, "data", f), "shared", g)["."] = device.pkg["."]
      BY DEF Put, Trees, Nodes
    <3>. QED  BY <1>2, <3>1, <3>2 DEF Drop, Exists, StorageKeys
  <2>3. CASE CopyBackupEntry \/ CopyBackupNewContent \/ CopyBackupUndo \/ CopyBackupRestore \/ CopiesOrRestores
    BY <1>1, <2>3, UpdateStands DEF At, CopiesOrRestores
  <2>4. CASE RecoverStorageDirectories \/ RecoverStorageShared
    BY <1>1, <2>4 DEF RecoverStorageDirectories, RecoverStorageShared, StorageRecovered
  <2>5. CASE RecoverFiles
    BY <1>1, <1>3, <2>5 DEF RecoverFiles, Exists
  <2>6. CASE RecoverFilesMove
    BY <1>1, <2>6 DEF RecoverFilesMove
  <2>. QED  BY <1>4, <2>1, <2>2, <2>3, <2>4, <2>5, <2>6, WritersOfFiles
<1>5. CASE Begin \/ Exit \/ Abort \/ Crash \/ StoreUserFile
  <2>1. CASE StoreUserFile
    BY <1>2, <2>1, WorldMoves DEF Exists, StorageKeys, Devices
  <2>2. CASE RemovesFiles
    BY <2>2 DEF RemovesFiles, RemoveCut, Exists, Nodes
  <2>3. ASSUME NEW key \in StorageKeys, CopiesStorage(key)
        PROVE  FALSE
    BY <1>1, <2>3 DEF CopiesStorage, At
  <2>. QED  BY <1>5, <2>1, <2>2, <2>3, WorldKeeps
<1>. QED  BY <1>4, <1>5 DEF Next, Handler

LEMMA NewFilesStep ==
  ASSUME TypeInv, KeptBody, FileOK', Mended', Next, NewFiles
  PROVE  NewFiles'
<1>. SUFFICES ASSUME stable' = None, Exists(device'.pkg), ~Underway("Install", 5, 9)'
              PROVE  FALSE
  BY DEF NewFiles
<1>. device \in Devices /\ it \in Nat /\ it <= Last /\ Last = IF req = "Update" THEN 13 ELSE 10
  BY Places
<1>1. stable = None /\ ~(req = "Install" /\ ConfigureClean) /\ ~Exists(device.bck)
  BY OnlyCommits DEF KeptBody, NothingOK
<1>2. ~Copy
  <2>. SUFFICES ASSUME Copy
                PROVE  FALSE
    OBVIOUS
  <2>1. At("process", "Install", 5, "start") /\ Moves /\ req' = req
    BY InstallStands, HandlersMove DEF Handler, InstallStep, SameRequest
  <2>. QED  BY <2>1 DEF At, Underway, Moves, Proceeds, Breaks, Stays, Retreats, Tidies
<1>3. Exists(device.pkg) /\ Underway("Install", 5, 9)
  BY <1>1, <1>2, PackageAppears DEF NewFiles
<1>4. \/ req = "Install" /\ phase = "undo" /\ it = 5 /\ Retreats
      \/ req = "Recovery" /\ phase = "process" /\ it = 9 /\ Proceeds /\ ctx.file.kind = "Install"
  BY <1>1, <1>3, UnderwayStays DEF KeptBody
<1>5. Handler
  BY <1>4, OnlyHandlers
<1>. ~Fault("undo", "Copy") /\ ~Fault("fail", "RecoverFiles")
  BY MendedBefore DEF Mendable
<1>6. device'.pkg = Missing
  <2>. USE DEF Undone, Done, Leave, Devices
  <2>1. CASE req = "Install" /\ phase = "undo" /\ it = 5 /\ Retreats
    <3>1. CopyUndo
      BY <1>5, <2>1, Reverting
    <3>. QED  BY <3>1 DEF CopyUndo
  <2>2. CASE req = "Recovery" /\ phase = "process" /\ it = 9 /\ Proceeds /\ ctx.file.kind = "Install"
    <3>1. RecoverFiles
      <4>1. ~RecoverFilesMove
        BY <1>1, RecoveryStands DEF KeptBody, BackupOK, At
      <4>. QED  BY <1>5, <2>2, <4>1, Mending
    <3>. QED  BY <2>2, <3>1 DEF RecoverFiles, New
  <2>. QED  BY <1>4, <2>1, <2>2
<1>. QED  BY <1>6, EmptyTrees

NewFilesInv == ~Excused => NewFiles

THEOREM NewFilesInvariant == Spec => []NewFilesInv
<1>1. Init => NewFilesInv
  BY EmptyTrees DEF Init, CleanDevice, NewFilesInv, NewFiles
<1>2. Sound /\ Sound' /\ NewFilesInv /\ [Next]_vars => NewFilesInv'
  <2>. SUFFICES ASSUME Sound, Sound', NewFilesInv, [Next]_vars, ~Excused'
                PROVE  NewFiles'
    BY DEF NewFilesInv
  <2>1. /\ NewFiles /\ TypeInv /\ KeptBody /\ KeptBody' /\ Mended'
    BY SoundSteps DEF NewFilesInv
  <2>2. CASE UNCHANGED vars
    BY <2>1, <2>2 DEF vars, runnerVars, envVars, NewFiles, Underway, Waits
  <2>. QED  BY <2>1, <2>2, NewFilesStep DEF KeptBody
<1>. QED  BY <1>1, <1>2, SoundInvariant, PTL DEF Spec

\* Whatever fails and wherever the process dies, once the request is rolled back or
\* recovered the package directory holds exactly the files of the version committed
\* last, or nothing when none is, provided that the clean-up, the loop of Backup()
\* and the rollbacks and recoveries themselves do their work.
THEOREM FilesAtRestHolds == Spec => []FilesAtRest
<1>1. Sound /\ NewFilesInv => FilesAtRest
  <2>. SUFFICES ASSUME Sound, NewFilesInv, Settled, ~Excused
                PROVE  FilesAre(stable)
    BY DEF FilesAtRest
  <2>1. KeptBody /\ LeftBody /\ NewFiles
    BY ExcusedNever DEF Sound, KeptInv, LeftInv, NewFilesInv
  <2>2. CASE stable = None
    BY <2>1, <2>2, SettledFree DEF Sound, KeptBody, NewFiles, FilesAre
  <2>3. CASE stable # None
    <3>1. FileOK /\ OldOK /\ LeftBackup
      BY <2>1 DEF KeptBody, LeftBody
    <3>2. Committed \/ ~Exists(device.bck)
      BY <3>1, SettledFree DEF LeftBackup, Committed, Sound, TypeInv, RunnerOK, Requests
    <3>3. ~Looping
      BY DEF Settled, Looping
    <3>4. Whole(device.pkg, stable)
      BY <2>3, <3>1, <3>2, <3>3 DEF OldOK
    <3>. QED  BY <2>3, <3>4 DEF FilesAre, Whole
  <2>. QED  BY <2>2, <2>3
<1>. QED  BY <1>1, SoundInvariant, NewFilesInvariant, PTL

-------------------------------------------------------------------------------
(* What a request has read, and which request it is *)

\* Before the first commit there is nothing to update, and what is in the database is
\* what the installation has registered.
FirstKind == stable = None => "Update" \notin {req, device.rec.kind, ctx.file.kind}
FirstRow == stable = None /\ device.db # None => Underway("Install", 9, 4)

\* Only a recovery of an update registers anything.
Reregisters == req = "Recovery" /\ phase = "process" /\ it = 4 /\ part # "start" => Updating

\* Without a backup directory no entry of a version is in it.
BackupGone == ~Exists(device.bck) => \A e \in CodeLike : ~Has(device.bck, e)

\* A request works with the manifest of the new version, and the recovery of an
\* update with the one of the old version.
ManifestRead ==
  /\ req # "Recovery" /\ ((phase = "process" /\ it >= 4) \/ (phase = "clean" /\ it = 1)) =>
       ctx.man = NewVersion
  /\ Recovering("Update", 4) => ctx.man = stable

RequestBody == FirstKind /\ FirstRow /\ Reregisters /\ BackupGone /\ ManifestRead
RequestInv == ~Excused => RequestBody

\* Where the types of the recovery files come from.
LEMMA KindsStep ==
  ASSUME TypeInv, FileOK, Mended', Next
  PROVE  /\ device'.rec.kind \in {device.rec.kind, ctx.file.kind, req, "none", "torn"}
         /\ ctx'.file.kind \in {ctx.file.kind, device.rec.kind, req, "none"}
<1>. device \in Devices /\ ctx \in Contexts
  BY Places
<1>1. CASE Handler /\ ~(Configure \/ ConfigureWrite \/ ConfigureClean \/ OpenRecoveryFile \/ OpenRecoveryFileUndo)
  BY <1>1, RecordKept DEF KeepsRecord
<1>. USE DEF Leave, GoOn, Done, FailsHere, Failed, Devices, Contexts, TornRecovery, NoRecovery
<1>2. CASE Configure
  BY <1>2 DEF Configure
<1>3. CASE ConfigureWrite
  BY <1>3 DEF ConfigureWrite
<1>4. CASE ConfigureClean
  BY <1>4 DEF ConfigureClean
<1>5. CASE OpenRecoveryFile
  BY <1>5 DEF OpenRecoveryFile
<1>6. CASE OpenRecoveryFileUndo
  BY <1>6 DEF OpenRecoveryFileUndo
<1>7. CASE Begin
  BY <1>7, WorldMoves
<1>8. CASE Exit \/ Abort
  BY <1>8, WorldMoves DEF FreshContext
<1>9. CASE Crash
  <2>1. device'.rec.kind \in {device.rec.kind, "torn"}
    BY <1>9, Crashes
       DEF Touches, DeviceParts, TearsRecovery, TearsManifest, RemovesFiles, TearsRules,
           CopiesStorage, RemovesStorage
  <2>. QED  BY <1>9, <2>1, WorldMoves DEF FreshContext
<1>10. CASE StoreUserFile
  BY <1>10, WorldMoves DEF Touches, DeviceParts
<1>. QED  BY <1>1, <1>2, <1>3, <1>4, <1>5, <1>6, <1>7, <1>8, <1>9, <1>10 DEF Next, Handler

LEMMA FirstKindStep ==
  ASSUME TypeInv, KeptBody, Mended', Next, FirstKind, FirstRow
  PROVE  FirstKind'
<1>. SUFFICES ASSUME stable' = None
              PROVE  "Update" \notin {req', device'.rec.kind, ctx'.file.kind}
  BY DEF FirstKind
<1>1. stable = None
  BY OnlyCommits
<1>2. "Update" \notin {req, device.rec.kind, ctx.file.kind}
  BY <1>1 DEF FirstKind
<1>3. req' # "Update"
  <2>1. CASE Begin
    <3>1. ~RecoveryWaits => device.db = None
      BY <1>1, <2>1, WorldMoves DEF FirstRow, Underway, Waits, RecoveryWaits
    <3>. QED  BY <2>1, <3>1, WorldMoves
  <2>2. CASE Handler
    BY <1>2, <2>2, HandlersMove DEF SameRequest
  <2>. QED  BY <1>2, <2>1, <2>2, WorldMoves DEF Next, Handler, SameRequest
<1>. QED  BY <1>2, <1>3, KindsStep DEF KeptBody

\* The places where the row of the package is written.
LEMMA RowChanges ==
  ASSUME TypeInv, Mended', Next, device'.db # device.db
  PROVE  \/ RegisterApplication /\ device'.db = ctx.man
         \/ RegisterApplicationUndo /\ device'.db = None
         \/ UpdateApplication /\ device'.db = ctx.man
         \/ UpdateApplicationUndo /\ device'.db = ctx.old
         \/ RecoverApplication /\ device'.db = None
         \/ RecoverApplicationRegister /\ device'.db = ctx.man
<1>. device \in Devices
  BY Places
<1>. USE DEF Leave, GoOn, Done, FailsHere, Failed, Undone, Devices
<1>1. Handler
  BY WorldKeeps DEF Next, Handler
<1>2. RegisterApplication => device'.db = ctx.man
  BY DEF RegisterApplication
<1>3. RegisterApplicationUndo => device'.db = None
  BY DEF RegisterApplicationUndo
<1>4. UpdateApplication => device'.db = ctx.man
  BY DEF UpdateApplication
<1>5. UpdateApplicationUndo => device'.db = ctx.old
  BY DEF UpdateApplicationUndo
<1>6. RecoverApplication => device'.db = None
  BY DEF RecoverApplication
<1>7. RecoverApplicationRegister => device'.db = ctx.man
  BY DEF RecoverApplicationRegister
<1>. QED  BY <1>1, <1>2, <1>3, <1>4, <1>5, <1>6, <1>7, WritersOfMarks

LEMMA ReregistersStep ==
  ASSUME TypeInv, FileOK, Mended', Next, Reregisters
  PROVE  Reregisters'
<1>. SUFFICES ASSUME req' = "Recovery", phase' = "process", it' = 4, part' # "start"
              PROVE  Updating'
  BY DEF Reregisters
<1>1. Handler /\ Stays
  <2>1. Handler
    BY WorldMoves DEF Next, Handler
  <2>. QED  BY <2>1, HandlersMove DEF Moves, Proceeds, Breaks, Retreats, Tidies
<1>2. req = "Recovery" /\ phase = "process" /\ it = 4
  BY <1>1, HandlersMove DEF Stays, SameRequest
<1>3. Updating
  <2>1. CASE RecoverApplication
    BY <1>1, <1>2, <2>1 DEF RecoverApplication, Stays, New, Updating, FileOK, Done, StepOk
  <2>2. CASE part # "start"
    BY <1>2, <2>2 DEF Reregisters
  <2>. QED  BY <1>1, <1>2, <2>1, <2>2, Mending, RecoveryStands DEF At
<1>4. ctx'.file.kind = ctx.file.kind
  BY <1>1, <1>2, RecordKept, CommonStands, RecoveryStands DEF KeepsRecord, At, In
<1>. QED  BY <1>3, <1>4 DEF Updating

LEMMA FirstRowStep ==
  ASSUME TypeInv, KeptBody, FileOK', Mended', Next, FirstKind, FirstRow, Reregisters
  PROVE  FirstRow'
<1>. SUFFICES ASSUME stable' = None, device'.db # None, ~Underway("Install", 9, 4)'
              PROVE  FALSE
  BY DEF FirstRow
<1>. device \in Devices /\ it \in Nat /\ it <= Last /\ Last = IF req = "Update" THEN 13 ELSE 10
  BY Places
<1>1. stable = None /\ ~(req = "Install" /\ ConfigureClean) /\ req # "Update" /\ ctx.file.kind # "Update"
  BY OnlyCommits DEF FirstKind
<1>2. ~RegisterApplication
  <2>. SUFFICES ASSUME RegisterApplication
                PROVE  FALSE
    OBVIOUS
  <2>1. At("process", "Install", 9, "start") /\ Moves /\ req' = req
    BY InstallStands, HandlersMove DEF Handler, InstallStep, SameRequest
  <2>. QED  BY <2>1 DEF At, Underway, Moves, Proceeds, Breaks, Stays, Retreats, Tidies
<1>3. device'.db = device.db
  <2>1. ~UpdateApplication /\ ~UpdateApplicationUndo
    BY <1>1, UpdateStands DEF At
  <2>2. ~RecoverApplicationRegister
    BY <1>1, RecoveryStands DEF At, Reregisters, Updating
  <2>. QED  BY <1>2, <2>1, <2>2, RowChanges
<1>4. \/ req = "Install" /\ phase = "undo" /\ it = 9 /\ Retreats
      \/ req = "Recovery" /\ phase = "process" /\ it = 4 /\ Proceeds /\ ctx.file.kind = "Install"
  BY <1>1, <1>3, UnderwayStays DEF FirstRow, KeptBody
<1>5. Handler
  BY <1>4, OnlyHandlers
<1>. ~Fault("undo", "RegisterApplication") /\ ~Fault("fail", "RecoverApplication")
  BY MendedBefore DEF Mendable
<1>. USE DEF Undone, Done, Leave, Devices
<1>6. CASE req = "Install" /\ phase = "undo" /\ it = 9 /\ Retreats
  <2>1. RegisterApplicationUndo
    BY <1>5, <1>6, Reverting
  <2>. QED  BY <1>3, <2>1 DEF RegisterApplicationUndo
<1>7. CASE req = "Recovery" /\ phase = "process" /\ it = 4 /\ Proceeds /\ ctx.file.kind = "Install"
  <2>1. RecoverApplication
    BY <1>1, <1>5, <1>7, Mending, RecoveryStands DEF At, Reregisters, Updating
  <2>. QED  BY <1>3, <1>7, <2>1 DEF RecoverApplication, New
<1>. QED  BY <1>4, <1>6, <1>7

LEMMA BackupGoneStep ==
  ASSUME TypeInv, KeptBody, Mended', Next, BackupGone
  PROVE  BackupGone'
<1>. device \in Devices
  BY Places
<1>1. \A key \in StorageKeys : key \notin CodeLike /\ key # "."
  BY StateAssumption DEF StorageKeys, CodeLike
<1>2. /\ "." \in Nodes /\ "." \notin CodeLike /\ CodeLike \subseteq Nodes /\ StorageKeys \subseteq Nodes
      /\ Entries \subseteq Nodes /\ "." \notin Entries
  BY StateAssumption DEF Nodes, Entries, CodeLike, StorageKeys
<1>3. Missing["."] = {} /\ \A e \in CodeLike : Missing[e] = {}
  BY DEF Missing, Nodes, Entries
<1>. DEFINE Plain(t) == ~Exists(t) => \A e \in CodeLike : ~Has(t, e)
<1>4. \A key \in StorageKeys : \A files : Plain(Put(device.bck, key, files))
  BY <1>1, <1>2 DEF BackupGone, Exists, Has, Put, Trees, Devices
<1>5. Plain(device.bck) /\ Plain(Missing)
  BY <1>3 DEF BackupGone, Has
<1>6. Exists(device.bck) => \A e \in Entries : \A files : Plain(Put(device.bck, e, files))
  BY <1>2 DEF Exists, Put, Trees, Devices
<1>7. \A key \in StorageKeys : \A files : Plain(Put(Put(device.bck, ".", {Dot}), key, files))
  BY <1>1, <1>2 DEF Exists, Put, Trees, Devices
<1>. ~Fault("clean", "CopyBackup")
  BY MendedBefore DEF Mendable
<1>8. Plain(device'.bck)
  <2>. USE DEF Undone, Cleaned, Done, Leave, GoOn, FailsHere, Failed, Devices
  <2>. HIDE DEF Plain
  <2>1. CASE CopyBackup
    <3>1. Plain(EmptyDir)
      BY EmptyTrees DEF Plain
    <3>. QED  BY <1>5, <2>1, <3>1 DEF CopyBackup
  <2>2. CASE CopyBackupEntry
    <3>1. At("process", "Update", 8, "backup") /\ Exists(device.bck) /\ ctx.todo \subseteq Entries
      BY <2>2, UpdateStands, Positions
         DEF At, KeptBody, BackupOK, TypeInv, RunnerOK, LoopsOK, Loops, CopyBackupEntry, Process
    <3>2. \/ device'.bck = device.bck
          \/ \E e \in Entries : device'.bck = Put(device.bck, e, device.pkg[e])
      BY <2>2, <3>1 DEF CopyBackupEntry
    <3>. QED  BY <1>5, <1>6, <3>1, <3>2
  <2>3. CASE CopyBackupRestore
    BY <1>5, <2>3 DEF CopyBackupRestore
  <2>4. CASE CopyBackupClean
    BY <1>5, <2>4 DEF CopyBackupClean
  <2>5. ASSUME NEW key \in StorageKeys, CopyStorageMove(key)
        PROVE  Plain(device'.bck)
    <3>1. device'.bck = device.bck \/ \E files : device'.bck = Put(device.bck, key, files)
      BY <2>5 DEF CopyStorageMove, Drop
    <3>. QED  BY <1>4, <1>5, <3>1
  <2>6. ASSUME NEW key \in StorageKeys, CopyStorageUndo(key)
        PROVE  Plain(device'.bck)
    <3>1. device'.bck = device.bck \/ \E files : device'.bck = Put(Put(device.bck, ".", {Dot}), key, files)
      BY <2>6 DEF CopyStorageUndo
    <3>. QED  BY <1>7, <1>5, <3>1
  <2>7. ASSUME NEW key \in StorageKeys, CopyStorageRemove(key)
        PROVE  Plain(device'.bck)
    <3>1. device'.bck = device.bck \/ \E files : device'.bck = Put(device.bck, key, files)
      BY <2>7 DEF CopyStorageRemove, Drop
    <3>. QED  BY <1>4, <1>5, <3>1
  <2>8. CASE RecoverStorageDirectories
    BY <1>4, <1>5, <2>8 DEF RecoverStorageDirectories, StorageRecovered, StorageKeys
  <2>9. CASE RecoverStorageShared
    BY <1>4, <1>5, <2>9 DEF RecoverStorageShared, StorageRecovered, StorageKeys
  <2>10. CASE RecoverFilesMove
    BY <1>5, <2>10 DEF RecoverFilesMove
  <2>11. ASSUME NEW key \in StorageKeys, RemovesStorage(key)
         PROVE  Plain(device'.bck)
    BY <1>4, <2>11 DEF RemovesStorage
  <2>. QED  BY <1>5, <2>1, <2>2, <2>3, <2>4, <2>5, <2>6, <2>7, <2>8, <2>9, <2>10, <2>11,
               WritersOfFiles, WorldKeeps
            DEF Next, Handler, CopiesOrRestores, Discards
<1>. QED  BY <1>8 DEF BackupGone

LEMMA VersionOfOne ==
  ASSUME NEW v
  PROVE  VersionOf({<<"self", v>>}) = v
<1>. DEFINE f == CHOOSE g \in {<<"self", v>>} : TRUE
<1>1. f = <<"self", v>>
  OBVIOUS
<1>. QED  BY <1>1 DEF VersionOf

\* The manifest a recovery of an update finds is the one of the old version.
LEMMA OldManifestFound ==
  ASSUME TypeInv, KeptBody, BackupGone, stable # None, ~Looping, ~Committed
  PROVE  ManifestFound = stable
<1>1. "manifest" \in CodeLike
  BY DEF CodeLike
<1>2. CASE Exists(device.bck)
  <2>1. device.bck["manifest"] = {<<"self", stable>>}
    BY <1>1, <1>2 DEF KeptBody, OldOK, Whole
  <2>. QED  BY <2>1, VersionOfOne DEF ManifestFound, Has
<1>3. CASE ~Exists(device.bck)
  <2>1. device.pkg["manifest"] = {<<"self", stable>>} /\ ~Has(device.bck, "manifest")
    BY <1>1, <1>3 DEF KeptBody, OldOK, Whole, BackupGone
  <2>. QED  BY <2>1, VersionOfOne DEF ManifestFound, Has
<1>. QED  BY <1>2, <1>3

LEMMA ManifestReadStep ==
  ASSUME TypeInv, KeptBody, FileOK', Mended', Next, FirstKind, BackupGone, ManifestRead
  PROVE  ManifestRead'
<1>. /\ device \in Devices /\ ctx \in Contexts /\ it \in Nat /\ it >= 1 /\ it <= Last
     /\ Last = (IF req = "Update" THEN 13 ELSE 10) /\ req \in {"Install", "Update", "Recovery"}
  BY Places
<1>1. CASE Handler
  <2>. Moves /\ req' = req /\ phase \in {"process", "undo", "clean"}
    BY <1>1, HandlersMove DEF SameRequest
  <2>1. ASSUME req # "Recovery", (phase' = "process" /\ it' >= 4) \/ (phase' = "clean" /\ it' = 1)
        PROVE  ctx'.man = NewVersion'
    <3>1. ~ConfigureClean
      BY <2>1, CommonStands, Places DEF ConfigureClean, StepCleaned
    <3>2. stable' = stable
      BY <1>1, <3>1, HandlersMove
    <3>3. phase = "process" /\ (it >= 4 \/ (it = 3 /\ Proceeds))
      BY <1>1, <2>1, <3>1, FirstHandlers DEF Moves, Proceeds, Breaks, Stays, Retreats, Tidies
    <3>4. CASE it = 3 /\ Proceeds
      <4>1. WritesPackage
        <5>1. ~ParseManifest
          BY <3>4 DEF Proceeds, ParseManifest, GoOn, runnerVars, FailsHere, Failed, StepFails
        <5>. QED  BY <1>1, <2>1, <3>3, <3>4, <5>1, Placing
      <4>2. device.tmp = Shipped(NewVersion)
        BY <2>1, <3>3, <3>4 DEF KeptBody, ContentOK
      <4>3. NewVersion \in Versions
        BY <2>1, <3>3, StateAssumption
           DEF TypeInv, RoomOK, HistoryOK, NewVersion, Versions
      <4>4. VersionOf(device.tmp["manifest"]) = NewVersion
        BY <4>2, <4>3, ShippedTree, VersionOfOne DEF CodeLike
      <4>5. ctx'.man = VersionOf(device.tmp["manifest"])
        <5>1. Process("ParseManifest", "rec") \/ Process("ParseInstalled", "rec")
          BY <4>1 DEF WritesPackage, ParseWrite
        <5>2. ~Process("ParseInstalled", "rec")
          BY <3>4, Positions DEF Process, TypeInv, RunnerOK
        <5>. QED  BY <4>1, <5>2 DEF WritesPackage, ParseWrite, Done, Leave, Contexts
      <4>. QED  BY <3>2, <4>4, <4>5 DEF NewVersion
    <3>5. CASE it >= 4
      <4>1. ctx.man = NewVersion
        BY <2>1, <3>3, <3>5 DEF ManifestRead
      <4>2. ctx'.man = ctx.man
        <5>1. CASE WritesPackage
          <6>1. ~Process("ParseManifest", "rec")
            BY <3>5, Positions DEF Process, TypeInv, RunnerOK
          <6>. QED  BY <5>1, <6>1 DEF WritesPackage, ParseWrite, Done, Leave, Contexts
        <5>2. ~RewritesPackage
          BY <2>1, RecoveryStands DEF RewritesPackage, At
        <5>. QED  BY <1>1, <5>1, <5>2, WritersOfMemory
      <4>. QED  BY <3>2, <4>1, <4>2 DEF NewVersion
    <3>. QED  BY <3>3, <3>4, <3>5
  <2>2. ASSUME req = "Recovery", phase' = "process", it' >= 4, ctx'.file.kind = "Update"
        PROVE  ctx'.man = stable'
    <3>1. stable' = stable
      BY <1>1, <2>2, HandlersMove DEF ConfigureClean
    <3>2. phase = "process" /\ (it >= 4 \/ (it = 3 /\ Proceeds))
      BY <2>2 DEF Moves, Proceeds, Breaks, Stays, Retreats, Tidies
    <3>3. ctx.file.kind = "Update"
      BY <1>1, <2>2, <3>2, RecordKept, CommonStands, RecoveryStands DEF KeepsRecord, At, In
    <3>4. CASE it = 3 /\ Proceeds
      <4>1. stable # None /\ ~Looping /\ ~Committed
        BY <2>2, <3>3 DEF FirstKind, Looping, Committed
      <4>2. ManifestFound = stable
        BY <4>1, OldManifestFound
      <4>3. RewritesPackage
        <5>1. CASE ParseRecovery
          BY <3>4, <4>1, <4>2, <5>1
             DEF ParseRecovery, FailsHere, Failed, StepFails, GoOn, runnerVars, Proceeds
        <5>. QED  BY <1>1, <2>2, <3>2, <3>4, <5>1, Mending
      <4>4. ctx'.man = ManifestFound
        BY <4>3 DEF RewritesPackage, ParseRecoveryWrite, Done, Leave, Contexts
      <4>. QED  BY <3>1, <4>2, <4>4
    <3>5. CASE it >= 4
      <4>1. ctx.man = stable
        BY <2>2, <3>2, <3>3, <3>5 DEF ManifestRead, Recovering
      <4>2. ctx'.man = ctx.man
        BY <1>1, <2>2, <3>5, WritersOfMemory, RecoveryStands, CommonStands
           DEF RewritesPackage, WritesPackage, At, In
      <4>. QED  BY <3>1, <4>1, <4>2
    <3>. QED  BY <3>2, <3>4, <3>5
  <2>. QED  BY <2>1, <2>2 DEF ManifestRead, Recovering
<1>2. CASE Begin \/ Exit \/ Abort \/ Crash \/ StoreUserFile
  <2>1. phase' \in {"idle", "process"} /\ (phase' = "process" => it' = 1)
    BY <1>2, WorldMoves
  <2>. QED  BY <2>1 DEF ManifestRead, Recovering
<1>. QED  BY <1>1, <1>2 DEF Next, Handler

THEOREM RequestInvariant == Spec => []RequestInv
<1>1. Init => RequestInv
  <2>. SUFFICES ASSUME Init
                PROVE  RequestBody
    BY DEF RequestInv
  <2>1. /\ phase = "idle" /\ device = CleanDevice /\ ctx = FreshContext /\ req = "Install"
    BY DEF Init, RunnerInit
  <2>2. \A e \in CodeLike : Missing[e] = {}
    BY DEF Missing, Nodes, Entries
  <2>. QED  BY <2>1, <2>2
            DEF CleanDevice, FreshContext, NoRecovery, RequestBody, FirstKind, FirstRow, Reregisters,
                BackupGone, Has, ManifestRead, Recovering
<1>2. Sound /\ Sound' /\ RequestInv /\ [Next]_vars => RequestInv'
  <2>. SUFFICES ASSUME Sound, Sound', RequestInv, [Next]_vars, ~Excused'
                PROVE  RequestBody'
    BY DEF RequestInv
  <2>1. RequestBody /\ TypeInv /\ KeptBody /\ KeptBody' /\ Mended'
    BY SoundSteps DEF RequestInv
  <2>2. CASE UNCHANGED vars
    BY <2>1, <2>2
       DEF vars, runnerVars, envVars, RequestBody, FirstKind, FirstRow, Underway, Waits,
           Reregisters, Updating, BackupGone, ManifestRead, Recovering, NewVersion
  <2>3. CASE Next
    <3>1. FileOK /\ FileOK' /\ FirstKind /\ FirstRow /\ Reregisters /\ BackupGone /\ ManifestRead
      BY <2>1 DEF RequestBody, KeptBody
    <3>. QED  BY <2>1, <2>3, <3>1, FirstKindStep, FirstRowStep, ReregistersStep, BackupGoneStep,
                 ManifestReadStep
              DEF RequestBody
  <2>. QED  BY <2>2, <2>3
<1>. QED  BY <1>1, <1>2, SoundInvariant, PTL DEF Spec

-------------------------------------------------------------------------------
(* The installed manifest and the database agree with the committed version *)

\* What a request has registered when it commits is what it has read.
ManifestInstalled ==
  /\ \/ req = "Install" /\ phase = "process" /\ it >= 9
     \/ req = "Update" /\ phase = "process" /\ it >= 12
     => device.xml = ctx.man
  /\ req # "Recovery" /\ phase = "clean" /\ it = 1 => device.xml = ctx.man
RowRegistered ==
  /\ req = "Install" /\ phase = "process" /\ (it = 10 \/ (it = 9 /\ part = "certs")) =>
       device.db = ctx.man
  /\ req = "Update" /\ phase = "process" /\ (it = 13 \/ (it = 12 /\ part = "certs")) =>
       device.db = ctx.man
  /\ req # "Recovery" /\ phase = "clean" /\ it = 1 => device.db = ctx.man

\* The manifest of the old version is in its backup or in its place, until the update
\* has committed and cleans up.
Trimming == req = "Update" /\ phase = "clean" /\ it > 1
ManifestStands ==
  stable # None =>
    /\ Trimming => device.xml = stable
    /\ ~Trimming => device.xmlBck = stable \/ (device.xmlBck = None /\ device.xml = stable)
    /\ Running("Update") /\ it >= 7 => device.xmlBck # None

\* The row of the package is that of the old version, except between the step that
\* rewrites it and the handlers that put it back; those know the old version.
RowStands == stable # None /\ device.db # stable => Underway("Update", 12, 4)
RowReverted ==
  stable # None =>
    /\ Running("Update") /\ it >= 6 => ctx.old = stable
    /\ req = "Update" /\ phase = "undo" /\ it = 12 /\ part # "start" => device.db = stable
    /\ req = "Recovery" /\ phase = "process" /\ it = 4 /\ part = "certs" => device.db = stable

RegistryBody ==
  /\ ManifestInstalled /\ RowRegistered
  /\ ManifestStands /\ RowStands /\ RowReverted
RegistryInv == ~Excused /\ ~ManifestCopyCutShort => RegistryBody

LEMMA CopyNotCutShort ==
  ASSUME ~ManifestCopyCutShort'
  PROVE  /\ NoFault => ~ManifestCopyCutShort
         /\ \A kind, where : Fault(kind, where) =>
              ~ManifestCopyCutShort /\ ~(kind \in {"fail", "crash"} /\ where = "BackupManifest")
<1>1. ASSUME NoFault
      PROVE  ~ManifestCopyCutShort
  BY <1>1 DEF NoFault, ManifestCopyCutShort, Happened
<1>2. ASSUME NEW kind, NEW where, Fault(kind, where)
      PROVE  ~ManifestCopyCutShort /\ ~(kind \in {"fail", "crash"} /\ where = "BackupManifest")
  <2>. DEFINE f == <<kind, where>>
  <2>1. faults \subseteq faults' /\ f \in faults' /\ f[1] = kind /\ f[2] = where
    BY <1>2 DEF Fault
  <2>. QED  BY <2>1 DEF ManifestCopyCutShort, Happened
<1>. QED  BY <1>1, <1>2

\* The manifest that has been read stays until the request is over.
LEMMA ManifestStays ==
  ASSUME TypeInv, Mended', Handler, req # "Recovery" => it # 3, req = "Recovery" => it # 3
  PROVE  ctx'.man = ctx.man
<1>. ctx \in Contexts
  BY Places
<1>1. CASE WritesPackage
  <2>1. ~Process("ParseManifest", "rec")
    BY Positions DEF Process, TypeInv, RunnerOK
  <2>. QED  BY <1>1, <2>1 DEF WritesPackage, ParseWrite, Done, Leave, Contexts
<1>2. ~RewritesPackage
  BY RecoveryStands DEF RewritesPackage, At
<1>. QED  BY <1>1, <1>2, WritersOfMemory

\* The position before that of a request that has not failed.
LEMMA WhereFrom ==
  ASSUME TypeInv, Mended', Next, req' # "Recovery", NEW k \in 2..13,
         (phase' = "process" /\ it' >= k) \/ (phase' = "clean" /\ it' = 1)
  PROVE  /\ Handler /\ req' = req /\ phase = "process" /\ stable' = stable
         /\ it >= k \/ (it = k - 1 /\ Proceeds) \/ (phase' = "clean" /\ it = Last /\ Proceeds)
<1>. it \in Nat /\ it >= 1 /\ it <= Last /\ Last \in Nat /\ k \in Nat /\ k >= 2
  BY Places
<1>1. Handler
  <2>1. ~(phase' = "idle") /\ ~(phase' = "process" /\ it' = 1)
    OBVIOUS
  <2>. QED  BY <2>1, WorldMoves DEF Next, Handler
<1>2. ~ConfigureClean
  BY CommonStands, Places DEF ConfigureClean, StepCleaned
<1>3. Moves /\ req' = req /\ stable' = stable /\ ~(phase = "clean" /\ it = 1)
  BY <1>1, <1>2, HandlersMove, FirstHandlers DEF SameRequest
<1>. QED  BY <1>1, <1>3 DEF Moves, Proceeds, Breaks, Stays, Retreats, Tidies

LEMMA ManifestInstalledStep ==
  ASSUME TypeInv, Mended', Next, ManifestInstalled
  PROVE  ManifestInstalled'
<1>. /\ device \in Devices /\ ctx \in Contexts /\ it \in Nat /\ it >= 1 /\ it <= Last
     /\ Last = (IF req = "Update" THEN 13 ELSE 10) /\ req \in {"Install", "Update", "Recovery"}
  BY Places
<1>1. ASSUME NEW k \in {9, 12}, req' = IF k = 9 THEN "Install" ELSE "Update",
             (phase' = "process" /\ it' >= k) \/ (phase' = "clean" /\ it' = 1)
      PROVE  device'.xml = ctx'.man
  <2>1. /\ Handler /\ req' = req /\ phase = "process"
        /\ it >= k \/ (it = k - 1 /\ Proceeds)
    <3>1. k \in 2..13 /\ req' # "Recovery"
      BY <1>1
    <3>2. /\ Handler /\ req' = req /\ phase = "process"
          /\ it >= k \/ (it = k - 1 /\ Proceeds) \/ (phase' = "clean" /\ it = Last /\ Proceeds)
      BY <1>1, <3>1, WhereFrom
    <3>. QED  BY <1>1, <3>2
  <2>2. ctx'.man = ctx.man
    BY <1>1, <2>1, ManifestStays
  <2>3. CASE it >= k
    <3>1. device.xml = ctx.man
      BY <1>1, <2>1, <2>3 DEF ManifestInstalled
    <3>2. device'.xml = device.xml
      BY <1>1, <2>1, <2>3, WritersOfMarks, CommonStands, UpdateStands, RecoveryStands DEF At
    <3>. QED  BY <2>2, <3>1, <3>2
  <2>4. CASE it = k - 1 /\ Proceeds
    <3>1. CreateManifest
      BY <1>1, <2>1, <2>4, Placing
    <3>. QED  BY <2>2, <2>4, <3>1
              DEF CreateManifest, Done, FailsHere, Failed, StepFails, Proceeds, Leave, Devices
  <2>. QED  BY <2>1, <2>3, <2>4
<1>2. req' \in {"Install", "Update", "Recovery"}
  BY WorldMoves, HandlersMove DEF Next, Handler, SameRequest
<1>. QED  BY <1>1, <1>2 DEF ManifestInstalled

LEMMA RowRegisteredStep ==
  ASSUME TypeInv, Mended', Next, RowRegistered
  PROVE  RowRegistered'
<1>. /\ device \in Devices /\ ctx \in Contexts /\ it \in Nat /\ it >= 1 /\ it <= Last
     /\ Last = (IF req = "Update" THEN 13 ELSE 10) /\ req \in {"Install", "Update", "Recovery"}
  BY Places
<1>1. ASSUME NEW k \in {9, 12}, req' = IF k = 9 THEN "Install" ELSE "Update",
             \/ phase' = "process" /\ (it' = k + 1 \/ (it' = k /\ part' = "certs"))
             \/ phase' = "clean" /\ it' = 1
      PROVE  device'.db = ctx'.man
  <2>1. /\ Handler /\ req' = req /\ phase = "process"
        /\ it >= k \/ (it = k - 1 /\ Proceeds)
    <3>1. k \in 2..13 /\ req' # "Recovery"
      BY <1>1
    <3>2. /\ Handler /\ req' = req /\ phase = "process"
          /\ it >= k \/ (it = k - 1 /\ Proceeds) \/ (phase' = "clean" /\ it = Last /\ Proceeds)
      BY <1>1, <3>1, WhereFrom
    <3>. QED  BY <1>1, <3>2
  <2>2. Moves /\ ctx'.man = ctx.man
    BY <1>1, <2>1, ManifestStays, HandlersMove
  <2>3. \/ it = k + 1 /\ (Proceeds \/ Stays)
        \/ it = k /\ (Proceeds \/ (Stays /\ part' = "certs"))
    BY <1>1, <2>1, <2>2 DEF Moves, Proceeds, Breaks, Stays, Retreats, Tidies
  <2>4. CASE RegisterApplication \/ UpdateApplication
    <3>1. ~Proceeds
      BY <2>4 DEF Proceeds, RegisterApplication, UpdateApplication, GoOn, runnerVars, FailsHere,
                  Failed, StepFails
    <3>2. it = k
      BY <1>1, <2>1, <2>4, InstallStands, UpdateStands DEF At
    <3>3. part' = "certs" /\ Stays
      BY <2>3, <3>1, <3>2
    <3>. QED  BY <2>2, <2>4, <3>3
              DEF RegisterApplication, UpdateApplication, GoOn, Leave, FailsHere, Failed, StepFails,
                  Stays, Devices
  <2>5. CASE ~(RegisterApplication \/ UpdateApplication)
    <3>1. device'.db = device.db
      BY <2>1, <2>5, RowChanges, InstallStands, UpdateStands, RecoveryStands DEF At
    <3>2. it = k => part = "certs"
      <4>. SUFFICES ASSUME it = k
                    PROVE  part = "certs"
        OBVIOUS
      <4>1. RegisterApplicationCerts \/ UpdateApplicationCerts
        BY <1>1, <2>1, <2>5, Placing
      <4>. QED  BY <4>1, InstallStands, UpdateStands DEF At
    <3>3. device.db = ctx.man
      BY <1>1, <2>1, <2>3, <3>2 DEF RowRegistered
    <3>. QED  BY <2>2, <3>1, <3>3
  <2>. QED  BY <2>4, <2>5
<1>2. req' \in {"Install", "Update", "Recovery"}
  BY WorldMoves, HandlersMove DEF Next, Handler, SameRequest
<1>. QED  BY <1>1, <1>2 DEF RowRegistered

\* The places where the installed manifest and its backup are written.
LEMMA ManifestChanges ==
  ASSUME TypeInv, Mended', ~ManifestCopyCutShort', Next,
         ~(device'.xml = device.xml /\ device'.xmlBck = device.xmlBck)
  PROVE  /\ Handler
         /\ \/ CreateManifest /\ device'.xmlBck = device.xmlBck
            \/ CreateManifestUndo /\ device'.xmlBck = device.xmlBck
            \/ /\ BackupManifest /\ device.xmlBck = None
               /\ device'.xmlBck = device.xml /\ device'.xml = device.xml /\ device.xml # None
            \/ /\ BackupManifestUndo \/ RecoverManifest
               /\ device.xmlBck # None /\ device'.xml = device.xmlBck /\ device'.xmlBck = None
            \/ RecoverManifest /\ New /\ device'.xmlBck = device.xmlBck
            \/ BackupManifestClean /\ device'.xml = device.xml
<1>. device \in Devices
  BY Places
<1>. /\ ~Fault("fail", "BackupManifest") /\ ~Fault("crash", "BackupManifest")
     /\ ~Fault("undo", "BackupManifest") /\ ~Fault("fail", "RecoverManifest")
  BY MendedBefore, CopyNotCutShort DEF Mendable
<1>1. Handler
  <2>. SUFFICES ASSUME Begin \/ Exit \/ Abort \/ Crash \/ StoreUserFile
                PROVE  FALSE
    BY DEF Next, Handler
  <2>1. TearsManifest
    BY WorldKeeps
  <2>2. Crash
    BY <2>1, WorldMoves DEF TearsManifest, At, Touches, DeviceParts, Torn, None, Devices
  <2>3. Fault(CrashKind, Where)
    BY <2>2 DEF Crash
  <2>4. CrashKind = "crash" /\ Where = "BackupManifest"
    BY <2>1, Positions DEF TearsManifest, At, CrashKind, Where, TypeInv, RunnerOK, Process
  <2>. QED  BY <2>3, <2>4
<1>. USE DEF Leave, GoOn, Done, FailsHere, Failed, Undone, Cleaned, Devices
<1>2. CASE CreateManifest \/ CreateManifestUndo
  BY <1>1, <1>2 DEF CreateManifest, CreateManifestUndo
<1>3. CASE BackupManifest
  BY <1>1, <1>3 DEF BackupManifest
<1>4. CASE BackupManifestUndo
  <2>1. \/ device' = device
        \/ /\ device.xmlBck # None
           /\ device' = [device EXCEPT !.xml = device.xmlBck, !.xmlBck = None]
    BY <1>4 DEF BackupManifestUndo
  <2>. QED  BY <1>1, <1>4, <2>1
<1>5. CASE RecoverManifest
  <2>1. \/ device' = device
        \/ New /\ device' = [device EXCEPT !.xml = None]
        \/ /\ device.xmlBck # None
           /\ device' = [device EXCEPT !.xml = device.xmlBck, !.xmlBck = None]
    BY <1>5 DEF RecoverManifest
  <2>. QED  BY <1>1, <1>5, <2>1
<1>6. CASE BackupManifestClean
  BY <1>1, <1>6, UpdateTouches DEF Touches, DeviceParts
<1>. QED  BY <1>1, <1>2, <1>3, <1>4, <1>5, <1>6, WritersOfMarks

\* Before an update makes its backups there is none of the manifest.
LEMMA NoManifestAside ==
  ASSUME TypeInv, FileOK, LeftManifest, Next,
         \/ req = "Update" /\ phase \in {"process", "undo"} /\ it <= 5
         \/ req = "Update" /\ phase = "clean" /\ it > 6
         \/ req = "Install" /\ phase = "clean"
  PROVE  device.xmlBck = None
<1>. it \in Nat
  BY Places
<1>1. ~Pending(6, 7)
  BY DEF Pending, Underway, Waits, FileOK
<1>. QED  BY <1>1 DEF LeftManifest

LEMMA CommitStep ==
  ASSUME TypeInv, KeptBody, ConfigureClean
  PROVE  /\ phase = "clean" /\ it = 1 /\ phase' = "clean" /\ it' = 2 /\ req' = req /\ part' = "start"
         /\ device'.xml = device.xml /\ device'.xmlBck = device.xmlBck /\ device'.db = device.db
         /\ device'.sec = device.sec
         /\ stable' = IF req = "Recovery" THEN stable ELSE NewVersion
         /\ req = "Install" => stable = None /\ device.xmlBck = None
<1>1. phase = "clean" /\ it = 1 /\ 1 < NumSteps
  BY CommonStands, Places
<1>2. req = "Install" => stable = None
  BY <1>1, Places DEF KeptBody, KindOK
<1>. QED  BY <1>1, <1>2, Places DEF ConfigureClean, StepCleaned, KeptBody, NothingOK, Devices

LEMMA ManifestStandsStep ==
  ASSUME TypeInv, KeptBody, LeftManifest, Mended', ~ManifestCopyCutShort', Next,
         ManifestInstalled, ManifestRead, ManifestStands
  PROVE  ManifestStands'
<1>. /\ device \in Devices /\ it \in Nat /\ it >= 1 /\ it <= Last
     /\ Last = (IF req = "Update" THEN 13 ELSE 10) /\ req \in {"Install", "Update", "Recovery"}
  BY Places
<1>1. CASE ConfigureClean
  <2>1. req # "Recovery" => device.xml = NewVersion
    BY <1>1, CommonStands DEF ManifestInstalled, ManifestRead
  <2>. QED  BY <1>1, <2>1, CommitStep DEF ManifestStands, Trimming, Running
<1>2. ASSUME ~ConfigureClean, stable' # None
      PROVE  ManifestStands'
  <2>1. stable' = stable
    BY <1>2, HandlersMove, WorldMoves DEF Next, Handler
  <2>2. /\ Trimming => device.xml = stable
        /\ ~Trimming => device.xmlBck = stable \/ (device.xmlBck = None /\ device.xml = stable)
        /\ Running("Update") /\ it >= 7 => device.xmlBck # None
    BY <1>2, <2>1 DEF ManifestStands
  <2>3. CASE ~Handler
    <3>1. device'.xml = device.xml /\ device'.xmlBck = device.xmlBck
      BY <2>3, ManifestChanges
    <3>2. ~Trimming /\ ~Trimming' /\ ~(Running("Update")' /\ it' >= 7)
      <4>1. phase # "clean" /\ phase' \in {"idle", "process"} /\ (phase' = "process" => it' = 1)
        <5>1. CASE Begin \/ StoreUserFile
          BY <5>1, WorldMoves
        <5>2. CASE Exit \/ Abort
          BY <5>2, WorldMoves, RecoveryStands DEF At
        <5>3. CASE Crash
          BY <5>3, WorldMoves, Crashes
        <5>. QED  BY <2>3, <5>1, <5>2, <5>3 DEF Next, Handler
      <4>. QED  BY <4>1 DEF Trimming, Running
    <3>. QED  BY <2>1, <2>2, <3>1, <3>2 DEF ManifestStands
  <2>4. CASE Handler
    <3>1. Moves /\ req' = req
      BY <2>4, HandlersMove DEF SameRequest
    <3>2. ~(phase = "clean" /\ it = 1)
      BY <1>2, <2>4, FirstHandlers
    <3>3. /\ Trimming' => Trimming
          /\ Trimming /\ ~Trimming' => device.xmlBck = None
      <4>1. Trimming' => Trimming
        BY <3>1, <3>2 DEF Trimming, Moves, Proceeds, Breaks, Stays, Retreats, Tidies
      <4>2. Trimming /\ ~Trimming' => it > 6
        BY <3>1 DEF Trimming, Moves, Proceeds, Breaks, Stays, Retreats, Tidies
      <4>. QED  BY <4>1, <4>2, NoManifestAside DEF Trimming, KeptBody
    <3>4. Running("Update")' /\ it' >= 7 =>
            Running("Update") /\ (it >= 7 \/ (it = 6 /\ phase = "process" /\ Proceeds))
      BY <3>1 DEF Running, Moves, Proceeds, Breaks, Stays, Retreats, Tidies
    <3>5. req = "Update" /\ phase = "process" /\ it = 6 /\ Proceeds =>
            BackupManifest /\ device'.xmlBck # None
      BY <2>4, Placing
         DEF BackupManifest, Done, FailsHere, Failed, StepFails, Proceeds, Leave, Devices
    <3>6. CASE device'.xml = device.xml /\ device'.xmlBck = device.xmlBck
      <4>1. Running("Update")' /\ it' >= 7 => device'.xmlBck # None
        BY <2>2, <3>4, <3>5, <3>6 DEF Running
      <4>. QED  BY <2>1, <2>2, <3>3, <3>6, <4>1 DEF ManifestStands
    <3>7. CASE CreateManifest \/ CreateManifestUndo
      <4>1. req = "Update" /\ it = 11 /\ phase \in {"process", "undo"}
        BY <1>2, <2>1, <3>7, CommonStands DEF At, KeptBody, KindOK
      <4>2. device'.xmlBck = device.xmlBck
        BY <3>7, CommonTouches DEF Touches, DeviceParts
      <4>3. device.xmlBck = stable /\ ~Trimming'
        BY <2>2, <3>3, <4>1 DEF Running, Trimming
      <4>. QED  BY <1>2, <2>1, <4>2, <4>3 DEF ManifestStands
    <3>8. CASE BackupManifest /\ device.xmlBck = None /\ device'.xmlBck = device.xml /\ device.xml # None
      <4>1. ~Trimming /\ ~Trimming'
        BY <3>3, <3>8, UpdateStands DEF At, Trimming
      <4>. QED  BY <1>2, <2>1, <2>2, <3>8, <4>1 DEF ManifestStands
    <3>9. CASE /\ BackupManifestUndo \/ RecoverManifest
               /\ device.xmlBck # None /\ device'.xml = device.xmlBck /\ device'.xmlBck = None
      <4>1. ~Trimming /\ ~Trimming' /\ ~(Running("Update") /\ it >= 7)
        BY <3>3, <3>9, UpdateStands, RecoveryStands DEF At, Trimming, Running
      <4>2. ~(Running("Update")' /\ it' >= 7)
        BY <3>4, <3>9, <4>1, UpdateStands, RecoveryStands DEF At, Running
      <4>. QED  BY <2>1, <2>2, <3>9, <4>1, <4>2 DEF ManifestStands
    <3>10. ~(RecoverManifest /\ New)
      BY <1>2, <2>1 DEF KeptBody, KindOK, New
    <3>11. CASE BackupManifestClean /\ device'.xml = device.xml
      <4>1. phase = "clean" /\ req = "Update" /\ it = 6
        BY <3>11, UpdateStands
      <4>2. Trimming /\ Trimming' /\ ~Running("Update")'
        BY <3>1, <4>1 DEF Trimming, Running, Moves, Proceeds, Breaks, Stays, Retreats, Tidies
      <4>. QED  BY <2>1, <2>2, <3>11, <4>2 DEF ManifestStands
    <3>. QED  BY <3>6, <3>7, <3>8, <3>9, <3>10, <3>11, ManifestChanges
  <2>. QED  BY <2>3, <2>4
<1>. QED  BY <1>1, <1>2 DEF ManifestStands

LEMMA RowStandsStep ==
  ASSUME TypeInv, KeptBody, FileOK', Mended', Next, ManifestRead, RowRegistered, RowReverted, RowStands
  PROVE  RowStands'
<1>. SUFFICES ASSUME stable' # None, device'.db # stable', ~Underway("Update", 12, 4)'
              PROVE  FALSE
  BY DEF RowStands
<1>. device \in Devices /\ it \in Nat /\ it >= 1 /\ it <= Last /\ Last = IF req = "Update" THEN 13 ELSE 10
  BY Places
<1>. ~Fault("undo", "UpdateApplication") /\ ~Fault("undo", "Certificates")
  BY MendedBefore DEF Mendable
<1>1. ~ConfigureClean
  <2>. SUFFICES ASSUME ConfigureClean
                PROVE  FALSE
    OBVIOUS
  <2>1. req # "Recovery"
    <3>. SUFFICES ASSUME req = "Recovery"
                  PROVE  FALSE
      OBVIOUS
    <3>1. stable # None /\ device.db # stable /\ phase = "clean"
      BY CommitStep
    <3>. QED  BY <3>1 DEF RowStands, Underway, Waits
  <2>. QED  BY <2>1, CommitStep DEF RowRegistered, ManifestRead
<1>2. stable' = stable /\ stable # None
  BY <1>1, HandlersMove, WorldMoves DEF Next, Handler
<1>3. device.rec.kind # "Install" /\ ctx.file.kind # "Install"
  BY <1>2 DEF KeptBody, KindOK
<1>4. device.db # stable
  <2>. SUFFICES ASSUME device.db = stable
                PROVE  FALSE
    OBVIOUS
  <2>1. ~RegisterApplication /\ ~RegisterApplicationUndo
    BY <1>2, InstallStands DEF At, KeptBody, KindOK
  <2>2. ~UpdateApplication
    <3>. SUFFICES ASSUME UpdateApplication
                  PROVE  FALSE
      OBVIOUS
    <3>1. At("process", "Update", 12, "start") /\ Moves /\ req' = req
      BY UpdateStands, HandlersMove DEF Handler, UpdateStep, SameRequest
    <3>. QED  BY <3>1 DEF At, Underway, Moves, Proceeds, Breaks, Stays, Retreats, Tidies
  <2>3. ~(UpdateApplicationUndo /\ device'.db = ctx.old)
    BY <1>2, UpdateStands DEF At, RowReverted, Running
  <2>4. ~RecoverApplication
    <3>. SUFFICES ASSUME RecoverApplication
                  PROVE  FALSE
      OBVIOUS
    <3>1. At("process", "Recovery", 4, "start") /\ ctx.file.kind = "Update"
      BY <1>3, RecoveryStands DEF At, KeptBody, FileOK
    <3>2. ~New /\ ctx'.file = ctx.file
      BY <3>1, RecoveryTouches DEF New, Learns, MemoryParts
    <3>3. req' = req /\ phase' = phase /\ it' = it
      BY <3>2 DEF RecoverApplication, GoOn, Leave, envVars, runnerVars
    <3>. QED  BY <3>1, <3>2, <3>3 DEF At, Underway
  <2>5. ~(RecoverApplicationRegister /\ device'.db = ctx.man)
    BY <1>2, <1>3, RecoveryStands DEF At, ManifestRead, Recovering, KeptBody, FileOK
  <2>. QED  BY <1>2, <2>1, <2>2, <2>3, <2>4, <2>5, RowChanges
<1>5. \/ req = "Update" /\ phase = "undo" /\ it = 12 /\ Retreats
      \/ req = "Recovery" /\ phase = "process" /\ it = 4 /\ Proceeds /\ ctx.file.kind = "Update"
  BY <1>1, <1>2, <1>4, UnderwayStays DEF RowStands, KeptBody
<1>6. Handler
  BY <1>5, OnlyHandlers
<1>7. CASE req = "Update" /\ phase = "undo" /\ it = 12 /\ Retreats
  <2>1. UpdateApplicationUndo \/ UpdateApplicationUndoCerts
    BY <1>6, <1>7, Reverting
  <2>2. ~UpdateApplicationUndo
    BY <1>7 DEF UpdateApplicationUndo, GoOn, runnerVars, Retreats
  <2>3. part # "start"
    BY <2>1, <2>2, UpdateStands DEF At
  <2>. QED  BY <1>2, <1>4, <1>7, <2>3 DEF RowReverted
<1>8. CASE req = "Recovery" /\ phase = "process" /\ it = 4 /\ Proceeds /\ ctx.file.kind = "Update"
  <2>1. ~RecoverApplication
    BY <1>8 DEF RecoverApplication, New, GoOn, runnerVars, Proceeds
  <2>2. ~RecoverApplicationRegister
    BY <1>8 DEF RecoverApplicationRegister, GoOn, runnerVars, FailsHere, Failed, StepFails, Proceeds
  <2>3. RecoverApplicationCerts /\ part = "certs"
    BY <1>6, <1>8, <2>1, <2>2, Mending, RecoveryStands DEF At
  <2>. QED  BY <1>2, <1>4, <1>8, <2>3 DEF RowReverted
<1>. QED  BY <1>5, <1>7, <1>8

LEMMA RowRevertedStep ==
  ASSUME TypeInv, KeptBody, LeftManifest, Mended', Next, ManifestRead, ManifestStands, RowReverted
  PROVE  RowReverted'
<1>. SUFFICES ASSUME stable' # None
              PROVE  RowReverted'
  BY DEF RowReverted
<1>. /\ device \in Devices /\ ctx \in Contexts /\ it \in Nat /\ it >= 1 /\ it <= Last
     /\ Last = IF req = "Update" THEN 13 ELSE 10
  BY Places
<1>1. CASE ConfigureClean
  BY <1>1, CommitStep DEF RowReverted, Running
<1>2. CASE ~Handler
  <2>1. phase' \in {"idle", "process"} /\ (phase' = "process" => it' = 1)
    BY <1>2, WorldMoves DEF Next, Handler
  <2>. QED  BY <2>1 DEF RowReverted, Running
<1>3. CASE Handler /\ ~ConfigureClean
  <2>1. Moves /\ req' = req /\ stable' = stable /\ stable # None
    BY <1>3, HandlersMove DEF SameRequest
  <2>2. ASSUME Running("Update")', it' >= 6
        PROVE  ctx'.old = stable
    <3>1. req = "Update" /\ phase \in {"process", "undo"} /\ (it >= 6 \/ (phase = "process" /\ it = 5 /\ Proceeds))
      BY <2>1, <2>2 DEF Running, Moves, Proceeds, Breaks, Stays, Retreats, Tidies
    <3>2. CASE it >= 6
      <4>1. ctx'.old = ctx.old
        BY <1>3, <3>1, <3>2, WritersOfMemory, CommonStands DEF WritesPackage, At, In
      <4>. QED  BY <2>1, <3>1, <3>2, <4>1 DEF RowReverted, Running
    <3>3. CASE phase = "process" /\ it = 5 /\ Proceeds
      <4>1. WritesPackage
        <5>1. ~ParseInstalled
          BY <3>3 DEF ParseInstalled, GoOn, runnerVars, FailsHere, Failed, StepFails, Proceeds
        <5>. QED  BY <1>3, <3>1, <3>3, <5>1, Placing
      <4>2. ~Process("ParseManifest", "rec")
        BY <3>3, Positions DEF Process, TypeInv, RunnerOK
      <4>3. ctx'.old = device.xml
        BY <4>1, <4>2 DEF WritesPackage, ParseWrite, Done, Leave, Contexts
      <4>4. device.xmlBck = None
        BY <3>1, <3>3, NoManifestAside DEF KeptBody
      <4>. QED  BY <2>1, <3>3, <4>3, <4>4 DEF ManifestStands, Trimming
    <3>. QED  BY <3>1, <3>2, <3>3
  <2>3. ASSUME req' = "Update", phase' = "undo", it' = 12, part' # "start"
        PROVE  device'.db = stable
    <3>1. Stays
      BY <2>1, <2>3 DEF Moves, Proceeds, Breaks, Retreats, Tidies
    <3>2. UpdateApplicationUndo \/ UpdateApplicationUndoCerts
      BY <1>3, <2>1, <2>3, <3>1, Reverting DEF Stays
    <3>3. ~UpdateApplicationUndoCerts
      BY <2>3 DEF UpdateApplicationUndoCerts, Undone
    <3>4. device'.db = ctx.old
      BY <2>3, <3>2, <3>3 DEF UpdateApplicationUndo, Undone, GoOn, Leave, Devices
    <3>. QED  BY <2>1, <2>3, <3>1, <3>4 DEF RowReverted, Running, Stays
  <2>4. ASSUME req' = "Recovery", phase' = "process", it' = 4, part' = "certs"
        PROVE  device'.db = stable
    <3>1. Stays
      BY <2>1, <2>4 DEF Moves, Proceeds, Breaks, Retreats, Tidies
    <3>2. req = "Recovery" /\ phase = "process" /\ it = 4
      BY <2>1, <2>4, <3>1 DEF Stays
    <3>3. RecoverApplicationRegister
      <4>1. ~RecoverApplication
        BY <2>4 DEF RecoverApplication, Done, GoOn
      <4>2. ~RecoverApplicationCerts
        BY <2>4 DEF RecoverApplicationCerts, Done, FailsHere, Failed
      <4>. QED  BY <1>3, <3>2, <4>1, <4>2, Mending
    <3>4. device'.db = ctx.man
      BY <2>4, <3>3 DEF RecoverApplicationRegister, FailsHere, Failed, GoOn, Leave, Devices
    <3>5. ctx.file.kind = "Update"
      BY <2>1, <3>2 DEF KeptBody, KindOK, FileOK
    <3>. QED  BY <3>2, <3>4, <3>5 DEF ManifestRead, Recovering
  <2>. QED  BY <2>1, <2>2, <2>3, <2>4 DEF RowReverted
<1>. QED  BY <1>1, <1>2, <1>3

THEOREM RegistryInvariant == Spec => []RegistryInv
<1>1. Init => RegistryInv
  <2>. SUFFICES ASSUME Init
                PROVE  RegistryBody
    BY DEF RegistryInv
  <2>. QED  BY DEF Init, RunnerInit, RegistryBody, ManifestInstalled, RowRegistered, ManifestStands,
                   RowStands, RowReverted
<1>2. Sound /\ Sound' /\ RequestInv /\ RegistryInv /\ [Next]_vars => RegistryInv'
  <2>. SUFFICES ASSUME Sound, Sound', RequestInv, RegistryInv, [Next]_vars,
                       ~Excused', ~ManifestCopyCutShort'
                PROVE  RegistryBody'
    BY DEF RegistryInv
  <2>1. /\ ~Excused /\ RequestBody /\ TypeInv /\ Mended'
        /\ KeptBody /\ LeftBody /\ KeptBody'
    BY SoundSteps DEF RequestInv
  <2>2. CASE UNCHANGED vars
    <3>1. ~ManifestCopyCutShort
      BY <2>2 DEF vars, ManifestCopyCutShort, Happened
    <3>2. RegistryBody
      BY <2>1, <3>1 DEF RegistryInv
    <3>. QED  BY <2>2, <3>2
              DEF vars, runnerVars, envVars, RegistryBody, ManifestInstalled, RowRegistered,
                  ManifestStands, Trimming, Running, RowStands, Underway, Waits, RowReverted
  <2>3. CASE Next
    <3>1. ~ManifestCopyCutShort
      BY <2>1, <2>3, StepsAndFaults, CopyNotCutShort
    <3>2. RegistryBody
      BY <2>1, <3>1 DEF RegistryInv
    <3>3. FileOK' /\ LeftManifest /\ ManifestRead
      BY <2>1 DEF KeptBody, LeftBody, RequestBody
    <3>4. ManifestInstalled' /\ RowRegistered'
      BY <2>1, <2>3, <3>2, ManifestInstalledStep, RowRegisteredStep DEF RegistryBody
    <3>5. ManifestStands'
      BY <2>1, <2>3, <3>2, <3>3, ManifestStandsStep DEF RegistryBody
    <3>6. RowStands' /\ RowReverted'
      BY <2>1, <2>3, <3>2, <3>3, RowStandsStep, RowRevertedStep DEF RegistryBody
    <3>. QED  BY <3>4, <3>5, <3>6 DEF RegistryBody
  <2>. QED  BY <2>2, <2>3
<1>. QED  BY <1>1, <1>2, SoundInvariant, RequestInvariant, PTL DEF Spec

\* Likewise the database and the installed manifest are those of the version
\* committed last and so agree with each other, although they are written by
\* different steps and reverted by different undo() and recovery steps, unless it is
\* the only copy of the old manifest that is cut short.
THEOREM RegistryAtRestHolds == Spec => []RegistryAtRest
<1>1. Sound /\ RequestInv /\ RegistryInv => RegistryAtRest
  <2>. SUFFICES ASSUME Sound, RequestInv, RegistryInv, Settled, ~Excused, ~ManifestCopyCutShort
                PROVE  device.db = stable /\ device.xml = stable
    BY DEF RegistryAtRest
  <2>1. TypeInv /\ KeptBody /\ LeftBody /\ RequestBody /\ RegistryBody
    BY ExcusedNever DEF Sound, KeptInv, LeftInv, RequestInv, RegistryInv
  <2>2. phase \in {"idle", "clean"} /\ device.rec.kind = "none" /\ FileOK
    BY <2>1 DEF Settled, RecoveryWaits, KeptBody
  <2>3. device.db = stable
    BY <2>1, <2>2, SettledFree DEF RequestBody, FirstRow, RegistryBody, RowStands
  <2>4. device.xml = stable
    <3>1. CASE stable = None
      BY <2>1, <2>2, <3>1, SettledFree DEF KeptBody, NothingOK
    <3>2. CASE stable # None
      <4>1. ~Trimming => device.xmlBck = None
        BY <2>1, <2>2, SettledFree, Places DEF LeftBody, LeftManifest, Trimming
      <4>. QED  BY <2>1, <3>2, <4>1 DEF RegistryBody, ManifestStands, None
    <3>. QED  BY <3>1, <3>2
  <2>. QED  BY <2>3, <2>4
<1>. QED  BY <1>1, SoundInvariant, RequestInvariant, RegistryInvariant, PTL

-------------------------------------------------------------------------------
(* The security context is the one of the committed version *)

\* The registration of the first version has failed half way.
Half == <<"fail", "RegisterSecurity">> \in faults

\* The rules are those of the committed version, but for an update that is registering
\* its own, for an installation that has registered them and not committed yet, and for
\* the rollback of one whose registration failed.
RulesStand ==
  device.sec # stable =>
    \/ Underway("Update", 13, 10)
    \/ req = "Install" /\ phase = "undo" /\ it >= 4 /\ Half
    \/ req = "Install" /\ phase = "clean" /\ it = 1
RulesRegistered ==
  /\ req # "Recovery" /\ phase = "clean" /\ it = 1 => device.sec = ctx.man
  /\ req = "Install" /\ phase = "undo" /\ it = 10 => Half
  /\ ~(req = "Update" /\ phase = "undo" /\ it = 13)

\* The failures of a registration nothing makes up for: see SecurityReverted.
RulesKept == ~Happened({"fail"}, {"UpdateSecurity"}) /\ ~RulesCutShort
RulesBody == RulesStand /\ RulesRegistered
RulesInv == ~Excused /\ RulesKept => RulesBody

LEMMA RulesKeptBefore ==
  ASSUME RulesKept', Next
  PROVE  /\ RulesKept
         /\ Half => Half'
         /\ ~Fault("fail", "UpdateSecurity") /\ ~Fault("crash", "RegisterSecurity")
         /\ Fault("fail", "RegisterSecurity") => Half'
         /\ \A kind, where : Fault(kind, where) /\ Half => kind \in {"fail", "undo", "clean"}
<1>1. ASSUME NEW kind, NEW where, Fault(kind, where)
      PROVE  /\ faults \subseteq faults'
             /\ <<kind, where>> \in faults'
             /\ ~(kind = "fail" /\ where = "UpdateSecurity")
             /\ ~(kind = "crash" /\ where = "RegisterSecurity")
             /\ Half => kind \in {"fail", "undo", "clean"}
  <2>. DEFINE f == <<kind, where>>
           g == <<"fail", "RegisterSecurity">>
  <2>1. faults \subseteq faults' /\ f \in faults' /\ f[1] = kind /\ f[2] = where
    BY <1>1 DEF Fault
  <2>2. ~(kind = "fail" /\ where = "UpdateSecurity")
    BY <2>1 DEF RulesKept, Happened
  <2>3. ~(kind = "crash" /\ where = "RegisterSecurity")
    BY <2>1 DEF RulesKept, RulesCutShort, Happened
  <2>4. ASSUME Half
        PROVE  kind \in {"fail", "undo", "clean"}
    <3>1. g \in faults' /\ g[1] = "fail" /\ g[2] = "RegisterSecurity"
      BY <2>1, <2>4 DEF Half
    <3>2. ~Died'
      BY <3>1 DEF RulesKept, RulesCutShort, Happened
    <3>. QED  BY <2>1, <3>2 DEF Died, Only
  <2>. QED  BY <2>1, <2>2, <2>3, <2>4
<1>2. faults \subseteq faults'
  BY <1>1, StepsAndFaults DEF NoFault
<1>3. RulesKept
  BY <1>2 DEF RulesKept, RulesCutShort, Happened, Died, Only
<1>4. Half => Half'
  BY <1>2 DEF Half
<1>. QED  BY <1>1, <1>3, <1>4 DEF Half

\* The places where the rules are written.
LEMMA RulesChange ==
  ASSUME TypeInv, Mended', RulesKept', Next, RulesRegistered, device'.sec # device.sec
  PROVE  \/ RegisterSecurity
         \/ UpdateSecurity
         \/ RollbackInstallationSecurityUndo /\ device'.sec = None
         \/ RecoverSecurity /\ device'.sec = IF New THEN None ELSE ctx.man
         \/ TearsRules /\ Crash
<1>. device \in Devices
  BY Places
<1>1. CASE Handler
  <2>1. ~UpdateSecurityUndo
    BY UpdateStands DEF At, RulesRegistered
  <2>2. RollbackInstallationSecurityUndo => device'.sec = None
    BY DEF RollbackInstallationSecurityUndo, Undone, Leave, Devices
  <2>3. RecoverSecurity => device'.sec = IF New THEN None ELSE ctx.man
    BY DEF RecoverSecurity, Done, FailsHere, Failed, Leave, Devices
  <2>. QED  BY <1>1, <2>1, <2>2, <2>3, WritersOfMarks
<1>2. CASE ~Handler
  <2>1. TearsRules
    BY <1>2, WorldKeeps DEF Next, Handler
  <2>2. ~Begin /\ ~Exit /\ ~Abort /\ ~StoreUserFile
    BY WorldMoves DEF Touches, DeviceParts
  <2>. QED  BY <1>2, <2>1, <2>2 DEF Next, Handler
<1>. QED  BY <1>1, <1>2

LEMMA RulesRegisteredStep ==
  ASSUME TypeInv, Mended', RulesKept', Next, RulesRegistered
  PROVE  RulesRegistered'
<1>. /\ device \in Devices /\ it \in Nat /\ it >= 1 /\ it <= Last /\ Last = NumSteps
     /\ Last = (IF req = "Update" THEN 13 ELSE 10) /\ req \in {"Install", "Update", "Recovery"}
  BY Places
<1>1. CASE ~Handler
  <2>1. phase' \in {"idle", "process"}
    BY <1>1, WorldMoves DEF Next, Handler
  <2>. QED  BY <2>1 DEF RulesRegistered
<1>2. CASE Handler
  <2>. Moves /\ req' = req
    BY <1>2, HandlersMove DEF SameRequest
  <2>1. ASSUME req' # "Recovery", phase' = "clean", it' = 1
        PROVE  device'.sec = ctx'.man
    <3>1. ~ConfigureClean
      BY <2>1, CommonStands, Places DEF ConfigureClean, StepCleaned
    <3>2. phase = "process" /\ it = Last /\ Proceeds
      BY <1>2, <2>1, <3>1, FirstHandlers DEF Moves, Proceeds, Breaks, Stays, Retreats, Tidies
    <3>3. RegisterSecurity \/ UpdateSecurity
      BY <1>2, <2>1, <3>2, Placing
    <3>. QED  BY <3>2, <3>3
              DEF RegisterSecurity, UpdateSecurity, Done, Failed, Leave, StepFails, Proceeds, Devices
  <2>2. ASSUME req' = "Install", phase' = "undo", it' = 10
        PROVE  Half'
    <3>1. \/ phase = "undo" /\ it = 10
          \/ phase = "process" /\ it = 10 /\ Breaks
      BY <2>2 DEF Moves, Proceeds, Breaks, Stays, Retreats, Tidies
    <3>2. CASE phase = "undo" /\ it = 10
      BY <2>2, <3>2, RulesKeptBefore DEF RulesRegistered
    <3>3. CASE phase = "process" /\ it = 10 /\ Breaks
      <4>1. RegisterSecurity
        BY <1>2, <2>2, <3>3, Placing
      <4>2. Fault("fail", "RegisterSecurity")
        BY <3>3, <4>1 DEF RegisterSecurity, Done, StepOk, Breaks
      <4>. QED  BY <4>2, RulesKeptBefore
    <3>. QED  BY <3>1, <3>2, <3>3
  <2>3. ASSUME req' = "Update", phase' = "undo", it' = 13
        PROVE  FALSE
    <3>1. phase = "process" /\ it = 13 /\ Breaks
      BY <2>3 DEF RulesRegistered, Moves, Proceeds, Breaks, Stays, Retreats, Tidies
    <3>2. UpdateSecurity
      BY <1>2, <2>3, <3>1, Placing
    <3>3. Fault("fail", "UpdateSecurity")
      BY <3>1, <3>2 DEF UpdateSecurity, Done, StepOk, Breaks
    <3>. QED  BY <3>3, RulesKeptBefore
  <2>. QED  BY <2>1, <2>2, <2>3 DEF RulesRegistered
<1>. QED  BY <1>1, <1>2

LEMMA RulesStandStep ==
  ASSUME TypeInv, KeptBody, FileOK', Mended', RulesKept', Next, ManifestRead, RulesBody
  PROVE  RulesStand'
<1>. SUFFICES ASSUME device'.sec # stable', ~Underway("Update", 13, 10)',
                     ~(req' = "Install" /\ phase' = "undo" /\ it' >= 4 /\ Half'),
                     ~(req' = "Install" /\ phase' = "clean" /\ it' = 1)
              PROVE  FALSE
  BY DEF RulesStand
<1>. /\ device \in Devices /\ it \in Nat /\ it >= 1 /\ it <= Last /\ Last = NumSteps
     /\ Last = (IF req = "Update" THEN 13 ELSE 10) /\ req \in {"Install", "Update", "Recovery"}
  BY Places
<1>1. RulesStand /\ RulesRegistered
  BY DEF RulesBody
<1>2. ~ConfigureClean
  <2>. SUFFICES ASSUME ConfigureClean
                PROVE  FALSE
    OBVIOUS
  <2>1. req # "Recovery"
    <3>. SUFFICES ASSUME req = "Recovery"
                  PROVE  FALSE
      OBVIOUS
    <3>1. device.sec # stable /\ phase = "clean"
      BY CommitStep
    <3>. QED  BY <1>1, <3>1 DEF RulesStand, Underway, Waits
  <2>2. device.sec = NewVersion
    BY <1>1, <2>1, CommonStands DEF RulesRegistered, ManifestRead
  <2>. QED  BY <2>1, <2>2, CommitStep
<1>3. stable' = stable
  BY <1>2, HandlersMove, WorldMoves DEF Next, Handler
<1>4. req = "Install" /\ phase \in {"process", "undo"} => stable = None
  BY DEF KeptBody, KindOK
<1>5. device'.sec = device.sec
  <2>1. ~RegisterSecurity
    <3>. SUFFICES ASSUME RegisterSecurity
                  PROVE  FALSE
      OBVIOUS
    <3>1. At("process", "Install", 10, "start") /\ Moves /\ req' = req
      BY InstallStands, HandlersMove DEF Handler, InstallStep, SameRequest
    <3>2. Breaks => Fault("fail", "RegisterSecurity")
      BY DEF RegisterSecurity, Done, StepOk, Breaks
    <3>3. Breaks => Half'
      BY <3>2, RulesKeptBefore
    <3>. QED  BY <3>1, <3>3 DEF At, Moves, Proceeds, Breaks, Stays, Retreats, Tidies, RegisterSecurity,
                                Done, Failed, StepOk, StepFails
  <2>2. ~UpdateSecurity
    <3>. SUFFICES ASSUME UpdateSecurity
                  PROVE  FALSE
      OBVIOUS
    <3>1. At("process", "Update", 13, "start") /\ Moves /\ req' = req
      BY UpdateStands, HandlersMove DEF Handler, UpdateStep, SameRequest
    <3>2. UNCHANGED runnerVars \/ Proceeds \/ Breaks
      BY <3>1 DEF At, Moves, Retreats, Tidies, Stays, runnerVars, UpdateSecurity, Done, Failed,
                  StepOk, StepFails
    <3>3. ~Breaks
      BY RulesKeptBefore DEF UpdateSecurity, Done, StepOk, Breaks
    <3>. QED  BY <3>1, <3>2, <3>3 DEF At, Underway, Proceeds, runnerVars
  <2>3. ~(RollbackInstallationSecurityUndo /\ device'.sec = None)
    BY <1>3, <1>4, InstallStands DEF At
  <2>4. ~(RecoverSecurity /\ device'.sec = IF New THEN None ELSE ctx.man)
    <3>. SUFFICES ASSUME RecoverSecurity, device'.sec = IF New THEN None ELSE ctx.man
                  PROVE  FALSE
      OBVIOUS
    <3>1. At("process", "Recovery", 10, "start") /\ ctx.file.kind \in {"Install", "Update"}
      BY RecoveryStands DEF At, KeptBody, FileOK
    <3>2. New => stable = None
      BY DEF New, KeptBody, KindOK
    <3>3. ~New => ctx.man = stable
      BY <3>1 DEF New, At, ManifestRead, Recovering
    <3>. QED  BY <1>3, <3>2, <3>3
  <2>5. ~(TearsRules /\ Crash)
    <3>. SUFFICES ASSUME TearsRules, Crash
                  PROVE  FALSE
      OBVIOUS
    <3>1. phase' = "idle" /\ req' = req /\ Fault(CrashKind, Where) /\ device'.rec = device.rec
      BY WorldMoves, Crashes DEF SameRequest, TearsRules, Touches, DeviceParts
    <3>2. CASE req = "Install" /\ it = 10
      <4>1. phase = "process" => Where = "RegisterSecurity" /\ CrashKind = "crash"
        BY <3>2, Positions DEF Where, CrashKind, Process, TypeInv, RunnerOK
      <4>2. phase = "undo" => Half /\ CrashKind = "crashInUndo"
        BY <1>1, <3>2 DEF RulesRegistered, CrashKind
      <4>. QED  BY <3>1, <4>1, <4>2, RulesKeptBefore DEF TearsRules
    <3>3. CASE req = "Update" /\ it = 13
      <4>1. phase = "process" /\ device.rec.kind \in {"Update", "torn"}
        BY <1>1, <3>3 DEF TearsRules, RulesRegistered, KeptBody, FileOK
      <4>. QED  BY <3>1, <4>1 DEF Underway, Waits
    <3>. QED  BY <3>2, <3>3 DEF TearsRules
  <2>. QED  BY <1>1, <2>1, <2>2, <2>3, <2>4, <2>5, RulesChange
<1>6. device.sec # stable
  BY <1>3, <1>5
<1>7. CASE Underway("Update", 13, 10)
  <2>1. req = "Recovery" /\ phase = "process" /\ it = 10 /\ Proceeds /\ ctx.file.kind = "Update"
    BY <1>1, <1>2, <1>7, UnderwayStays DEF KeptBody, RulesRegistered
  <2>2. RecoverSecurity
    BY <2>1, OnlyHandlers, Mending
  <2>3. ctx.man = stable
    BY <2>1 DEF ManifestRead, Recovering
  <2>4. device'.sec = ctx.man
    BY <2>1, <2>2 DEF RecoverSecurity, New, Done, Failed, FailsHere, StepFails, Proceeds, Leave, Devices
  <2>. QED  BY <1>3, <2>3, <2>4
<1>8. CASE req = "Install" /\ phase = "undo" /\ it >= 4 /\ Half
  <2>1. Handler
    <3>1. ~Crash
      <4>. SUFFICES ASSUME Crash
                    PROVE  FALSE
        OBVIOUS
      <4>1. Fault(CrashKind, Where) /\ CrashKind = "crashInUndo"
        BY <1>8, Crashes DEF CrashKind
      <4>. QED  BY <1>8, <4>1, RulesKeptBefore
    <3>. QED  BY <1>8, <3>1, WorldMoves, RecoveryStands DEF At, Next, Handler
  <2>2. Moves /\ req' = req /\ Half'
    BY <1>8, <2>1, HandlersMove, RulesKeptBefore DEF SameRequest
  <2>3. it = 4 /\ Retreats
    BY <1>8, <2>2 DEF Moves, Proceeds, Breaks, Stays, Retreats, Tidies
  <2>4. RollbackInstallationSecurityUndo
    BY <1>8, <2>1, <2>3, Reverting
  <2>5. ~Fault("undo", "RollbackInstallationSecurity")
    BY MendedBefore DEF Mendable
  <2>6. device'.sec = None
    BY <2>4, <2>5 DEF RollbackInstallationSecurityUndo, Undone, Leave, Devices
  <2>. QED  BY <1>3, <1>4, <1>8, <2>6
<1>9. CASE req = "Install" /\ phase = "clean" /\ it = 1
  <2>1. Handler
    BY <1>9, OnlyHandlers
  <2>. QED  BY <1>2, <1>9, <2>1, FirstHandlers
<1>. QED  BY <1>1, <1>6, <1>7, <1>8, <1>9 DEF RulesStand

THEOREM RulesInvariant == Spec => []RulesInv
<1>1. Init => RulesInv
  <2>. SUFFICES ASSUME Init
                PROVE  RulesBody
    BY DEF RulesInv
  <2>1. phase = "idle" /\ device.sec = None /\ stable = None
    BY DEF Init, RunnerInit, CleanDevice
  <2>. QED  BY <2>1 DEF RulesBody, RulesStand, RulesRegistered
<1>2. Sound /\ Sound' /\ RequestInv /\ RulesInv /\ [Next]_vars => RulesInv'
  <2>. SUFFICES ASSUME Sound, Sound', RequestInv, RulesInv, [Next]_vars, ~Excused', RulesKept'
                PROVE  RulesBody'
    BY DEF RulesInv
  <2>1. /\ ~Excused /\ RequestBody /\ TypeInv /\ Mended' /\ KeptBody /\ KeptBody'
    BY SoundSteps DEF RequestInv
  <2>2. CASE UNCHANGED vars
    <3>1. RulesKept
      BY <2>2 DEF vars, RulesKept, RulesCutShort, Happened, Died, Only
    <3>2. RulesBody
      BY <2>1, <3>1 DEF RulesInv
    <3>. QED  BY <2>2, <3>2
              DEF vars, runnerVars, envVars, RulesBody, RulesStand, RulesRegistered, Underway, Waits,
                  Half
  <2>3. CASE Next
    <3>1. RulesBody
      BY <2>1, <2>3, RulesKeptBefore DEF RulesInv
    <3>2. FileOK' /\ ManifestRead /\ RulesRegistered
      BY <2>1, <3>1 DEF KeptBody, RequestBody, RulesBody
    <3>. QED  BY <2>1, <2>3, <3>1, <3>2, RulesStandStep, RulesRegisteredStep DEF RulesBody
  <2>. QED  BY <2>2, <2>3
<1>. QED  BY <1>1, <1>2, SoundInvariant, RequestInvariant, PTL DEF Spec

\* The security context is the one of the version committed last, although an
\* installation unregisters in the undo() of an earlier step than the one that
\* registers, and an update's is re-registered by the recovery only; but for a failed
\* registration of an update, whose undo() never runs, and for a process that dies
\* while it registers a first version or before it has undone that.
THEOREM SecurityAtRestHolds == Spec => []SecurityAtRest
<1>1. Sound /\ RulesInv => SecurityAtRest
  <2>. SUFFICES ASSUME Sound, RulesInv, Settled, ~Excused, RulesKept
                PROVE  device.sec = stable
    BY DEF SecurityAtRest, RulesKept
  <2>1. TypeInv /\ FileOK /\ RulesStand
    BY ExcusedNever DEF Sound, KeptInv, KeptBody, RulesInv, RulesBody
  <2>2. phase \in {"idle", "clean"}
    BY DEF Settled
  <2>. QED  BY <2>1, <2>2, SettledFree DEF RulesStand
<1>. QED  BY <1>1, SoundInvariant, RulesInvariant, PTL

-------------------------------------------------------------------------------
(* The file of the user survives *)

InPkg == UserFile \in device.pkg["data"]
InBck == UserFile \in device.bck["data"]

\* An update makes its backup from nothing, and moves each entry there once.
BackupBegins ==
  req = "Update" /\ phase = "process" /\ it = 8 =>
    /\ part = "start" => ~Exists(device.bck)
    /\ part = "backup" => \A e \in ctx.todo : ~Has(device.bck, e)

\* The file is in the package directory, or in the backup while there is one.
DataStands ==
  /\ phase = "clean" => InPkg
  /\ phase # "clean" =>
       IF Exists(device.bck) THEN InBck \/ (InPkg /\ ~Has(device.bck, "data")) ELSE InPkg

\* It is in the backup before the package directory is replaced or removed, and has
\* been copied back before its copy in the backup is removed.
DataMoved ==
  req = "Update" =>
    /\ phase = "process" /\ it = 8 /\ part = "content" => InBck
    /\ phase = "process" /\ (it >= 10 \/ (it = 9 /\ part \notin {"start", "data"})) => InPkg
    /\ phase = "undo" /\ it = 9 /\ part # "start" => InBck
    /\ phase = "undo" /\ it <= 8 /\ Exists(device.bck) => InBck
DataRecovered ==
  /\ req = "Recovery" /\ phase = "process" /\ Exists(device.bck)
  /\ it >= 9 \/ (it = 8 /\ part # "start")
  => InBck

DataSafe == stable # None /\ ~global /\ DataStands /\ DataMoved /\ DataRecovered
DataBody == BackupBegins /\ (written => DataSafe)

\* Half a removal of the copied storage loses what is left of it: undo() does not move
\* what is still in the backup.
DataKept == ~Happened({"fail", "crash"}, {"StorageRemove"})
DataInv == ~Excused /\ DataKept => DataBody

LEMMA DataKeptBefore ==
  ASSUME DataKept', Next
  PROVE  DataKept /\ ~Fault("fail", "StorageRemove") /\ ~Fault("crash", "StorageRemove")
<1>1. ASSUME NEW kind, NEW where, Fault(kind, where)
      PROVE  /\ faults \subseteq faults'
             /\ ~(kind = "fail" /\ where = "StorageRemove")
             /\ ~(kind = "crash" /\ where = "StorageRemove")
  <2>. DEFINE f == <<kind, where>>
  <2>1. faults \subseteq faults' /\ f \in faults' /\ f[1] = kind /\ f[2] = where
    BY <1>1 DEF Fault
  <2>. QED  BY <2>1 DEF DataKept, Happened
<1>2. faults \subseteq faults'
  BY <1>1, StepsAndFaults DEF NoFault
<1>. QED  BY <1>1, <1>2 DEF DataKept, Happened

\* What the operations on trees do to the directory of the user's data.
LEMMA DataTrees ==
  ASSUME NEW t \in Trees, NEW files
  PROVE  /\ Put(t, "data", files)["data"] = files /\ Put(t, "data", files)["."] = t["."]
         /\ Put(t, "shared", files)["data"] = t["data"] /\ Put(t, "shared", files)["."] = t["."]
         /\ \A e \in CodeLike : Put(t, e, files)["data"] = t["data"] /\ Put(t, e, files)["."] = t["."]
BY StateAssumption DEF Put, Trees, Nodes, Entries, CodeLike, StorageKeys

\* Only a file of the user has the name of one.
LEMMA MergedData ==
  ASSUME NEW t \in Trees, NEW src, UserFile \in src
  PROVE  UserFile \in Merge(t["data"], src)
<1>1. t["data"] \subseteq {Dot, UserFile} \cup {"self", "conf", "res"} \X Versions
  BY DEF Trees, Nodes, Entries, StorageKeys
<1>2. UserFile[1] = "user" /\ Dot[1] = "dir"
  BY DEF UserFile, Dot
<1>3. ASSUME NEW f \in t["data"], f[1] = "user"
      PROVE  f = UserFile
  BY <1>1, <1>2, <1>3
<1>. QED  BY <1>2, <1>3 DEF Merge, Names

LEMMA BackupBeginsStep ==
  ASSUME TypeInv, LeftBackup, Mended', Next, BackupBegins
  PROVE  BackupBegins'
<1>. SUFFICES ASSUME req' = "Update", phase' = "process", it' = 8
              PROVE  /\ part' = "start" => ~Exists(device'.bck)
                     /\ part' = "backup" => \A e \in ctx'.todo : ~Has(device'.bck, e)
  BY DEF BackupBegins
<1>. /\ device \in Devices /\ ctx \in Contexts /\ it \in Nat /\ it >= 1 /\ it <= Last
     /\ Last = IF req = "Update" THEN 13 ELSE 10
  BY Places
<1>1. Handler
  <2>1. CASE ~Handler
    <3>1. phase' \in {"idle", "process"} /\ (phase' = "process" => it' = 1)
      BY <2>1, WorldMoves DEF Next, Handler
    <3>. QED  BY <3>1
  <2>. QED  BY <2>1
<1>2. req = "Update" /\ phase = "process" /\ ((it = 7 /\ Proceeds) \/ (it = 8 /\ Stays))
  BY <1>1, HandlersMove DEF SameRequest, Moves, Proceeds, Breaks, Stays, Retreats, Tidies
<1>3. CASE it = 7 /\ Proceeds
  <2>1. ~Exists(device.bck)
    BY <1>2, <1>3 DEF LeftBackup, Pending, Underway, Waits
  <2>2. BackupIconsMove
    <3>1. ~BackupIcons
      BY <1>3 DEF BackupIcons, GoOn, runnerVars, Proceeds
    <3>. QED  BY <1>1, <1>2, <1>3, <3>1, Placing
  <2>3. device'.bck = device.bck /\ part' = "start"
    <3>1. device'.bck = device.bck
      BY <2>2, UpdateTouches DEF Touches, DeviceParts
    <3>. QED  BY <1>3, <2>2, <3>1, IconsSetAside DEF Stays, Proceeds, Breaks
  <2>. QED  BY <2>1, <2>3
<1>4. CASE it = 8 /\ Stays
  <2>1. CopyBackup \/ CopyBackupEntry
    <3>1. ~CopyBackupNewContent
      BY <1>2, <1>4 DEF CopyBackupNewContent, Done, StepOk, FailsHere, Failed, StepFails, Stays
    <3>. QED  BY <1>1, <1>2, <1>4, <3>1, Placing
  <2>. phase' # "undo"
    OBVIOUS
  <2>2. CASE CopyBackup
    <3>1. part = "start" /\ ~Exists(device.bck)
      BY <1>2, <1>4, <2>2, UpdateStands DEF At, BackupBegins
    <3>2. /\ part' = "backup" /\ device'.bck = EmptyDir
          /\ ctx'.todo = {e \in Entries : Has(device.pkg, e)}
      BY <2>2, <3>1 DEF CopyBackup, GoOn, Leave, FailsHere, Failed, StepFails, Devices, Contexts
    <3>3. \A e \in Entries : ~Has(EmptyDir, e)
      BY StateAssumption DEF EmptyDir, Missing, Has, Nodes, Entries, CodeLike, StorageKeys
    <3>. QED  BY <3>2, <3>3
  <2>3. CASE CopyBackupEntry
    <3>1. \A e \in ctx.todo : ~Has(device.bck, e)
      BY <1>2, <1>4, <2>3, UpdateStands DEF At, BackupBegins
    <3>2. CASE GoOn("content", device, ctx)
      BY <3>2 DEF GoOn
    <3>3. ASSUME NEW e \in ctx.todo,
                 GoOn("backup", [device EXCEPT !.bck = Put(@, e, device.pkg[e]), !.pkg = Drop(@, e)],
                      [ctx EXCEPT !.todo = @ \ {e}])
          PROVE  part' # "start" /\ \A f \in ctx'.todo : ~Has(device'.bck, f)
      <4>1. device'.bck = Put(device.bck, e, device.pkg[e]) /\ ctx'.todo = ctx.todo \ {e} /\ part' = "backup"
        BY <3>3 DEF GoOn, Leave, Devices, Contexts
      <4>2. \A f : f # e => Put(device.bck, e, device.pkg[e])[f] = device.bck[f]
        BY DEF Put, Devices, Trees
      <4>. QED  BY <3>1, <4>1, <4>2 DEF Has
    <3>4. ~Failed(device, ctx)
      BY DEF Failed, StepFails
    <3>. QED  BY <2>3, <3>1, <3>2, <3>3, <3>4 DEF CopyBackupEntry, FailsHere
  <2>. QED  BY <2>1, <2>2, <2>3
<1>. QED  BY <1>2, <1>3, <1>4

\* The making of the backup, and of the new version in its place.
LEMMA BackupKeepsData ==
  ASSUME TypeInv, KeptBody, Mended', Kept', BackupBegins, DataSafe,
         CopyBackup \/ CopyBackupEntry \/ CopyBackupNewContent
  PROVE  DataSafe'
<1>. device \in Devices /\ ctx \in Contexts
  BY Places
<1>. ~Fault("fail", "Backup")
  BY KeptBefore DEF Harmless
<1>. DataStands /\ DataMoved /\ stable # None /\ ~global
  BY DEF DataSafe
<1>1. /\ phase = "process" /\ req = "Update" /\ it = 8
      /\ Moves /\ req' = req /\ stable' = stable /\ global' = global
  BY UpdateStands, CommonStands, HandlersMove DEF At, Handler, UpdateStep, SameRequest
<1>2. SUFFICES DataStands' /\ DataMoved'
  BY <1>1 DEF DataSafe, DataRecovered
<1>3. CASE CopyBackup
  <2>1. ~Exists(device.bck) /\ InPkg
    BY <1>1, <1>3, UpdateStands DEF At, BackupBegins, DataStands
  <2>2. Exists(device.pkg)
    <3>1. ~Looping /\ ~Committed
      BY <1>1, <1>3, UpdateStands DEF At, Looping, Committed
    <3>2. device.pkg["manifest"] # {}
      BY <2>1, <3>1 DEF KeptBody, OldOK, Whole, CodeLike
    <3>. QED  BY <3>2 DEF KeptBody, ContentOK, CodeLike
  <2>3. CASE GoOn("backup", [device EXCEPT !.bck = EmptyDir],
                  [ctx EXCEPT !.todo = {e \in Entries : Has(device.pkg, e)}])
    <3>1. phase' = "process" /\ it' = 8 /\ part' = "backup"
      BY <1>1, <2>3 DEF GoOn, runnerVars
    <3>2. device'.bck = EmptyDir /\ device'.pkg = device.pkg
      BY <2>3 DEF GoOn, Leave, Devices
    <3>3. ~Has(EmptyDir, "data")
      BY StateAssumption DEF EmptyDir, Missing, Has, Nodes, Entries, CodeLike, StorageKeys
    <3>. QED  BY <2>1, <3>1, <3>2, <3>3, EmptyTrees DEF DataStands, DataMoved, InPkg
  <2>4. CASE FailsHere("CopyBackup")
    <3>1. phase' = "undo" /\ it' = 8 /\ device' = device
      BY <1>1, <2>4 DEF FailsHere, Failed, StepFails, Leave
    <3>. QED  BY <2>1, <3>1 DEF DataStands, DataMoved, InPkg
  <2>. QED  BY <1>3, <2>1, <2>2, <2>3, <2>4 DEF CopyBackup
<1>4. CASE CopyBackupEntry
  <2>1. part = "backup" /\ Exists(device.bck) /\ \A e \in ctx.todo : ~Has(device.bck, e)
    BY <1>1, <1>4, UpdateStands DEF At, BackupBegins, KeptBody, BackupOK
  <2>2. InBck \/ (InPkg /\ ~Has(device.bck, "data"))
    BY <1>1, <2>1 DEF DataStands
  <2>3. CASE ctx.todo = {} /\ GoOn("content", device, ctx)
    <3>1. ~Has(device.pkg, "data")
      BY <1>1, <2>1, <2>3 DEF KeptBody, BackupOK, Entries, StorageKeys
    <3>2. InBck
      BY <2>2, <3>1 DEF InPkg, Has
    <3>3. phase' = "process" /\ it' = 8 /\ part' = "content" /\ device' = device
      BY <1>1, <2>3 DEF GoOn, runnerVars, Leave
    <3>. QED  BY <2>1, <3>2, <3>3 DEF DataStands, DataMoved, InBck
  <2>4. ASSUME NEW e \in ctx.todo,
               GoOn("backup", [device EXCEPT !.bck = Put(@, e, device.pkg[e]), !.pkg = Drop(@, e)],
                    [ctx EXCEPT !.todo = @ \ {e}])
        PROVE  DataStands' /\ DataMoved'
    <3>1. phase' = "process" /\ it' = 8 /\ part' = "backup"
      BY <1>1, <2>4 DEF GoOn, runnerVars
    <3>2. device'.bck = Put(device.bck, e, device.pkg[e]) /\ device'.pkg = Put(device.pkg, e, {})
      BY <2>4 DEF GoOn, Leave, Devices, Drop
    <3>3. e \in Entries /\ ~Has(device.bck, e)
      <4>1. Step = "CopyBackup"
        BY <1>4 DEF CopyBackupEntry, Process
      <4>2. ctx.todo \subseteq Entries
        BY <1>1, <2>1, <4>1 DEF TypeInv, LoopsOK, Loops
      <4>. QED  BY <2>1, <4>2
    <3>4. Exists(device'.bck) /\ device.bck \in Trees /\ device.pkg \in Trees
      <4>1. device.bck \in Trees /\ device.pkg \in Trees
        BY DEF Devices
      <4>2. \A files : Put(device.bck, e, files)["."] = device.bck["."]
        BY <3>3, <4>1, DataTrees, SMTT(20) DEF Entries, StorageKeys
      <4>. QED  BY <2>1, <3>2, <4>1, <4>2 DEF Exists
    <3>5. CASE e = "data"
      BY <2>2, <3>1, <3>2, <3>3, <3>4, <3>5, DataTrees DEF DataStands, DataMoved, InPkg, InBck, Has
    <3>6. CASE e # "data"
      <4>1. device'.bck["data"] = device.bck["data"] /\ device'.pkg["data"] = device.pkg["data"]
        <5>1. \A t \in Trees : \A files : Put(t, e, files)["data"] = t["data"]
          BY <3>3, <3>6, DataTrees DEF Entries, StorageKeys
        <5>. QED  BY <3>2, <3>4, <5>1
      <4>. QED  BY <2>2, <3>1, <3>4, <4>1 DEF DataStands, DataMoved, InPkg, InBck, Has
    <3>. QED  BY <3>5, <3>6
  <2>. QED  BY <1>4, <2>1, <2>3, <2>4 DEF CopyBackupEntry, FailsHere
<1>5. CASE CopyBackupNewContent
  <2>1. InBck /\ Exists(device.bck)
    BY <1>1, <1>5, UpdateStands DEF At, DataMoved, KeptBody, BackupOK
  <2>2. device'.bck = device.bck
    BY <1>5 DEF CopyBackupNewContent, Done, FailsHere, Failed, Leave, Devices
  <2>3. \/ phase' = "process" /\ it' = 9 /\ part' = "start"
        \/ phase' = "undo" /\ it' = 8
    BY <1>1, <1>5, Places
       DEF CopyBackupNewContent, Done, StepOk, FailsHere, Failed, StepFails
  <2>. QED  BY <2>1, <2>2, <2>3 DEF DataStands, DataMoved, InBck
<1>. QED  BY <1>2, <1>3, <1>4, <1>5

\* The rollback of an update.
LEMMA UndoKeepsData ==
  ASSUME TypeInv, KeptBody, Mended', DataSafe,
         CopyBackupUndo \/ CopyBackupRestore \/ \E key \in StorageKeys : CopyStorageUndo(key)
  PROVE  DataSafe'
<1>. device \in Devices /\ device.bck \in Trees /\ device.pkg \in Trees
  BY Places DEF Devices
<1>. ~Fault("undo", "CopyBackup") /\ ~Fault("undo", "CopyStorage")
  BY MendedBefore DEF Mendable
<1>. DataStands /\ DataMoved /\ stable # None /\ ~global
  BY DEF DataSafe
<1>1. /\ phase = "undo" /\ req = "Update" /\ it \in {8, 9}
      /\ Moves /\ req' = req /\ stable' = stable /\ global' = global
  BY UpdateStands, CommonStands, HandlersMove DEF At, Handler, UpdateStep, SameRequest
<1>2. SUFFICES DataStands' /\ DataMoved'
  BY <1>1 DEF DataSafe, DataRecovered
<1>3. /\ Put(Put(device.bck, ".", {Dot}), "data", device.pkg["data"])["data"] = device.pkg["data"]
      /\ Put(Put(device.bck, ".", {Dot}), "data", device.pkg["data"])["."] = {Dot}
      /\ Put(Put(device.bck, ".", {Dot}), "shared", device.pkg["shared"])["data"] = device.bck["data"]
      /\ Put(Put(device.bck, ".", {Dot}), "shared", device.pkg["shared"])["."] = {Dot}
  BY StateAssumption DEF Put, Trees, Nodes, Entries, CodeLike, StorageKeys
<1>4. CASE CopyBackupUndo
  <2>1. it = 8 /\ part = "start"
    BY <1>4, UpdateStands DEF At
  <2>2. CASE ~Exists(device.bck)
    <3>1. device'.pkg = device.pkg /\ device'.bck = device.bck /\ phase' = "undo" /\ it' = 7
      BY <1>1, <1>4, <2>1, <2>2 DEF CopyBackupUndo, Undone, Leave, StepUndone, Devices
    <3>. QED  BY <1>1, <2>2, <3>1 DEF DataStands, DataMoved, InPkg
  <2>3. CASE Exists(device.bck)
    <3>1. device'.bck = device.bck /\ phase' = "undo" /\ it' = 8
      BY <1>1, <1>4, <2>1, <2>3 DEF CopyBackupUndo, GoOn, Leave, runnerVars, Devices
    <3>. QED  BY <1>1, <2>1, <2>3, <3>1 DEF DataStands, DataMoved, InBck
  <2>. QED  BY <2>2, <2>3
<1>5. CASE CopyBackupRestore
  <2>1. it = 8 /\ InBck
    BY <1>1, <1>5, UpdateStands DEF At, DataMoved, KeptBody, BackupOK
  <2>2. device'.pkg = device.bck /\ device'.bck = Missing /\ phase' = "undo" /\ it' = 7
    <3>. DEFINE d == [device EXCEPT !.pkg = device.bck, !.bck = Missing]
    <3>1. Undone(TRUE, d)
      BY <1>5 DEF CopyBackupRestore
    <3>2. d.pkg = device.bck /\ d.bck = Missing
      BY DEF Devices
    <3>. HIDE DEF d
    <3>. QED  BY <1>1, <2>1, <3>1, <3>2 DEF Undone, Leave, StepUndone
  <2>. QED  BY <2>1, <2>2, EmptyTrees DEF DataStands, DataMoved, InPkg, InBck
<1>6. ASSUME NEW key \in StorageKeys, CopyStorageUndo(key)
      PROVE  DataStands' /\ DataMoved'
  <2>1. it = 9 /\ part = UndoPart(key) /\ Exists(device.bck)
    BY <1>1, <1>6, UpdateStands DEF At, KeptBody, BackupOK
  <2>2. \/ device' = device /\ ~(Has(device.pkg, key) /\ ~Has(device.bck, key))
        \/ /\ device'.bck = Put(Put(device.bck, ".", {Dot}), key, device.pkg[key])
           /\ Has(device.pkg, key) /\ ~Has(device.bck, key)
    <3>. DEFINE d == [device EXCEPT !.bck = Put(Put(@, ".", {Dot}), key, device.pkg[key]),
                                    !.pkg = Drop(@, key)]
    <3>1. d.bck = Put(Put(device.bck, ".", {Dot}), key, device.pkg[key])
      BY DEF Devices
    <3>. HIDE DEF d
    <3>2. (Has(device.pkg, key) /\ ~Has(device.bck, key) /\ device' = d)
          \/ (device' = device /\ ~(Has(device.pkg, key) /\ ~Has(device.bck, key)))
      BY <1>6 DEF CopyStorageUndo, GoOn, Undone, Leave, d
    <3>. QED  BY <3>1, <3>2
  <2>3. ASSUME device' = device, ~(Has(device.pkg, key) /\ ~Has(device.bck, key))
        PROVE  Exists(device'.bck) /\ InBck'
    <3>1. InBck
      <4>1. CASE key = "data"
        BY <1>1, <2>1, <2>3, <4>1 DEF DataStands, InPkg, Has
      <4>2. CASE key = "shared"
        BY <1>1, <2>1, <4>2 DEF DataMoved, UndoPart
      <4>. QED  BY <4>1, <4>2 DEF StorageKeys
    <3>. QED  BY <2>1, <2>3, <3>1 DEF InBck
  <2>4. ASSUME device'.bck = Put(Put(device.bck, ".", {Dot}), key, device.pkg[key]),
               Has(device.pkg, key), ~Has(device.bck, key)
        PROVE  Exists(device'.bck) /\ InBck'
    <3>1. CASE key = "data"
      <4>1. InPkg
        BY <1>1, <2>1, <2>4, <3>1 DEF DataStands, InBck, Has
      <4>2. device'.bck["data"] = device.pkg["data"] /\ device'.bck["."] = {Dot}
        BY <1>3, <2>4, <3>1
      <4>. QED  BY <4>1, <4>2 DEF InPkg, InBck, Exists
    <3>2. CASE key = "shared"
      <4>1. InBck
        BY <1>1, <2>1, <3>2 DEF DataMoved, UndoPart
      <4>2. device'.bck["data"] = device.bck["data"] /\ device'.bck["."] = {Dot}
        BY <1>3, <2>4, <3>2
      <4>. QED  BY <4>1, <4>2 DEF InBck, Exists
    <3>. QED  BY <3>1, <3>2 DEF StorageKeys
  <2>5. phase' = "undo"
    BY <1>1, <2>1 DEF Moves, Proceeds, Breaks, Stays, Retreats, Tidies
  <2>6. Exists(device'.bck) /\ InBck'
    BY <2>2, <2>3, <2>4
  <2>. QED  BY <2>5, <2>6 DEF DataStands, DataMoved
<1>. QED  BY <1>2, <1>4, <1>5, <1>6

\* Moving the storage from the backup to the new version.
LEMMA StorageKeepsData ==
  ASSUME TypeInv, KeptBody, Mended', DataSafe, ~Fault("fail", "StorageRemove"),
         NEW key \in StorageKeys, CopyStorageMove(key) \/ CopyStorageRemove(key)
  PROVE  DataSafe'
<1>. device \in Devices /\ device.bck \in Trees /\ device.pkg \in Trees
  BY Places DEF Devices
<1>. DataStands /\ DataMoved /\ stable # None /\ ~global
  BY DEF DataSafe
<1>1. /\ phase = "process" /\ req = "Update" /\ it = 9
      /\ Moves /\ req' = req /\ stable' = stable /\ global' = global
  BY UpdateStands, CommonStands, HandlersMove DEF At, Handler, UpdateStep, SameRequest
<1>2. SUFFICES DataStands' /\ DataMoved'
  BY <1>1 DEF DataSafe, DataRecovered
<1>3. Exists(device.bck) /\ (InBck \/ (InPkg /\ ~Has(device.bck, "data")))
  BY <1>1 DEF KeptBody, BackupOK, DataStands
<1>4. CASE CopyStorageMove(key)
  <2>. DEFINE src == device.bck[key]
              dst == device.pkg[key]
  <2>1. part = key /\ (key = "shared" => InPkg)
    BY <1>1, <1>4, UpdateStands DEF At, DataMoved
  <2>2. CASE Failed(device, ctx) \/ FailsHere("CopyStorage")
    <3>1. device' = device /\ phase' = "undo" /\ it' = 9 /\ part' = "start"
      BY <1>1, <2>2 DEF FailsHere, Failed, Leave, StepFails
    <3>. QED  BY <1>3, <3>1 DEF DataStands, DataMoved, InPkg, InBck
  <2>3. CASE /\ src # {}
             /\ GoOn(NextKey(key), [device EXCEPT !.pkg = Put(@, key, src), !.bck = Drop(@, key)], ctx)
    <3>1. /\ device'.pkg = Put(device.pkg, key, src) /\ device'.bck = Put(device.bck, key, {})
          /\ phase' = "process" /\ it' = 9 /\ part' = NextKey(key)
      BY <1>1, <2>3 DEF GoOn, Leave, runnerVars, Devices, Drop
    <3>2. InPkg' /\ Exists(device'.bck) /\ (InBck' \/ ~Has(device'.bck, "data"))
      <4>1. CASE key = "data"
        <5>1. InBck
          BY <1>3, <2>3, <4>1 DEF Has
        <5>. QED  BY <1>3, <3>1, <4>1, <5>1, DataTrees DEF InPkg, InBck, Has, Exists
      <4>2. CASE key = "shared"
        BY <1>3, <2>1, <3>1, <4>2, DataTrees DEF InPkg, InBck, Has, Exists
      <4>. QED  BY <4>1, <4>2 DEF StorageKeys
    <3>. QED  BY <3>1, <3>2 DEF DataStands, DataMoved
  <2>4. ASSUME NEW files, src # {}, device'.bck = device.bck, device'.pkg = Put(device.pkg, key, files),
               \/ files = Merge(dst, src) /\ phase' = "process" /\ it' = 9
               \/ phase' = "undo" /\ it' = 9 /\ part' = "start"
        PROVE  DataStands' /\ DataMoved'
    <3>1. (phase' = "process" => InPkg') /\ (InBck' \/ (InPkg' /\ ~Has(device'.bck, "data")))
      <4>1. CASE key = "data"
        <5>1. InBck
          BY <1>3, <2>4, <4>1 DEF Has
        <5>2. UserFile \in Merge(dst, src)
          BY <4>1, <5>1, MergedData DEF InBck
        <5>3. phase' = "process" => InPkg'
          BY <2>4, <4>1, <5>2, DataTrees DEF InPkg
        <5>. QED  BY <2>4, <5>1, <5>3 DEF InBck
      <4>2. CASE key = "shared"
        BY <1>3, <2>1, <2>4, <4>2, DataTrees DEF InPkg, InBck
      <4>. QED  BY <4>1, <4>2 DEF StorageKeys
    <3>. QED  BY <1>3, <2>4, <3>1 DEF DataStands, DataMoved
  <2>5. \/ Failed(device, ctx) \/ FailsHere("CopyStorage")
        \/ /\ src # {}
           /\ GoOn(NextKey(key), [device EXCEPT !.pkg = Put(@, key, src), !.bck = Drop(@, key)], ctx)
        \/ /\ src # {}
           /\ \/ GoOn(Cleanup(key), [device EXCEPT !.pkg = Put(@, key, Merge(dst, src))], ctx)
              \/ \E files \in CopyCut(dst, src) : Failed([device EXCEPT !.pkg = Put(@, key, files)], ctx)
    BY <1>4 DEF CopyStorageMove
  <2>6. CASE src # {} /\ GoOn(Cleanup(key), [device EXCEPT !.pkg = Put(@, key, Merge(dst, src))], ctx)
    <3>1. /\ device'.bck = device.bck /\ device'.pkg = Put(device.pkg, key, Merge(dst, src))
          /\ phase' = "process" /\ it' = 9
      BY <1>1, <2>6 DEF GoOn, Leave, runnerVars, Devices
    <3>. QED  BY <2>4, <2>6, <3>1
  <2>7. ASSUME src # {}, NEW files, Failed([device EXCEPT !.pkg = Put(@, key, files)], ctx)
        PROVE  DataStands' /\ DataMoved'
    <3>1. /\ device'.bck = device.bck /\ device'.pkg = Put(device.pkg, key, files)
          /\ phase' = "undo" /\ it' = 9 /\ part' = "start"
      BY <1>1, <2>7 DEF Failed, Leave, StepFails, Devices
    <3>. QED  BY <2>4, <2>7, <3>1
  <2>. QED  BY <2>2, <2>3, <2>5, <2>6, <2>7
<1>5. CASE CopyStorageRemove(key)
  <2>1. InPkg
    BY <1>1, <1>5, UpdateStands DEF At, DataMoved, Cleanup
  <2>2. /\ device'.pkg = device.pkg /\ device'.bck = Put(device.bck, key, {})
        /\ phase' = "process" /\ it' = 9
    BY <1>1, <1>5 DEF CopyStorageRemove, GoOn, Leave, runnerVars, Devices, Drop
  <2>3. Exists(device'.bck) /\ (InBck' \/ ~Has(device'.bck, "data"))
    <3>1. CASE key = "data"
      BY <1>3, <2>2, <3>1, DataTrees DEF Has, Exists
    <3>2. CASE key = "shared"
      BY <1>3, <2>2, <3>2, DataTrees DEF InBck, Has, Exists
    <3>. QED  BY <3>1, <3>2 DEF StorageKeys
  <2>. QED  BY <2>1, <2>2, <2>3 DEF DataStands, DataMoved, InPkg
<1>. QED  BY <1>2, <1>4, <1>5

\* A recovery that has a backup moves the file back into it, before it replaces the
\* package directory by the backup.
LEMMA RecoverKeepsData ==
  ASSUME TypeInv, KeptBody, Mended', DataSafe,
         RecoverStorageDirectories \/ RecoverStorageShared \/ RecoverFiles \/ RecoverFilesMove
  PROVE  DataSafe'
<1>. device \in Devices /\ device.bck \in Trees /\ device.pkg \in Trees
  BY Places DEF Devices
<1>. ~Fault("fail", "RecoverStorage") /\ ~Fault("fail", "RecoverFiles")
  BY MendedBefore DEF Mendable
<1>. DataStands /\ DataRecovered /\ stable # None /\ ~global
  BY DEF DataSafe
<1>1. /\ phase = "process" /\ req = "Recovery" /\ it \in {8, 9}
      /\ req' = req /\ stable' = stable /\ global' = global
  BY RecoveryStands, CommonStands, HandlersMove DEF At, Handler, RecoveryStep, SameRequest
<1>2. SUFFICES DataStands' /\ DataRecovered'
  BY <1>1 DEF DataSafe, DataMoved
<1>3. Updating /\ ~New
  BY <1>1 DEF KeptBody, FileOK, KindOK, Updating, New
<1>4. /\ Put(device.bck, "data", device.pkg["data"])["data"] = device.pkg["data"]
      /\ Put(device.bck, "data", device.pkg["data"])["."] = device.bck["."]
      /\ Put(device.bck, "shared", device.pkg["shared"])["data"] = device.bck["data"]
      /\ Put(device.bck, "shared", device.pkg["shared"])["."] = device.bck["."]
      /\ Put(device.pkg, "shared", {})["data"] = device.pkg["data"]
  BY StateAssumption DEF Put, Trees, Nodes, Entries, CodeLike, StorageKeys
<1>5. CASE RecoverStorageDirectories
  <2>1. /\ phase' = "process" /\ it' = 8 /\ part' = "shared"
        /\ device' = StorageRecovered(device, "data")
    BY <1>1, <1>5, RecoveryStands DEF At, RecoverStorageDirectories, GoOn, Leave, runnerVars
  <2>2. CASE Exists(device.bck)
    <3>1. CASE Has(device.pkg, "data") /\ ~Has(device.bck, "data")
      <4>1. device'.bck = Put(device.bck, "data", device.pkg["data"])
        BY <1>3, <2>1, <2>2, <3>1 DEF StorageRecovered, Devices
      <4>2. InPkg
        BY <1>1, <2>2, <3>1 DEF DataStands, InBck, Has
      <4>. QED  BY <1>4, <2>1, <2>2, <4>1, <4>2 DEF DataStands, DataRecovered, InPkg, InBck, Exists
    <3>2. CASE ~(Has(device.pkg, "data") /\ ~Has(device.bck, "data"))
      <4>1. device' = device
        BY <2>1, <3>2 DEF StorageRecovered
      <4>2. InBck
        BY <1>1, <2>2, <3>2 DEF DataStands, InPkg, Has
      <4>. QED  BY <2>1, <2>2, <4>1, <4>2 DEF DataStands, DataRecovered, InBck
    <3>. QED  BY <3>1, <3>2
  <2>3. CASE ~Exists(device.bck)
    <3>1. device' = device
      BY <2>1, <2>3 DEF StorageRecovered
    <3>. QED  BY <1>1, <2>1, <2>3, <3>1 DEF DataStands, DataRecovered, InPkg
  <2>. QED  BY <2>2, <2>3
<1>6. CASE RecoverStorageShared
  <2>1. it = 8 /\ part = "shared"
    BY <1>6, RecoveryStands DEF At
  <2>2. phase' = "process" /\ it' = 9 /\ device' = StorageRecovered(device, "shared")
    BY <1>1, <1>6, <2>1, Places DEF RecoverStorageShared, Done, StepOk, Leave
  <2>3. /\ device'.bck["data"] = device.bck["data"] /\ device'.pkg["data"] = device.pkg["data"]
        /\ device'.bck["."] = device.bck["."]
    <3>1. \/ device' = device
          \/ /\ device'.bck = Put(device.bck, "shared", device.pkg["shared"])
             /\ device'.pkg = Put(device.pkg, "shared", {})
      BY <2>2 DEF StorageRecovered, Devices, Drop
    <3>. QED  BY <1>4, <3>1
  <2>4. Exists(device.bck) => InBck
    BY <1>1, <2>1 DEF DataRecovered
  <2>5. ~Exists(device.bck) => InPkg
    BY <1>1 DEF DataStands
  <2>. QED  BY <2>2, <2>3, <2>4, <2>5 DEF DataStands, DataRecovered, InPkg, InBck, Exists
<1>7. CASE RecoverFiles
  <2>1. it = 9 /\ part = "start"
    BY <1>7, RecoveryStands DEF At
  <2>2. device'.bck = device.bck /\ (~Exists(device.bck) => device'.pkg = device.pkg)
    BY <1>3, <1>7 DEF RecoverFiles, Done, GoOn, Leave, Devices
  <2>3. phase' = "process"
    BY <1>1, <1>3, <1>7, <2>1, Places DEF RecoverFiles, Done, StepOk, GoOn, runnerVars
  <2>4. Exists(device.bck) => InBck
    BY <1>1, <2>1 DEF DataRecovered
  <2>5. ~Exists(device.bck) => InPkg
    BY <1>1 DEF DataStands
  <2>. QED  BY <2>2, <2>3, <2>4, <2>5 DEF DataStands, DataRecovered, InPkg, InBck
<1>8. CASE RecoverFilesMove
  <2>1. it = 9 /\ part = "move"
    BY <1>8, RecoveryStands DEF At
  <2>2. InBck
    BY <1>1, <2>1 DEF KeptBody, BackupOK, DataRecovered
  <2>3. device'.pkg = device.bck /\ device'.bck = Missing
    <3>. DEFINE d == [device EXCEPT !.pkg = device.bck, !.bck = Missing]
    <3>1. device' = d
      BY <1>8 DEF RecoverFilesMove, Done, Leave
    <3>2. d.pkg = device.bck /\ d.bck = Missing
      BY DEF Devices
    <3>. QED  BY <3>1, <3>2
  <2>4. phase' = "process"
    BY <1>1, <1>8, <2>1, Places DEF RecoverFilesMove, Done, StepOk
  <2>. QED  BY <2>2, <2>3, <2>4, EmptyTrees DEF DataStands, DataRecovered, InPkg, InBck
<1>. QED  BY <1>2, <1>5, <1>6, <1>7, <1>8

\* The handlers that move the file, or what could.
MovesData ==
  \/ CopyBackup \/ CopyBackupEntry \/ CopyBackupNewContent
  \/ CopyBackupUndo \/ CopyBackupRestore \/ CopiesOrRestores \/ Discards
  \/ RecoverStorageDirectories \/ RecoverStorageShared \/ RecoverFiles \/ RecoverFilesMove

\* Any other handler of an update, its commit or its clean-up leaves it where it is.
LEMMA OthersKeepData ==
  ASSUME TypeInv, KeptBody, LeftBackup, Mended', DataSafe, Handler, ~MovesData
  PROVE  DataSafe'
<1>. /\ device \in Devices /\ it \in Nat /\ it >= 1 /\ it <= Last
     /\ Last = (IF req = "Update" THEN 13 ELSE 10) /\ req \in {"Install", "Update", "Recovery"}
  BY Places
<1>. DataStands /\ DataMoved /\ DataRecovered /\ stable # None /\ ~global
  BY DEF DataSafe
<1>1. Moves /\ req' = req /\ global' = global /\ phase \in {"process", "undo", "clean"}
  BY HandlersMove DEF SameRequest
<1>2. stable' # None
  BY CommitStep, HandlersMove, Places
<1>3. ~(req = "Install" /\ (phase \in {"process", "undo"} \/ (phase = "clean" /\ it = 1)))
  BY Places DEF KeptBody, KindOK
<1>4. device'.pkg = device.pkg
  <2>1. ~(Copy \/ CopyUndo \/ CreateStorageDirectories)
    BY <1>3, InstallStands DEF At
  <2>. QED  BY <2>1, WritersOfFiles DEF MovesData
<1>5. device'.bck = device.bck \/ CopyBackupClean
  BY WritersOfFiles DEF MovesData
<1>6. CopyBackupClean => phase = "clean" /\ req = "Update" /\ it = 8
  BY UpdateStands
<1>7. Exists(device.bck) =>
        \/ req = "Recovery" /\ (phase = "undo" \/ (phase = "process" /\ it <= 9))
        \/ req = "Update" /\ phase \in {"process", "undo"} /\ it >= 8
        \/ req = "Update" /\ phase = "clean" /\ it <= 8
  BY <1>1 DEF LeftBackup, Pending, Underway, Waits
<1>8. DataStands'
  <2>1. CASE phase = "clean"
    <3>1. InPkg
      BY <2>1 DEF DataStands
    <3>2. phase' # "clean" => ~Exists(device'.bck)
      <4>. SUFFICES ASSUME phase' # "clean"
                    PROVE  ~Exists(device'.bck)
        OBVIOUS
      <4>1. it = Last
        BY <1>1, <2>1 DEF Moves, Proceeds, Breaks, Stays, Retreats, Tidies
      <4>. QED  BY <1>5, <1>6, <1>7, <2>1, <4>1
    <3>. QED  BY <1>4, <3>1, <3>2 DEF DataStands, InPkg
  <2>2. CASE phase # "clean" /\ phase' # "clean"
    BY <1>4, <1>5, <1>6, <2>2 DEF DataStands, InPkg, InBck
  <2>3. CASE phase # "clean" /\ phase' = "clean"
    <3>1. phase = "process" /\ it = Last
      BY <1>1, <2>3 DEF Moves, Proceeds, Breaks, Stays, Retreats, Tidies
    <3>2. CASE req = "Update"
      BY <1>4, <2>3, <3>1, <3>2 DEF DataStands, DataMoved, InPkg
    <3>3. CASE req = "Recovery"
      <4>1. InPkg
        BY <1>7, <3>1, <3>3 DEF DataStands
      <4>. QED  BY <1>4, <2>3, <4>1 DEF DataStands, InPkg
    <3>. QED  BY <1>3, <3>1, <3>2, <3>3
  <2>. QED  BY <2>1, <2>2, <2>3
<1>9. DataMoved'
  <2>. SUFFICES ASSUME req = "Update", phase # "clean", phase' \in {"process", "undo"}
                PROVE  DataMoved'
    <3>1. phase = "clean" => phase' \notin {"process", "undo"}
      BY <1>1 DEF Moves, Proceeds, Breaks, Stays, Retreats, Tidies
    <3>. QED  BY <1>1, <3>1 DEF DataMoved
  <2>1. device'.bck = device.bck
    BY <1>5, <1>6
  <2>2. phase = "process" => it # 8
    <3>1. phase = "process" /\ it = 8 => CopyBackup \/ CopyBackupEntry \/ CopyBackupNewContent
      BY Placing
    <3>. QED  BY <3>1 DEF MovesData
  <2>3. phase = "undo" => it \notin {8, 9}
    <3>1. /\ phase = "undo" /\ it = 8 => CopyBackupUndo \/ CopyBackupRestore
          /\ phase = "undo" /\ it = 9 => CopiesOrRestores
      BY Reverting DEF CopiesOrRestores
    <3>. QED  BY <3>1 DEF MovesData
  <2>4. phase = "process" /\ it = 9 => CopyStorageDirectories \/ CopyStorageCache
    <3>. SUFFICES ASSUME phase = "process", it = 9
                  PROVE  CopyStorageDirectories \/ CopyStorageCache
      OBVIOUS
    <3>1. ~CommonStep
      BY CommonStands DEF CommonStep, At, In
    <3>2. ~InstallStep /\ ~RecoveryStep
      BY InstallStands, RecoveryStands DEF InstallStep, RecoveryStep, At
    <3>. QED  BY <3>1, <3>2, UpdateStands DEF Handler, UpdateStep, At, MovesData, CopiesOrRestores, Discards
  <2>5. phase' = "process" /\ (it' >= 10 \/ (it' = 9 /\ part' \notin {"start", "data"})) => InPkg
    <3>. SUFFICES ASSUME phase' = "process", it' >= 10 \/ (it' = 9 /\ part' \notin {"start", "data"})
                  PROVE  InPkg
      OBVIOUS
    <3>1. phase = "process" /\ (it >= 10 \/ it = 9)
      BY <1>1, <2>2 DEF Moves, Proceeds, Breaks, Stays, Retreats, Tidies
    <3>2. CASE it >= 10
      BY <3>1, <3>2 DEF DataMoved
    <3>3. CASE it = 9 /\ CopyStorageCache
      <4>1. part = "cache"
        BY <3>3, UpdateStands DEF At
      <4>. QED  BY <3>1, <3>3, <4>1 DEF DataMoved
    <3>4. CASE it = 9 /\ CopyStorageDirectories
      <4>1. phase' = "undo" \/ (it' = 9 /\ part' = "data")
        BY <3>4 DEF CopyStorageDirectories, Failed, StepFails, GoOn, runnerVars
      <4>. QED  BY <4>1
    <3>. QED  BY <2>4, <3>1, <3>2, <3>3, <3>4
  <2>6. phase' = "process" => it' # 8 \/ part' # "content"
    BY <1>1, <2>2 DEF Moves, Proceeds, Breaks, Stays, Retreats, Tidies
  <2>7. phase' = "undo" => it' # 9 \/ part' = "start"
    BY <1>1, <2>3 DEF Moves, Proceeds, Breaks, Stays, Retreats, Tidies
  <2>8. phase' = "undo" /\ it' <= 8 => ~Exists(device.bck)
    <3>. SUFFICES ASSUME phase' = "undo", it' <= 8
                  PROVE  ~Exists(device.bck)
      OBVIOUS
    <3>1. it < 8
      BY <1>1, <2>2, <2>3 DEF Moves, Proceeds, Breaks, Stays, Retreats, Tidies
    <3>. QED  BY <1>1, <1>7, <3>1
  <2>. QED  BY <1>4, <2>1, <2>5, <2>6, <2>7, <2>8 DEF DataMoved, InPkg
<1>10. DataRecovered'
  <2>. SUFFICES ASSUME req = "Recovery", phase' = "process", Exists(device'.bck),
                       it' >= 9 \/ (it' = 8 /\ part' # "start")
                PROVE  InBck'
    BY <1>1 DEF DataRecovered
  <2>1. phase = "process" /\ it \notin {8, 9} /\ device'.bck = device.bck
    <3>1. phase = "process"
      BY <1>1 DEF Moves, Proceeds, Breaks, Stays, Retreats, Tidies
    <3>2. /\ it = 8 => RecoverStorageDirectories \/ RecoverStorageShared
          /\ it = 9 => RecoverFiles \/ RecoverFilesMove
      BY <3>1, Mending
    <3>. QED  BY <1>5, <1>6, <3>1, <3>2 DEF MovesData
  <2>2. it >= 10
    BY <1>1, <2>1 DEF Moves, Proceeds, Breaks, Stays, Retreats, Tidies
  <2>. QED  BY <1>7, <2>1, <2>2
<1>. QED  BY <1>1, <1>2, <1>8, <1>9, <1>10 DEF DataSafe

LEMMA HandlersKeepData ==
  ASSUME TypeInv, KeptBody, LeftBackup, Mended', Kept', DataKept', Next, Handler, BackupBegins, DataSafe
  PROVE  DataSafe'
<1>1. CASE CopyBackup \/ CopyBackupEntry \/ CopyBackupNewContent
  BY <1>1, BackupKeepsData
<1>2. CASE CopyBackupUndo \/ CopyBackupRestore \/ \E key \in StorageKeys : CopyStorageUndo(key)
  BY <1>2, UndoKeepsData
<1>3. ASSUME NEW key \in StorageKeys, CopyStorageMove(key) \/ CopyStorageRemove(key)
      PROVE  DataSafe'
  BY <1>3, StorageKeepsData, DataKeptBefore
<1>4. CASE RecoverStorageDirectories \/ RecoverStorageShared \/ RecoverFiles \/ RecoverFilesMove
  BY <1>4, RecoverKeepsData
<1>5. CASE ~MovesData
  BY <1>5, OthersKeepData
<1>. QED  BY <1>1, <1>2, <1>3, <1>4, <1>5 DEF MovesData, CopiesOrRestores, Discards

\* A process that begins, ends or dies, also in the middle of a removal: the package
\* directory is removed when the file is in the backup.
LEMMA WorldKeepsData ==
  ASSUME TypeInv, KeptBody, Mended', DataKept', Next, Begin \/ Exit \/ Abort \/ Crash, DataSafe
  PROVE  DataSafe'
<1>. DataStands /\ DataMoved /\ DataRecovered /\ stable # None /\ ~global
  BY DEF DataSafe
<1>1. /\ phase # "clean" /\ phase' \in {"idle", "process"} /\ (phase' = "process" => it' = 1)
      /\ stable' = stable /\ global' = global
  BY WorldMoves, Crashes, RecoveryStands DEF At, SameRequest
<1>2. SUFFICES DataStands'
  BY <1>1 DEF DataSafe, DataMoved, DataRecovered
<1>3. ASSUME NEW key \in StorageKeys, RemovesStorage(key)
      PROVE  ~Crash
  <2>1. At("process", "Update", 9, Cleanup(key))
    BY <1>3 DEF RemovesStorage
  <2>2. CrashKind = "crash" /\ Where = "StorageRemove"
    BY <2>1, Positions DEF At, CrashKind, Where, Process, Cleanup, TypeInv, RunnerOK
  <2>. QED  BY <2>2, DataKeptBefore DEF Crash
<1>7. ASSUME NEW key \in StorageKeys, CopiesStorage(key), phase' = "idle"
      PROVE  DataStands'
  <2>. device \in Devices /\ device.pkg \in Trees
    BY Places DEF Devices
  <2>1. PICK files : device'.pkg = Put(device.pkg, key, files)
    BY <1>7 DEF CopiesStorage
  <2>2. /\ At("process", "Update", 9, key) /\ device'.bck = device.bck /\ Has(device.bck, key)
    BY <1>7 DEF CopiesStorage, Touches, DeviceParts
  <2>3. Exists(device.bck) /\ (InBck \/ (InPkg /\ ~Has(device.bck, "data")))
    BY <1>1, <2>2 DEF At, KeptBody, BackupOK, DataStands
  <2>4. CASE key = "data"
    BY <1>7, <2>2, <2>3, <2>4 DEF DataStands, InBck
  <2>5. CASE key = "shared"
    BY <1>7, <2>1, <2>2, <2>3, <2>5, DataTrees DEF DataStands, InPkg, InBck
  <2>. QED  BY <2>4, <2>5 DEF StorageKeys
<1>4. CASE device'.pkg = device.pkg /\ device'.bck = device.bck
  BY <1>1, <1>4 DEF DataStands, InPkg, InBck
<1>5. CASE RemovesFiles
  <2>1. device'.bck = device.bck
    BY <1>5 DEF RemovesFiles, Touches, DeviceParts
  <2>2. Exists(device.bck) /\ InBck
    BY <1>5, Places DEF RemovesFiles, At, KeptBody, KindOK, New, DataMoved, DataRecovered
  <2>. QED  BY <1>1, <2>1, <2>2 DEF DataStands, InBck
<1>6. \/ (device'.pkg = device.pkg /\ device'.bck = device.bck) \/ RemovesFiles
      \/ phase' = "idle" /\ \E key \in StorageKeys : CopiesStorage(key)
  <2>1. CASE Begin \/ Exit \/ Abort
    BY <2>1, WorldMoves DEF Touches, DeviceParts
  <2>2. CASE Crash
    <3>1. phase' = "idle"
      BY <2>2 DEF Crash, Gone
    <3>. QED
      BY <1>3, <2>2, <3>1, Crashes DEF Touches, DeviceParts, TearsRecovery, TearsManifest, TearsRules
  <2>. QED  BY <2>1, <2>2
<1>. QED  BY <1>4, <1>5, <1>6, <1>7

LEMMA StoringMakesSafe ==
  ASSUME TypeInv, FirstRow, LeftBackup, StoreUserFile
  PROVE  DataSafe'
<1>. device \in Devices /\ device.pkg \in Trees
  BY Places DEF Devices
<1>1. /\ phase = "idle" /\ device.rec.kind = "none" /\ ~global /\ device.db # None
      /\ phase' = phase /\ stable' = stable /\ global' = global /\ device'.bck = device.bck
      /\ device'.pkg = Put(device.pkg, "data", device.pkg["data"] \cup {UserFile})
  BY WorldMoves DEF Touches, DeviceParts
<1>2. stable # None
  BY <1>1 DEF FirstRow, Underway, Waits
<1>3. ~Exists(device.bck)
  BY <1>1 DEF LeftBackup, Pending, Underway, Waits
<1>4. InPkg'
  BY <1>1, DataTrees DEF InPkg
<1>. QED  BY <1>1, <1>2, <1>3, <1>4 DEF DataSafe, DataStands, DataMoved, DataRecovered

THEOREM DataInvariant == Spec => []DataInv
<1>1. Init => DataInv
  BY DEF Init, RunnerInit, DataInv, DataBody, BackupBegins
<1>2. Sound /\ Sound' /\ RequestInv /\ DataInv /\ [Next]_vars => DataInv'
  <2>. SUFFICES ASSUME Sound, Sound', RequestInv, DataInv, [Next]_vars, ~Excused', DataKept'
                PROVE  DataBody'
    BY DEF DataInv
  <2>1. /\ ~Excused /\ FirstRow /\ TypeInv /\ Mended' /\ KeptBody /\ LeftBackup
    BY SoundSteps DEF RequestInv, RequestBody, LeftBody
  <2>2. Kept'
    BY ExcusedNever DEF Excused, Kept, ManifestLeft, NotReverted, Happened
  <2>3. CASE UNCHANGED vars
    <3>1. DataKept
      BY <2>3 DEF vars, DataKept, Happened
    <3>2. DataBody
      BY <2>1, <3>1 DEF DataInv
    <3>. QED  BY <2>3, <3>2
              DEF vars, runnerVars, envVars, DataBody, BackupBegins, DataSafe, DataStands, DataMoved,
                  DataRecovered, InPkg, InBck
  <2>4. CASE Next
    <3>1. DataBody
      BY <2>1, <2>4, DataKeptBefore DEF DataInv
    <3>2. BackupBegins'
      BY <2>1, <2>4, <3>1, BackupBeginsStep DEF DataBody
    <3>3. ASSUME written'
          PROVE  DataSafe'
      <4>1. CASE StoreUserFile
        BY <2>1, <4>1, StoringMakesSafe
      <4>2. ~StoreUserFile => written
        BY <2>1, <2>4, <3>3, WorldMoves, HandlersMove DEF Next, Handler, SameRequest
      <4>3. CASE ~StoreUserFile
        <5>1. DataSafe /\ BackupBegins
          BY <3>1, <4>2, <4>3 DEF DataBody
        <5>. QED  BY <2>1, <2>2, <2>4, <4>3, <5>1, HandlersKeepData, WorldKeepsData DEF Next, Handler
      <4>. QED  BY <4>1, <4>3
    <3>. QED  BY <3>2, <3>3 DEF DataBody
  <2>. QED  BY <2>3, <2>4
<1>. QED  BY <1>1, <1>2, SoundInvariant, RequestInvariant, PTL DEF Spec

\* A file the user has stored survives every update, rollback and recovery, in
\* whatever order its directory moves between the package and its backup, as long as
\* the removal of the copied directory is not what is cut short and the update's
\* clean-up, its backup and the reverting steps do their work.
THEOREM UserDataSurvivesHolds == Spec => []UserDataSurvives
<1>1. Sound /\ DataInv => UserDataSurvives
  <2>. SUFFICES ASSUME Sound, DataInv, Settled, ~Excused, written, DataKept
                PROVE  InPkg
    BY DEF UserDataSurvives, DataKept, InPkg
  <2>1. TypeInv /\ FileOK /\ LeftBackup /\ DataStands
    BY ExcusedNever DEF Sound, KeptInv, KeptBody, LeftInv, LeftBody, DataInv, DataBody, DataSafe
  <2>2. CASE phase = "clean"
    BY <2>1, <2>2 DEF DataStands
  <2>3. CASE phase # "clean"
    <3>1. ~Exists(device.bck)
      BY <2>1, <2>3, SettledFree DEF LeftBackup
    <3>. QED  BY <2>1, <2>3, <3>1 DEF DataStands
  <2>. QED  BY <2>2, <2>3
<1>. QED  BY <1>1, SoundInvariant, DataInvariant, PTL

-------------------------------------------------------------------------------
(* The icons are those of the committed version, as long as no process dies *)

\* Every request is over before the next one begins, so that none is recovered.
RunsThrough ==
  /\ phase = "idle" => device.rec.kind = "none"
  /\ phase # "idle" => req # "Recovery"

\* StepCreateIcons is at work: the icons it has done are the new ones, the others not
\* there.
Making == phase = "process" /\ ((req = "Install" /\ it = 7) \/ (req = "Update" /\ it = 10))
Placed(a) == device.icon[a] = IF part = "copy" /\ a \notin ctx.todo THEN NewVersion ELSE None

\* A first version has the icons it has made, which is what its rollback removes.
FirstIcon(a) ==
  Running("Install") =>
    /\ device.icon[a] # None => it >= 7 /\ a \in ctx.made
    /\ Making => Placed(a)
    /\ phase = "process" /\ it >= 8 => device.icon[a] = NewVersion

\* An update sets each icon of the old version aside before it makes its own in the
\* place, and has gathered all it has to put back.
NextIcon(a) ==
  Running("Update") =>
    /\ device.iconBck[a] = None => device.icon[a] = stable /\ it <= 7
    /\ device.iconBck[a] # None =>
         /\ device.iconBck[a] = stable /\ it >= 7
         /\ device.icon[a] # None => it >= 10 /\ a \in ctx.made
    /\ phase = "process" /\ it = 7 =>
         (device.iconBck[a] = None <=> part = "start" \/ a \in ctx.todo)
    /\ Making => Placed(a)
    /\ phase = "process" /\ it >= 11 => device.icon[a] = NewVersion
    /\ it >= 8 \/ (it = 7 /\ (phase = "undo" \/ part = "move")) => a \in ctx.gathered

IconSettled(a) ==
  /\ phase \in {"idle", "end"} \/ (phase = "clean" /\ it > 1) => device.icon[a] = stable
  /\ phase = "clean" /\ it = 1 => device.icon[a] = NewVersion

IconsBody == RunsThrough /\ \A a \in Apps : FirstIcon(a) /\ NextIcon(a) /\ IconSettled(a)
IconsInv == ~Excused /\ ~Died => IconsBody

LEMMA DiedBefore ==
  ASSUME ~Died', Next
  PROVE  ~Died /\ ~Crash
<1>1. ASSUME NEW kind, NEW where, Fault(kind, where)
      PROVE  faults \subseteq faults' /\ kind \in {"fail", "undo", "clean"}
  <2>. DEFINE f == <<kind, where>>
  <2>1. faults \subseteq faults' /\ f \in faults' /\ f[1] = kind
    BY <1>1 DEF Fault
  <2>. QED  BY <2>1 DEF Died, Only
<1>2. faults \subseteq faults'
  BY <1>1, StepsAndFaults DEF NoFault
<1>3. CrashKind \notin {"fail", "undo", "clean"}
  BY DEF CrashKind
<1>. QED  BY <1>1, <1>2, <1>3 DEF Died, Only, Crash

LEMMA RunsThroughStep ==
  ASSUME TypeInv, FileOK, Mended', ~Died', Next, RunsThrough
  PROVE  RunsThrough'
<1>1. CASE Handler
  BY <1>1, HandlersMove DEF RunsThrough, SameRequest, Moves, Proceeds, Breaks, Stays, Retreats, Tidies
<1>2. CASE Begin
  BY <1>2, WorldMoves DEF RunsThrough, RecoveryWaits
<1>3. CASE Exit
  <2>1. phase = "end" /\ req # "Recovery" /\ phase' = "idle"
    BY <1>3, WorldMoves DEF RunsThrough
  <2>2. device'.rec.kind = "none"
    BY <1>3, <2>1, WorldMoves DEF FileOK, NoRecovery
  <2>. QED  BY <2>1, <2>2 DEF RunsThrough
<1>4. CASE Abort
  BY <1>4, RecoveryStands DEF RunsThrough, At
<1>5. CASE StoreUserFile
  BY <1>5, WorldMoves DEF RunsThrough, Touches, DeviceParts
<1>. QED  BY <1>1, <1>2, <1>3, <1>4, <1>5, DiedBefore DEF Next, Handler

\* The loop that makes the new icons.
LEMMA MakingStep ==
  ASSUME TypeInv, Mended', Handler, Making, ctx.man = NewVersion, NEW a \in Apps,
         Placed(a), device.icon[a] # None => a \in ctx.made
  PROVE  /\ device'.iconBck[a] = device.iconBck[a] /\ ctx'.gathered = ctx.gathered
         /\ stable' = stable /\ req' = req
         /\ device'.icon[a] # None => a \in ctx'.made
         /\ \/ Stays /\ Placed(a)'
            \/ Breaks
            \/ Proceeds /\ device'.icon[a] = NewVersion
<1>. /\ device \in Devices /\ ctx \in Contexts
  BY Places
<1>1. CreateIcons \/ CreateIconsCopy
  BY Placing DEF Making
<1>2. device'.iconBck = device.iconBck /\ ctx'.gathered = ctx.gathered
  BY <1>1, CommonTouches DEF Touches, Learns, DeviceParts, MemoryParts
<1>3. stable' = stable /\ req' = req
  BY CommonStands, HandlersMove DEF Making, SameRequest
<1>4. CASE CreateIcons
  <2>. DEFINE c == [ctx EXCEPT !.todo = Apps]
  <2>1. c.todo = Apps /\ c.made = ctx.made
    BY DEF Contexts
  <2>2. device' = device /\ ctx' = c /\ Stays /\ part' = "copy" /\ part = "start"
    BY <1>4, CommonStands DEF CreateIcons, GoOn, Leave, Stays, runnerVars, At
  <2>. HIDE DEF c
  <2>3. device'.icon[a] = None
    BY <2>2 DEF Placed
  <2>4. Placed(a)'
    BY <2>1, <2>2, <2>3 DEF Placed
  <2>. QED  BY <1>2, <1>3, <2>2, <2>3, <2>4
<1>5. CASE CreateIconsCopy
  <2>1. part = "copy"
    BY <1>5, CommonStands DEF At
  <2>2. CASE device' = device /\ ctx' = ctx /\ (Breaks \/ (Proceeds /\ ctx.todo = {}))
    BY <1>2, <1>3, <2>1, <2>2 DEF Placed
  <2>3. ASSUME Stays, part' = "copy", NEW b \in Apps, IconMade(b)
        PROVE  (device'.icon[a] # None => a \in ctx'.made) /\ Placed(a)'
    <3>1. CASE b = a
      <4>1. device'.icon[a] = NewVersion /\ a \in ctx'.made /\ a \notin ctx'.todo
        BY <2>3, <3>1 DEF IconMade, Devices
      <4>. QED  BY <1>3, <2>3, <4>1 DEF Placed, NewVersion
    <3>2. CASE b # a
      <4>1. /\ device'.icon[a] = device.icon[a] /\ (a \in ctx.made => a \in ctx'.made)
            /\ a \in ctx'.todo <=> a \in ctx.todo
        BY <2>3, <3>2 DEF IconMade, Devices
      <4>. QED  BY <1>3, <2>1, <2>3, <4>1 DEF Placed, NewVersion
    <3>. QED  BY <3>1, <3>2
  <2>. QED  BY <1>2, <1>3, <1>5, <2>2, <2>3, IconsMade
<1>. QED  BY <1>1, <1>4, <1>5

\* Its undo() removes what was made.
LEMMA UnmakingStep ==
  ASSUME TypeInv, Mended', CreateIconsUndo, NEW a \in Apps, device.icon[a] # None => a \in ctx.made
  PROVE  /\ device'.icon[a] = None /\ device'.iconBck[a] = device.iconBck[a]
         /\ ctx'.gathered = ctx.gathered /\ stable' = stable /\ req' = req /\ Retreats
<1>. device \in Devices /\ it \in Nat /\ it >= 1
  BY Places
<1>1. stable' = stable /\ req' = req /\ ctx'.gathered = ctx.gathered
  BY CommonTouches, CommonStands, HandlersMove
     DEF Handler, CommonStep, At, SameRequest, Learns, MemoryParts
<1>2. Retreats
  BY DEF CreateIconsUndo, Undone, StepUndone, Retreats
<1>3. device'.icon[a] = IF a \in ctx.made THEN None ELSE device.icon[a]
  BY DEF CreateIconsUndo, Undone, Leave, Devices
<1>4. device'.iconBck = device.iconBck
  BY DEF CreateIconsUndo, Undone, Leave, Devices
<1>. QED  BY <1>1, <1>2, <1>3, <1>4

\* All other handlers of a request that runs leave the icons and the memory of them.
LEMMA IconsQuiet ==
  ASSUME TypeInv, Handler, Running("Install") \/ Running("Update"), ~Making,
         req = "Update" => it # 7, ~CreateIconsUndo
  PROVE  /\ device'.icon = device.icon /\ device'.iconBck = device.iconBck
         /\ ctx'.gathered = ctx.gathered /\ ctx'.made = ctx.made
<1>1. ~CreateIconsCopy
  BY CommonStands DEF At, Making
<1>2. ~BackupIcons /\ ~BackupIconsMove /\ ~BackupIconsUndo /\ ~BackupIconsClean
  BY UpdateStands DEF At, Running
<1>3. ~RecoverIconsMove
  BY RecoveryStands DEF At, Running
<1>. QED  BY <1>1, <1>2, <1>3, WritersOfMarks, WritersOfMemory

LEMMA FirstIconStep ==
  ASSUME TypeInv, Mended', Handler, ManifestRead, NEW a \in Apps, FirstIcon(a)
  PROVE  FirstIcon(a)'
<1>. SUFFICES ASSUME Running("Install")'
              PROVE  /\ device'.icon[a] # None => it' >= 7 /\ a \in ctx'.made
                     /\ Making' => Placed(a)'
                     /\ phase' = "process" /\ it' >= 8 => device'.icon[a] = NewVersion'
  BY DEF FirstIcon
<1>. it \in Nat /\ it >= 1 /\ NewVersion # None
  BY Places
<1>1. Running("Install") /\ Moves /\ stable' = stable /\ req' = req
  BY HandlersMove, CommonStands DEF Running, SameRequest, Moves, Proceeds, Breaks, Stays, Retreats, Tidies
<1>2. CASE Making
  <2>1. ctx.man = NewVersion /\ it = 7 /\ phase = "process"
    BY <1>1, <1>2 DEF ManifestRead, Making, Running
  <2>2. Placed(a) /\ (device.icon[a] # None => a \in ctx.made)
    BY <1>1, <1>2 DEF FirstIcon
  <2>. QED  BY <1>1, <1>2, <2>1, <2>2, MakingStep DEF NewVersion, Making, Running, Proceeds, Breaks, Stays
<1>3. CASE CreateIconsUndo
  <2>1. device'.icon[a] = None /\ Retreats
    BY <1>1, <1>3, UnmakingStep DEF FirstIcon
  <2>. QED  BY <2>1 DEF Retreats, Making
<1>4. CASE ~Making /\ ~CreateIconsUndo
  <2>1. device'.icon = device.icon /\ ctx'.made = ctx.made
    BY <1>1, <1>4, IconsQuiet DEF Running
  <2>2. ~(phase = "undo" /\ it = 7)
    BY <1>1, <1>4, Reverting DEF Running
  <2>3. /\ device.icon[a] # None => it >= 7 /\ a \in ctx.made
        /\ phase = "process" /\ it >= 8 => device.icon[a] = NewVersion
    BY <1>1 DEF FirstIcon
  <2>4. phase = "process" => it # 7
    BY <1>1, <1>4 DEF Making, Running
  <2>5. device.icon[a] # None => it' >= 7
    BY <1>1, <2>2, <2>3 DEF Moves, Proceeds, Breaks, Stays, Retreats, Tidies, Running
  <2>6. phase' = "process" /\ it' >= 8 => phase = "process" /\ it >= 8
    BY <1>1, <2>4 DEF Moves, Proceeds, Breaks, Stays, Retreats, Tidies, Running
  <2>7. Making' => part' = "start" /\ phase = "process" /\ it = 6
    BY <1>1, <2>4 DEF Moves, Proceeds, Breaks, Stays, Retreats, Tidies, Running, Making
  <2>. QED  BY <1>1, <2>1, <2>3, <2>5, <2>6, <2>7 DEF Placed, NewVersion
<1>. QED  BY <1>2, <1>3, <1>4

\* The loop that sets the old icons aside.
LEMMA SettingAsideStep ==
  ASSUME TypeInv, Mended', Handler, req = "Update", phase = "process", it = 7, stable # None,
         NEW a \in Apps, NextIcon(a)
  PROVE  /\ stable' = stable /\ req' = req
         /\ IF device'.iconBck[a] = None THEN device'.icon[a] = stable
                                         ELSE device'.iconBck[a] = stable /\ device'.icon[a] = None
         /\ a \in ctx'.gathered
         /\ \/ Stays /\ part' = "move" /\ (device'.iconBck[a] = None <=> a \in ctx'.todo)
            \/ Breaks
            \/ Proceeds /\ device'.iconBck[a] # None
<1>. /\ device \in Devices /\ ctx \in Contexts
  BY Places
<1>1. BackupIcons \/ BackupIconsMove
  BY Placing
<1>2. stable' = stable /\ req' = req
  BY CommonStands, HandlersMove DEF SameRequest
<1>3. /\ IF device.iconBck[a] = None THEN device.icon[a] = stable
                                     ELSE device.iconBck[a] = stable /\ device.icon[a] = None
      /\ device.iconBck[a] = None <=> part = "start" \/ a \in ctx.todo
      /\ part = "move" => a \in ctx.gathered
  BY DEF NextIcon, Running
<1>4. CASE BackupIcons
  <2>. DEFINE found == {b \in Apps : device.icon[b] # None}
              c == [ctx EXCEPT !.gathered = found, !.todo = found]
  <2>1. c.gathered = found /\ c.todo = found
    BY DEF Contexts
  <2>2. device' = device /\ ctx' = c /\ Stays /\ part' = "move" /\ part = "start"
    BY <1>4, UpdateStands DEF BackupIcons, GoOn, Leave, Stays, runnerVars, At
  <2>3. a \in found
    BY <1>3, <2>2
  <2>. HIDE DEF c, found
  <2>. QED  BY <1>2, <1>3, <2>1, <2>2, <2>3
<1>5. CASE BackupIconsMove
  <2>1. part = "move" /\ ctx'.gathered = ctx.gathered
    BY <1>5, UpdateStands, UpdateTouches DEF At, Learns, MemoryParts
  <2>2. CASE device' = device /\ ctx' = ctx /\ (Breaks \/ (Proceeds /\ ctx.todo = {}))
    BY <1>2, <1>3, <2>1, <2>2
  <2>3. ASSUME Stays, part' = "move", NEW b \in Apps, IconSetAside(b)
        PROVE  /\ IF device'.iconBck[a] = None
                    THEN device'.icon[a] = stable
                    ELSE device'.iconBck[a] = stable /\ device'.icon[a] = None
               /\ device'.iconBck[a] = None <=> a \in ctx'.todo
    <3>1. CASE b = a
      <4>1. device'.iconBck[a] = device.icon[a] /\ device'.icon[a] = None /\ a \notin ctx'.todo
        BY <2>3, <3>1 DEF IconSetAside, Devices
      <4>2. device.iconBck[a] = None
        BY <2>3, <3>1 DEF IconSetAside
      <4>. QED  BY <1>3, <4>1, <4>2
    <3>2. CASE b # a
      <4>1. /\ device'.iconBck[a] = device.iconBck[a] /\ device'.icon[a] = device.icon[a]
            /\ a \in ctx'.todo <=> a \in ctx.todo
        BY <2>3, <3>2 DEF IconSetAside, Devices
      <4>. QED  BY <1>3, <2>1, <4>1
    <3>. QED  BY <3>1, <3>2
  <2>. QED  BY <1>2, <1>3, <1>5, <2>1, <2>2, <2>3, IconsSetAside
<1>. QED  BY <1>1, <1>4, <1>5

\* Its undo() puts back what was gathered.
LEMMA PuttingBackStep ==
  ASSUME TypeInv, Mended', BackupIconsUndo, NEW a \in Apps, NextIcon(a)
  PROVE  /\ device'.icon[a] = stable /\ device'.iconBck[a] = None
         /\ stable' = stable /\ req' = req /\ Retreats
<1>. device \in Devices /\ NumSteps = Last /\ it \in Nat
  BY Places
<1>1. At("undo", "Update", 7, "start") /\ stable' = stable /\ req' = req
  BY UpdateStands DEF BackupIconsUndo, Undone, Leave, envVars
<1>2. Retreats
  BY <1>1 DEF BackupIconsUndo, Undone, Leave, StepUndone, Retreats, At
<1>3. /\ IF device.iconBck[a] = None THEN device.icon[a] = stable
                                     ELSE device.iconBck[a] = stable /\ device.icon[a] = None
      /\ a \in ctx.gathered
  BY <1>1 DEF NextIcon, Running, At
<1>. DEFINE moved == {b \in ctx.gathered : device.iconBck[b] # None /\ device.icon[b] = None}
<1>5. ~Fault("undo", "BackupIcons")
  BY MendedBefore DEF Mendable
<1>4. /\ device'.icon[a] = IF a \in moved THEN device.iconBck[a] ELSE device.icon[a]
      /\ device'.iconBck[a] = IF a \in moved THEN None ELSE device.iconBck[a]
  BY <1>5 DEF BackupIconsUndo, Undone, Leave, Devices
<1>. QED  BY <1>1, <1>2, <1>3, <1>4

LEMMA NextIconStep ==
  ASSUME TypeInv, Mended', Handler, ManifestRead, req = "Update" => stable # None,
         NEW a \in Apps, NextIcon(a)
  PROVE  NextIcon(a)'
<1>. SUFFICES ASSUME Running("Update")'
              PROVE  /\ device'.iconBck[a] = None => device'.icon[a] = stable' /\ it' <= 7
                     /\ device'.iconBck[a] # None =>
                          /\ device'.iconBck[a] = stable' /\ it' >= 7
                          /\ device'.icon[a] # None => it' >= 10 /\ a \in ctx'.made
                     /\ phase' = "process" /\ it' = 7 =>
                          (device'.iconBck[a] = None <=> part' = "start" \/ a \in ctx'.todo)
                     /\ Making' => Placed(a)'
                     /\ phase' = "process" /\ it' >= 11 => device'.icon[a] = NewVersion'
                     /\ it' >= 8 \/ (it' = 7 /\ (phase' = "undo" \/ part' = "move")) =>
                          a \in ctx'.gathered
  BY DEF NextIcon
<1>. it \in Nat /\ it >= 1 /\ NewVersion # None
  BY Places
<1>1. Running("Update") /\ Moves /\ stable' = stable /\ req' = req /\ stable # None
  BY HandlersMove, CommonStands DEF Running, SameRequest, Moves, Proceeds, Breaks, Stays, Retreats, Tidies
<1>. it' \in Nat
  BY <1>1 DEF Moves, Proceeds, Breaks, Stays, Retreats, Tidies
<1>2. CASE Making
  <2>1. ctx.man = NewVersion /\ it = 10 /\ phase = "process"
    BY <1>1, <1>2 DEF ManifestRead, Making, Running
  <2>2. /\ Placed(a) /\ (device.icon[a] # None => a \in ctx.made) /\ a \in ctx.gathered
        /\ device.iconBck[a] = stable
    BY <1>1, <1>2, <2>1 DEF NextIcon
  <2>3. /\ device'.iconBck[a] = stable /\ a \in ctx'.gathered
        /\ device'.icon[a] # None => a \in ctx'.made
        /\ \/ Stays /\ Placed(a)'
           \/ Breaks
           \/ Proceeds /\ device'.icon[a] = NewVersion
    BY <1>2, <2>1, <2>2, MakingStep
  <2>4. CASE Stays /\ Placed(a)'
    BY <1>1, <2>1, <2>3, <2>4 DEF NewVersion, Stays
  <2>5. CASE Breaks
    BY <1>1, <2>1, <2>3, <2>5 DEF Breaks, Making
  <2>6. CASE Proceeds /\ device'.icon[a] = NewVersion
    BY <1>1, <2>1, <2>3, <2>6 DEF Proceeds, Making, Running, NewVersion
  <2>. QED  BY <2>3, <2>4, <2>5, <2>6
<1>3. CASE phase = "process" /\ it = 7
  <2>1. /\ IF device'.iconBck[a] = None THEN device'.icon[a] = stable
                                        ELSE device'.iconBck[a] = stable /\ device'.icon[a] = None
        /\ a \in ctx'.gathered
        /\ \/ Stays /\ part' = "move" /\ (device'.iconBck[a] = None <=> a \in ctx'.todo)
           \/ Breaks
           \/ Proceeds /\ device'.iconBck[a] # None
    BY <1>1, <1>3, SettingAsideStep DEF Running
  <2>2. CASE Stays /\ part' = "move" /\ (device'.iconBck[a] = None <=> a \in ctx'.todo)
    BY <1>1, <1>3, <2>1, <2>2 DEF Stays, Making, Running
  <2>3. CASE Breaks
    BY <1>1, <1>3, <2>1, <2>3 DEF Breaks, Making
  <2>4. CASE Proceeds /\ device'.iconBck[a] # None
    <3>1. it' = 8 \/ phase' # "process"
      BY <1>3, <2>4 DEF Proceeds
    <3>2. it' = 8
      BY <1>1, <3>1, <2>4 DEF Running, Proceeds
    <3>. QED  BY <1>1, <2>1, <2>4, <3>2 DEF Making
  <2>. QED  BY <2>1, <2>2, <2>3, <2>4
<1>4. CASE CreateIconsUndo
  <2>1. At("undo", "Update", 10, "start")
    BY <1>1, <1>4, CommonStands DEF At, Running
  <2>2. /\ device.iconBck[a] = stable /\ a \in ctx.gathered
        /\ device.icon[a] # None => a \in ctx.made
    BY <1>1, <2>1 DEF NextIcon, At
  <2>3. device'.icon[a] = None /\ device'.iconBck[a] = stable /\ a \in ctx'.gathered /\ Retreats
    BY <1>4, <2>2, UnmakingStep
  <2>4. it' = 9 /\ phase' = "undo"
    BY <1>1, <2>1, <2>3 DEF Retreats, At, Running
  <2>. QED  BY <1>1, <2>3, <2>4 DEF Making
<1>5. CASE phase = "undo" /\ it = 7
  <2>1. device'.icon[a] = stable /\ device'.iconBck[a] = None /\ Retreats
    BY <1>1, <1>5, Reverting, PuttingBackStep DEF Running
  <2>2. it' = 6 /\ phase' = "undo"
    BY <1>1, <1>5, <2>1 DEF Retreats, Running
  <2>. QED  BY <1>1, <2>1, <2>2 DEF Making
<1>6. CASE ~Making /\ ~CreateIconsUndo /\ it # 7
  <2>1. /\ device'.icon = device.icon /\ device'.iconBck = device.iconBck
        /\ ctx'.gathered = ctx.gathered /\ ctx'.made = ctx.made
    BY <1>1, <1>6, IconsQuiet DEF Running
  <2>2. ~(phase = "undo" /\ it = 10) /\ ~(phase = "process" /\ it = 10)
    BY <1>1, <1>6, Reverting DEF Running, Making
  <2>3. NextIcon(a) /\ Running("Update")
    BY <1>1
  <2>4. CASE it < 7
    <3>1. device.iconBck[a] = None /\ device.icon[a] = stable
      BY <2>3, <2>4 DEF NextIcon
    <3>2. it' < 7 \/ (it' = 7 /\ phase' = "process" /\ part' = "start")
      BY <1>1, <2>4 DEF Moves, Proceeds, Breaks, Stays, Retreats, Tidies, Running
    <3>. QED  BY <1>1, <2>1, <3>1, <3>2 DEF Making, Running
  <2>5. CASE it > 7
    <3>1. /\ device.iconBck[a] = stable /\ a \in ctx.gathered
          /\ device.icon[a] # None => it >= 10 /\ a \in ctx.made
          /\ phase = "process" /\ it >= 11 => device.icon[a] = NewVersion
      BY <2>3, <2>5 DEF NextIcon
    <3>2. it' >= 7 /\ (it' = 7 => phase' = "undo")
      BY <1>1, <2>5 DEF Moves, Proceeds, Breaks, Stays, Retreats, Tidies, Running
    <3>3. it >= 10 => it' >= 10
      BY <1>1, <2>2, <2>5 DEF Moves, Proceeds, Breaks, Stays, Retreats, Tidies, Running
    <3>4. phase' = "process" /\ it' >= 11 => phase = "process" /\ it >= 11
      BY <1>1, <2>2, <2>5 DEF Moves, Proceeds, Breaks, Stays, Retreats, Tidies, Running
    <3>5. Making' => part' = "start" /\ device.icon[a] = None
      BY <1>1, <1>6, <2>2, <2>5, <3>1 DEF Moves, Proceeds, Breaks, Stays, Retreats, Tidies, Running, Making
    <3>. QED  BY <1>1, <2>1, <3>1, <3>2, <3>3, <3>4, <3>5 DEF Placed, NewVersion
  <2>. QED  BY <1>6, <2>4, <2>5
<1>. QED  BY <1>1, <1>2, <1>3, <1>4, <1>5, <1>6 DEF Running

LEMMA IconSettledStep ==
  ASSUME TypeInv, KeptBody, Mended', Handler, req # "Recovery", ManifestRead, NEW a \in Apps,
         FirstIcon(a), NextIcon(a), IconSettled(a)
  PROVE  IconSettled(a)'
<1>. it \in Nat /\ it >= 1 /\ Last \in Nat /\ it <= Last /\ Last >= 10
  BY Places
<1>1. Moves /\ req' = req /\ phase \in {"process", "undo", "clean"} /\ req \in {"Install", "Update"}
  BY HandlersMove, Places DEF SameRequest
<1>2. CASE phase = "process"
  <2>1. stable' = stable
    BY <1>2, CommonStands, HandlersMove
  <2>2. SUFFICES ASSUME phase' = "clean", it' = 1
                 PROVE  device'.icon[a] = NewVersion
    BY <1>1, <1>2, <2>1 DEF IconSettled, NewVersion, Moves, Proceeds, Breaks, Stays, Retreats, Tidies
  <2>3. it = Last
    BY <1>1, <1>2, <2>2 DEF Moves, Proceeds, Breaks, Stays, Retreats, Tidies
  <2>4. req = "Install" => it = 10
    BY <2>3, Places
  <2>5. req = "Update" => it = 13
    BY <2>3, Places
  <2>6. device.icon[a] = NewVersion
    BY <1>1, <1>2, <2>4, <2>5 DEF FirstIcon, NextIcon, Running
  <2>7. device'.icon = device.icon
    <3>1. ~Making /\ ~CreateIconsUndo /\ it # 7
      BY <1>1, <1>2, <2>4, <2>5, CommonStands DEF Making, At
    <3>. QED  BY <1>1, <1>2, <3>1, IconsQuiet DEF Running
  <2>. QED  BY <2>6, <2>7
<1>3. CASE phase = "undo"
  <2>1. stable' = stable
    BY <1>3, CommonStands, HandlersMove
  <2>2. SUFFICES ASSUME phase' = "end"
                 PROVE  device'.icon[a] = stable
    BY <1>1, <1>3, <2>1 DEF IconSettled, Moves, Proceeds, Breaks, Stays, Retreats, Tidies
  <2>3. it = 1
    BY <1>1, <1>3, <2>2 DEF Moves, Proceeds, Breaks, Stays, Retreats, Tidies
  <2>4. device.icon[a] = stable
    <3>1. req = "Install" => stable = None
      BY <1>3 DEF KeptBody, KindOK
    <3>. QED  BY <1>1, <1>3, <2>3, <3>1 DEF FirstIcon, NextIcon, Running
  <2>5. device'.icon = device.icon
    <3>1. ~Making /\ ~CreateIconsUndo
      BY <1>3, <2>3, CommonStands DEF Making, At
    <3>. QED  BY <1>1, <1>3, <2>3, <3>1, IconsQuiet DEF Running
  <2>. QED  BY <2>4, <2>5
<1>4. CASE phase = "clean"
  <2>1. device'.icon = device.icon
    <3>1. ~CreateIconsCopy /\ ~CreateIconsUndo
      BY <1>4, CommonStands DEF At
    <3>2. ~BackupIconsMove /\ ~BackupIconsUndo /\ ~RecoverIconsMove
      BY <1>4, UpdateStands, RecoveryStands DEF At
    <3>. QED  BY <3>1, <3>2, WritersOfMarks
  <2>2. phase' = "end" \/ (phase' = "clean" /\ it' > 1) \/ (phase' = "clean" /\ it' = it)
    BY <1>1, <1>4 DEF Moves, Proceeds, Breaks, Stays, Retreats, Tidies
  <2>3. CASE it = 1
    <3>1. ConfigureClean
      BY <1>4, <2>3, FirstHandlers
    <3>2. stable' = NewVersion /\ phase' = "clean" /\ it' = 2
      BY <3>1, CommitStep
    <3>. QED  BY <1>4, <2>1, <2>3, <3>2 DEF IconSettled
  <2>4. CASE it > 1
    <3>1. stable' = stable
      BY <2>4, CommonStands, HandlersMove
    <3>. QED  BY <1>4, <2>1, <2>2, <2>4, <3>1 DEF IconSettled
  <2>. QED  BY <2>3, <2>4
<1>. QED  BY <1>1, <1>2, <1>3, <1>4

\* Between two requests no icon is set aside.
LEMMA WorldKeepsIcons ==
  ASSUME TypeInv, KeptBody, LeftIcons, FirstKind', Mended', ~Died', Next,
         Begin \/ Exit \/ Abort \/ Crash \/ StoreUserFile, RunsThrough,
         NEW a \in Apps, IconSettled(a)
  PROVE  FirstIcon(a)' /\ NextIcon(a)' /\ IconSettled(a)'
<1>1. device'.icon = device.icon /\ device'.iconBck = device.iconBck /\ stable' = stable
  BY WorldKeeps, WorldMoves
<1>2. ~Abort
  BY RecoveryStands DEF RunsThrough, At
<1>3. CASE Exit \/ StoreUserFile
  <2>1. phase \in {"idle", "end"} /\ phase' = "idle"
    BY <1>3, WorldMoves
  <2>. QED  BY <1>1, <2>1 DEF FirstIcon, NextIcon, IconSettled, Running
<1>4. CASE Begin
  <2>1. phase = "idle" /\ phase' = "process" /\ it' = 1 /\ device' = device /\ ~RecoveryWaits
    BY <1>4, WorldMoves DEF RunsThrough, RecoveryWaits
  <2>2. device.icon[a] = stable
    BY <2>1 DEF IconSettled
  <2>3. device.iconBck[a] = None
    BY <2>1 DEF LeftIcons, SetAsideIcon, Pending, Underway, Waits, RecoveryWaits
  <2>4. ASSUME req' = "Install"
        PROVE  stable = None
    <3>1. device.db = None /\ device.rec.kind = "none"
      BY <1>4, <2>1, <2>4, WorldMoves DEF RecoveryWaits
    <3>. QED  BY <3>1 DEF KeptBody, RowOK
  <2>. QED  BY <1>1, <2>1, <2>2, <2>3, <2>4 DEF FirstIcon, NextIcon, IconSettled, Running, Making
<1>. QED  BY <1>2, <1>3, <1>4, DiedBefore

THEOREM IconsInvariant == Spec => []IconsInv
<1>1. Init => IconsInv
  <2>. SUFFICES ASSUME Init
                PROVE  IconsBody
    BY DEF IconsInv
  <2>1. phase = "idle" /\ device = CleanDevice /\ stable = None
    BY DEF Init, RunnerInit
  <2>. QED  BY <2>1 DEF IconsBody, RunsThrough, FirstIcon, NextIcon, IconSettled, Running, CleanDevice,
                        NoRecovery
<1>2. Sound /\ Sound' /\ RequestInv /\ RequestInv' /\ IconsInv /\ [Next]_vars => IconsInv'
  <2>. SUFFICES ASSUME Sound, Sound', RequestInv, RequestInv', IconsInv, [Next]_vars, ~Excused', ~Died'
                PROVE  IconsBody'
    BY DEF IconsInv
  <2>1. /\ ~Excused /\ TypeInv /\ Mended' /\ KeptBody /\ FileOK /\ LeftIcons
        /\ ManifestRead /\ FirstKind /\ FirstKind'
    BY SoundSteps DEF RequestInv, RequestBody, LeftBody, KeptBody
  <2>2. CASE UNCHANGED vars
    <3>1. IconsBody
      BY <2>1, <2>2 DEF IconsInv, vars, Died, Only
    <3>. QED  BY <2>2, <3>1
              DEF vars, runnerVars, envVars, IconsBody, RunsThrough, FirstIcon, NextIcon, IconSettled,
                  Running, Making, Placed, NewVersion
  <2>3. CASE Next
    <3>1. IconsBody
      BY <2>1, <2>3, DiedBefore DEF IconsInv
    <3>2. RunsThrough'
      BY <2>1, <2>3, <3>1, RunsThroughStep DEF IconsBody
    <3>3. ASSUME NEW a \in Apps
          PROVE  FirstIcon(a)' /\ NextIcon(a)' /\ IconSettled(a)'
      <4>. FirstIcon(a) /\ NextIcon(a) /\ IconSettled(a) /\ RunsThrough
        BY <3>1 DEF IconsBody
      <4>1. CASE Handler
        <5>1. req # "Recovery" /\ (req = "Update" => stable # None)
          BY <2>1, <4>1, HandlersMove DEF RunsThrough, FirstKind
        <5>. QED  BY <2>1, <4>1, <5>1, FirstIconStep, NextIconStep, IconSettledStep
      <4>2. CASE Begin \/ Exit \/ Abort \/ Crash \/ StoreUserFile
        BY <2>1, <2>3, <4>2, WorldKeepsIcons
      <4>. QED  BY <2>3, <4>1, <4>2 DEF Next, Handler
    <3>. QED  BY <3>2, <3>3 DEF IconsBody
  <2>. QED  BY <2>2, <2>3
<1>. QED  BY <1>1, <1>2, SoundInvariant, RequestInvariant, PTL DEF Spec

\* As long as no process dies, a request that fails leaves the icons of the version
\* committed last, whichever of the icons were moved or made before the failure,
\* although StepBackupIcons::undo() stops at the first one it does not find set aside.
THEOREM IconsAtRestHolds == Spec => []IconsAtRest
<1>1. Sound /\ IconsInv => IconsAtRest
  <2>. SUFFICES ASSUME Sound, IconsInv, Settled, ~Excused, ~Died, NEW a \in Apps
                PROVE  device.icon[a] = stable
    BY DEF IconsAtRest, IconsAre
  <2>1. TypeInv /\ FileOK /\ IconSettled(a)
    BY ExcusedNever DEF Sound, KeptInv, KeptBody, IconsInv, IconsBody
  <2>2. phase = "idle" \/ (phase = "clean" /\ it > 1)
    BY <2>1, SettledFree, Places DEF Settled
  <2>. QED  BY <2>1, <2>2 DEF IconSettled
<1>. QED  BY <1>1, SoundInvariant, IconsInvariant, PTL
===============================================================================
