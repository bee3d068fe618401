--------------------------- MODULE MCRemoteSession ----------------------------
EXTENDS RemoteSession

MCCapsMax == <<3840, 2160>>
MCEncoderMax == [tier \in {"gpu", "cpu"} |-> IF tier = "gpu" THEN <<2048, 2048>> ELSE <<3840, 2160>>]
MCMinSize == <<320, 240>>
MCHeadlessMin == <<320, 240>>
MCHeadlessMax == <<1920, 1080>>
MCScreenSize == <<2560, 1440>>
MCWindows == {<<1280, 720>>, <<5000, 1201>>, <<200, 200>>}
MCOtherModes == {}
MCModes == {<<1920, 1200>>}
===============================================================================
